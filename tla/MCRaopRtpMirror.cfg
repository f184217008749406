SPECIFICATION FairSpec
CONSTANTS
  PREFIX = 3
  MaxStreams = 3
  CallsMayFail = TRUE
INVARIANTS
  JoinedIsQuiet
  SocketsOutliveThreads
  HeaderOfOneStream
PROPERTIES
  StopReturns
CHECK_DEADLOCK FALSE
