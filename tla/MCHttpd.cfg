SPECIFICATION FairSpec
CONSTANTS
  max_connections = 3
  Users = {u1, u2, u3, u4}
  None = None
  CallsMayFail = TRUE
INVARIANTS
  CountIsExact
  UsersAreOwned
  OwnRequest
  StoppedIsQuiet
PROPERTIES
  StopReturns
  ClientsAreServed
CHECK_DEADLOCK FALSE
