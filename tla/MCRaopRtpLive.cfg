SPECIFICATION FairSpec
CONSTANTS
  HalfMod = 3
  RAOP_BUFFER_LENGTH = 2
  Timestamps = {1}
  Vacant = Vacant
  Nothing = Nothing
  Silence = Silence
  Mailboxes = {volume}
  Values = {v1}
  Unset = Unset
  NO_FLUSH = NO_FLUSH
  UNKNOWN_SEQ = UNKNOWN_SEQ
  CallsMayFail = TRUE
PROPERTIES
  StopReturns
  RequestsAreServed
CHECK_DEADLOCK FALSE
