SPECIFICATION Spec
CONSTANTS
  HalfMod = 3
  RAOP_BUFFER_LENGTH = 2
  Timestamps = {1, 2}
  Vacant = Vacant
  Nothing = Nothing
  Silence = Silence
  Mailboxes = {volume}
  Values = {v1, v2}
  Unset = Unset
  NO_FLUSH = NO_FLUSH
  UNKNOWN_SEQ = UNKNOWN_SEQ
  CallsMayFail = TRUE
INVARIANTS
  JoinedIsQuiet
  BufferHasOneOwner
  OwnSessionOnly
  NoLostPost
CHECK_DEADLOCK FALSE
