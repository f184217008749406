SPECIFICATION Spec
CONSTANTS
  HalfMod = 8
  RAOP_BUFFER_LENGTH = 4
  Timestamps = {t1, t2}
  Vacant = Vacant
  Nothing = Nothing
  Silence = Silence
INVARIANTS
  WindowInv
  ResendAsksForTheGap
  HeldBackIsRequested
  TimelyPacketsAccepted
PROPERTY ImplementsWindow
