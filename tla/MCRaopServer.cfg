SPECIFICATION Spec
CONSTANTS
    MaxConns = 2
    MaxSessions = 2
    MaxStarts = 2
INVARIANTS
    NoDanglingSession
    StoppedIsQuiet
PROPERTIES
    KeysOfClient
    MisuseOnlyWhileStopping
CHECK_DEADLOCK FALSE
