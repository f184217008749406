SPECIFICATION Spec
CONSTANTS
    InputBuffers = 2
    OutputBuffers = 2
    MaxList = 2
    MaxStarts = 2
    MaxConnections = 3
INVARIANTS
    CanContinueToConnect
CHECK_DEADLOCK FALSE
