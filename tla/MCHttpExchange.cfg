SPECIFICATION Spec
CONSTANTS
    ULLONG_MAX = 255
    Messages <- MCMessages
    Malformed = Malformed
    MaxMessages = 2
    BodySizes <- MCBodySizes
    CSeqLengths <- MCCSeqLengths
    Pipelines = FALSE
INVARIANTS
    HandledAsSent
    ParserAssertionsHold
    ResponseFits
PROPERTY
    EveryMessageHandled
CHECK_DEADLOCK FALSE
