SPECIFICATION FairSpec
CONSTANTS
    MaxSubmits = 2
    MaxFaults = 0
    DriveId = 7
    HandlersSubmit = TRUE
    MayRemove = FALSE
    MayBreak = FALSE
    MayClose = FALSE
    AppSelects = TRUE
    HandshakeHandler = HandshakeHandler
    NoHandler = NoHandler
    NoWriter = NoWriter
    NoAck = NoAck
    NoId = NoId
    Garbage = Garbage
PROPERTIES
    EveryCallbackRuns
CHECK_DEADLOCK FALSE
