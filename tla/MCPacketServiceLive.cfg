SPECIFICATION FairSpec
CONSTANTS
    MaxSubmits = 3
    MaxFaults = 0
    DriveId = 7
    HandlersSubmit = FALSE
    MayRemove = TRUE
    MayBreak = FALSE
    MayClose = FALSE
    AppSelects = TRUE
    HandshakeHandler = HandshakeHandler
    NoHandler = NoHandler
    NoWriter = NoWriter
    NoAck = NoAck
    NoId = NoId
    Garbage = Garbage
PROPERTIES
    EveryCallbackRuns
CHECK_DEADLOCK FALSE
