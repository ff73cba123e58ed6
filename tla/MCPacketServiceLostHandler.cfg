SPECIFICATION Spec
CONSTANTS
    MaxSubmits = 1
    MaxFaults = 0
    DriveId = 7
    HandlersSubmit = FALSE
    MayRemove = FALSE
    MayBreak = FALSE
    MayClose = TRUE
    AppSelects = FALSE
    HandshakeHandler = HandshakeHandler
    NoHandler = NoHandler
    NoWriter = NoWriter
    NoAck = NoAck
    NoId = NoId
    Garbage = Garbage
INVARIANTS
    DestructorCallsBack
CHECK_DEADLOCK FALSE
