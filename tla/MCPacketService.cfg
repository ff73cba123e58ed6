SPECIFICATION Spec
CONSTANTS
    MaxSubmits = 3
    MaxFaults = 1
    DriveId = 7
    HandlersSubmit = TRUE
    MayRemove = TRUE
    MayBreak = TRUE
    MayClose = TRUE
    AppSelects = FALSE
    HandshakeHandler = HandshakeHandler
    NoHandler = NoHandler
    NoWriter = NoWriter
    NoAck = NoAck
    NoId = NoId
    Garbage = Garbage
INVARIANTS
    ServiceTypeOK
    OnePlace
    WireOrder
    AnswersMatch
    NeverRefused
PROPERTIES
    QuietAfterFailure
    ImplementsBoard
CHECK_DEADLOCK FALSE
