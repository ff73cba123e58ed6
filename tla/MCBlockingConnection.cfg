SPECIFICATION BlockingSpec
CONSTANTS
    MaxSubmits = 2
    MaxFaults = 1
    DriveId = 7
    HandlersSubmit = FALSE
    MayRemove = TRUE
    MayBreak = TRUE
    MayClose = TRUE
    AppSelects = FALSE
    HandshakeHandler = HandshakeHandler
    NoHandler = NoHandler
    NoWriter = NoWriter
    NoAck = NoAck
    NoId = NoId
    Garbage = Garbage
INVARIANTS
    BlockingTypeOK
    ResultsMatch
PROPERTIES
    OnlyTheWrittenIsLate
    SuccessLostOnlyByFailure
    OperationsReturn
CHECK_DEADLOCK FALSE
