SPECIFICATION SenderSpec
CONSTANTS
    h1 = h1
    h2 = h2
    h3 = h3
    h4 = h4
    Handlers <- MCHandlers
    Keys <- MCKeys
    Ids <- MCIds
    NoHandler = NoHandler
    NoWriter = NoWriter
SYMMETRY Symmetry
INVARIANTS
    SenderTypeOK
    SentInOrder
PROPERTIES
    SenderCallsOnce
    SenderKeepsHandlers
    SendReturnIsTrue
CHECK_DEADLOCK FALSE
