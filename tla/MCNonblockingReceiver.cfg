SPECIFICATION Spec
CONSTANTS
    h1 = h1
    h2 = h2
    h3 = h3
    Handlers <- MCHandlers
    Keys <- MCKeys
    Seqs <- MCSeqs
    ConnectionIds <- MCIds
    HandshakeHandler = HandshakeHandler
    NoHandler = NoHandler
    NoAck = NoAck
    NoId = NoId
SYMMETRY Symmetry
INVARIANTS
    TypeOK
    ChecksHold
    MapsInverse
    CalledOnce
PROPERTIES
    NeverDropped
    ReturnIsTrue
CHECK_DEADLOCK FALSE
