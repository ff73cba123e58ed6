SPECIFICATION FairSpec
CONSTANTS
    Keys <- MCKeys
    FrameSizes <- MCFrameSizes
    MaxPast = 2
INVARIANTS
    IteratorTypeOK
    SeenAscend
    StableKeysSeen
PROPERTIES
    IterationEnds
CHECK_DEADLOCK FALSE
