CONSTANTS
    MaxAddresses = 2
    Threads = {t1, t2}
    NoThread = NoThread
    Used = {"IterateKeyRange", "Get"}
    MaxCalls = 2
    MaxFrames = 1
    IteratorsAlone = FALSE
SPECIFICATION Spec
INVARIANT OneInside
CHECK_DEADLOCK FALSE
