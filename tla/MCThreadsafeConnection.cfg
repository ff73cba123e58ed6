CONSTANTS
    MaxAddresses = 2
    Threads = {t1, t2, t3}
    NoThread = NoThread
    Used = {"Put", "Run", "RemoveHandler", "SetClientClusterVersion", "IterateKeyRange"}
    MaxCalls = 4
    MaxFrames = 1
    IteratorsAlone = TRUE
SPECIFICATION Spec
INVARIANTS ThreadsTypeOK OneInside OnlyKnownLeaks
PROPERTY CallsReturn
CHECK_DEADLOCK FALSE
