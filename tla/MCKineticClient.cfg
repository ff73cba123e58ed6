CONSTANTS
    Keys = {1, 2}
    Versions = {"v1"}
    Pins = {"p"}
    Acls <- SomeAcls
    ClusterVersions = {0, 1}
    Connections = {c1, c2}
    MaxCalls = 3
    MaxFaults = 1
    MaxReturned = 2
    Workloads <- SomeWorkloads
    DriveErrors = {"INVALID_STATUS_CODE"}
SYMMETRY Symmetry
SPECIFICATION Spec
INVARIANTS ToldOnce AckedSurvives SwappedOnce
PROPERTY ImplementsStore
CHECK_DEADLOCK FALSE
