SPECIFICATION Spec
CONSTANTS
    Procs = {p1, p2}
    Tasks = {p1, p2}
    Home <- Apart
    Keys = {k1}
    None = None
    Distributed = TRUE
    Sync = FALSE
    EpochLimit = 2
    FailureLimit = 2
    MaxCalls = 1
    MaxFaults = 1
SYMMETRY Symmetry
INVARIANTS
    FailedKeysProtected
