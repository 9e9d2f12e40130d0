SPECIFICATION Spec
CONSTANTS
    Procs = {p1}
    Tasks = {t1, t2}
    Home <- Together
    Keys = {k1}
    None = None
    Distributed = TRUE
    Sync = FALSE
    EpochLimit = 2
    FailureLimit = 2
    MaxCalls = 2
    MaxFaults = 1
SYMMETRY Symmetry
INVARIANTS
    FailedKeysProtected
