SPECIFICATION Spec
CONSTANTS
    Procs = {p1}
    Tasks = {t1, t2}
    Home <- Together
    Keys = {k1}
    None = None
    Distributed = TRUE
    Sync = FALSE
    EpochLimit = 1
    FailureLimit = 1
    MaxCalls = 2
    MaxFaults = 1
SYMMETRY Symmetry
INVARIANTS
    NoStaleRead
    CacheInv
PROPERTY NoOvertakenHit
