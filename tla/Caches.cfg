SPECIFICATION JointSpec
CONSTANTS
    Kind = "rows"
    MaxEvents = 3
    Entity <- TwoEntities
    Workers = {"w1"}
    Leased = FALSE
    BatchSize = 2
    MaxAttempts = 2
    MaxFaults = 2
    c1 = c1
    c2 = c2
    c3 = c3
    p1 = p1
    p2 = p2
    None = None
SYMMETRY Symmetry
INVARIANTS
    NoSilentLoss
    CachesFresh
    WaitersServed
    EventsKept
