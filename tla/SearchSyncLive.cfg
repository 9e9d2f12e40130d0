SPECIFICATION FairSpec
CONSTANTS
    Docs = {d1}
    Workers = {w1, w2}
    MaxRows = 8
    MaxAttempts = 2
    OptimisticLock = TRUE
    NoRow = NoRow
    NoToken = NoToken
    BatchSize = 1
    ExternalSink = FALSE
    MaxWrites = 2
    MaxFaults = 1
    MaxVersion = 2
INVARIANT
    Inv
PROPERTY
    Converges
