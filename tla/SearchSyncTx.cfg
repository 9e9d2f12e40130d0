SPECIFICATION Spec
CONSTANTS
    Docs = {d1, d2}
    Workers = {w1}
    MaxRows = 8
    MaxAttempts = 2
    OptimisticLock = FALSE
    NoRow = NoRow
    NoToken = NoToken
    BatchSize = 2
    ExternalSink = TRUE
    MaxWrites = 1
    MaxFaults = 2
    MaxVersion = 2
INVARIANTS
    NoLostUpdate
    OutboxBounded
PROPERTY
    ImplementsContract
