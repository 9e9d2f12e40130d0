SPECIFICATION JointSpec
CONSTANTS
    MaxItems = 2
    Reentrant = TRUE
    AwaitAll = FALSE
    Misbehave = TRUE
CONSTRAINT Bounded
INVARIANTS
    SavepointIsolation
    ScopeDrained
    NoLostFailure
    CommitKnown
    TransactionsFollowOutcome
    InterceptorsHonest
    SavesTruthful
    QueriesExact
    RelationsUnshared
    SearchExact
PROPERTIES
    SettledStaysSettled
    NothingAfterOutcome
    NoBlindOverwrite
