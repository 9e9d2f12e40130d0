SPECIFICATION JointSpec
CONSTANTS
    Writes = {"w1", "w2", "w3"}
    MaxSavepoints = 2
INVARIANTS
    CommitIsWhatCallbackSaw
    ErrorMeansNothingCommitted
    PoolStaysClean
    TransactionsTruthful
    CallsInOrder
    AnswersWereTrue
    SchemaApplied
    ReadsPortable
    EntitiesKept
PROPERTIES
    RowsGuarded
