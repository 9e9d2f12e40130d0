SPECIFICATION FairSpec
CONSTANTS
    RootWrites = {"r1", "r2"}
    Transactions = {"t1"}
    ScopedWrites = {"w1"}
    Close = "close"
    Nobody = "nobody"
INVARIANTS
    RootWritesAreTheirOwn
    AllOrNothing
    CloseWaits
PROPERTIES
    CallersAnswered
    RetriesEnd
