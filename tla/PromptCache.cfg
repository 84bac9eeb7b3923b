SPECIFICATION FairSpec
CONSTANTS
    Threads = {"t1", "t2", "t3"}
    Keys = {"rewrite", "route", "route again"}
    MaxEntries = 1
INVARIANTS
    TypeOK
    SizeBounded
PROPERTIES
    LifetimeNotRenewed
    CallsEnd
