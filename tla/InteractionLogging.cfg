SPECIFICATION FairSpec
CONSTANTS
    Processes = {"p1", "p2"}
    Writers = {"w1", "w2", "w3"}
    ProcessOf <- MCProcessOf
INVARIANTS
    TypeOK
    OneCreator
    StoredAtMostOnce
    InstalledNeverDisabled
    OffOnlyByRace
PROPERTIES
    MissingTableIsCreated
    WritesEnd
CHECK_DEADLOCK FALSE
