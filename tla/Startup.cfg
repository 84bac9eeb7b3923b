SPECIFICATION FairSpec
CONSTANTS
    Replicas = {"r1", "r2"}
    LastMigration = 2
    CategoryMigration = 2
    Schemas = {"legacy"}
    FailFasts = {TRUE, FALSE}
    Forces = {FALSE, TRUE}
    LastVersion = 2
    Rollbacks = FALSE
    MaxFaults = 1
INVARIANTS
    TypeOK
    LedgerMatchesSchema
    OneIngests
    RecordedWasIngested
    ServesCurrent
    UnmigratedNotRecorded
PROPERTY
    StartupEnds
