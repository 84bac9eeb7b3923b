SPECIFICATION Spec
CONSTANTS
    Replicas = {"r1"}
    LastMigration = 2
    CategoryMigration = 2
    Schemas = {"legacy"}
    FailFasts = {TRUE}
    Forces = {FALSE}
    LastVersion = 2
    Rollbacks = TRUE
    MaxFaults = 1
PROPERTY
    SkippedMeansUnchanged
