SPECIFICATION Spec
CONSTANTS
    Replicas = {"r1"}
    LastMigration = 2
    CategoryMigration = 2
    Schemas = {"fresh"}
    FailFasts = {TRUE}
    Forces = {FALSE}
    LastVersion = 1
    Rollbacks = FALSE
    MaxFaults = 0
INVARIANT
    FreshInstallMigrates
