SPECIFICATION Spec
CONSTANTS
    Replicas = {"r1", "r2"}
    LastMigration = 2
    CategoryMigration = 2
    Schemas = {"legacy"}
    FailFasts = {TRUE}
    Forces = {FALSE}
    LastVersion = 1
    Rollbacks = FALSE
    MaxFaults = 0
INVARIANT
    OneInstanceApplies
