SPECIFICATION FairSpec
CONSTANTS
    Pages = {"tab 1", "tab 2"}
    Topics = {"projects", "research"}
    NoTopic = "null"
    MaxSubmissions = 3
    MaxLoads = 2
INVARIANTS
    TurnsAlternate
    ContextFollowsPage
PROPERTIES
    SessionSettles
    SubmissionEnds
CHECK_DEADLOCK FALSE
