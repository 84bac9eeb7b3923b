SPECIFICATION FairSpec
CONSTANTS
    Categories <- MCCategories
    Cards = {"projects", "research", "education-facts"}
    Chunks <- MCChunks
    CardOf <- MCCardOf
    Dist <- MCDist
    PinningRules <- MCPinningRules
    RouterReplies <- MCRouterReplies
    Settings <- MCSettings
    SingleLimit = 25
    Versions <- MCVersions
INVARIANTS
    TypeOK
    BudgetsWithinCap
    ConfidenceRespected
    PinnedSurvive
    CoverageSurvives
    CoverageYieldsLast
    CategoriesCited
    ForcedEvidenceDistinct
PROPERTIES
    GroundedPromise
    RequestEnds
