SPECIFICATION SettledSpec
CONSTANTS
    Categories <- MCCategories
    Cards = {"projects", "research", "education-facts"}
    Chunks <- MCChunks
    CardOf <- MCCardOf
    Dist <- MCDist
    PinningRules <- MCPinningRules
    RouterReplies <- MCRouterReplies
    Settings <- PinSettings
    SingleLimit = 25
    Versions <- OneVersion
INVARIANT
    PinnedCardsIncluded
