SPECIFICATION Spec
CONSTANTS
    Pages <- MCPages
    Url <- MCUrl
    Answer <- MCAnswer
    Worlds <- MCWorlds
    Root = 10
    MaxTasks = 2
INVARIANTS TypeOK VerifiedAgreesWithCrawl
PROPERTY EffectMeasured
CHECK_DEADLOCK FALSE
