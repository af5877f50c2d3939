SPECIFICATION FairSpec
CONSTANTS
    MaxPrice = 1
    MaxOps = 2
    MaxHeight = 3
    MaxReorgs = 1
    ReorgDepth = 1
    Confirmations = {0, 1}
    MaxBlocksPerCycle = 2
    Realms = 2
    MaxReadable = 3
    MaxTroubles = 2
    MaxTotal = 3
INVARIANTS
    TypeOK
    LedgersOfTheChain
    ConfirmedIsFinal
    ProjectionOfTheChain
    AggregatesOfTheSales
PROPERTIES
    ImplementsFeed
    CatchesUp
