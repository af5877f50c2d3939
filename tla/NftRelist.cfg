SPECIFICATION Spec
CONSTANTS
    MaxPrice = 1
    MaxOps = 2
    MaxHeight = 2
    MaxReorgs = 0
    ReorgDepth = 1
    Confirmations = {0}
    MaxBlocksPerCycle = 2
    Realms = 1
    MaxReadable = 2
    MaxTroubles = 1
    MaxTotal = 3
INVARIANTS
    TokenOfTheChain
