SPECIFICATION FairSpec
CONSTANTS
    Blocks <- MCBlocks
    Genesis = "g"
    Prev <- MCPrev
    Height <- MCHeight
    NextDifficulty <- MCNextDifficulty
    KeyImagesOf <- MCKeyImagesOf
    Checkpoints <- MCCheckpoints
    None = None
    Dangling = Dangling
    MaxRewind = 2
INVARIANTS
    TypeOK
    TreeIsConsistent
    BlocksAreStoredOnce
    MainChainIsHeaviest
    NoDoubleSpend
    DatabaseIsOneChain
PROPERTIES
    ImplementsForkChoice
    SaveKeepsMainChain
    SaveEnds
