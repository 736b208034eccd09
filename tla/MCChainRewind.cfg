SPECIFICATION RewindSpec
CONSTANTS
    Blocks <- MCBlocks
    Genesis = "g"
    Prev <- MCPrev
    Height <- MCHeight
    NextDifficulty <- MCNextDifficulty
    KeyImagesOf <- MCKeyImagesOf
    Checkpoints <- OneCheckpoint
    None = None
    Dangling = Dangling
    MaxRewind = 2
INVARIANTS
    MainChainIsAtMostOneBehind
    BlocksAreStoredOnce
    DatabaseIsOneChain
