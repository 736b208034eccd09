\* Every block is downloaded; the wallet is saved, reopened, reset, extended.
CONSTANTS
    Genesis = "g"
    Blocks <- MCBlocks
    Prev <- MCPrev
    ChainTo <- MCChainTo
    Height <- MCHeight
    Work <- MCHeight
    NonEmpty = {"a1", "b3", "c4"}
    Ours = {"a1"}
    SkipEmpty = FALSE
    RecentSize = 2
    Interval = 1
    ChunkSize = 2
    BatchSize = 2
    StoreLimit = 2
    ScanHeights = {1, 2}
    MayReturn = FALSE
    MaxPauses = 2
SPECIFICATION FairSpec
INVARIANTS
    SyncTypeOK
    
 
