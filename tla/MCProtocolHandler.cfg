SPECIFICATION FairSpec
CONSTANTS
    us = us
    p = p
    q = q
    g = g
    a1 = a1
    a2 = a2
    b2 = b2
    b3 = b3
    t = t
    u = u
    none = none
    Us = us
    NoBlock = none
    Genesis = g
    Peers <- MCPeers
    LitePeers <- MCLitePeers
    Blocks <- MCBlocks
    Prev <- MCPrev
    Path <- MCPath
    Work <- EqualWork
    Txs <- MCTxs
    BlockTxs <- TxInA
    Start <- MCStart
    Reach <- MCReach
    BatchSize = 2
    IdsSize = 3
    MaxCuts = 1
INVARIANTS
    ProtocolTypeOK
    OneDownload
    
PROPERTIES
    DownloadsKeepPeers
    CatchesUp
