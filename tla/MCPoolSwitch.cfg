SPECIFICATION PoolSpec
CONSTANTS
    Blocks <- MCBlocks
    Genesis = "g"
    Prev <- MCPrev
    ChainTo <- MCChainTo
    Work <- MCWork
    Transactions <- MCTransactions
    OneTimeKeys = {"k1", "k2", "k3"}
    KeyImages <- MCKeyImages
    TransactionsOf <- MCTransactionsOf
    MixinEnd <- MCMixinEnd
    Threads = {"dispatcher"}
    Dispatcher = "dispatcher"
INVARIANT PoolIsUnspent
