SPECIFICATION PoolSpec
CONSTANTS
    Blocks <- LinearBlocks
    Genesis = "g"
    Prev <- LinearPrev
    ChainTo <- LinearChainTo
    Work <- LinearWork
    Transactions <- MCTransactions
    OneTimeKeys = {"k1", "k2", "k3"}
    KeyImages <- MCKeyImages
    TransactionsOf <- LinearTransactionsOf
    MixinEnd <- MCMixinEnd
    Threads = {"dispatcher"}
    Dispatcher = "dispatcher"
INVARIANTS
    PoolIsUnspent
PROPERTIES
    OnlyInvalidatedAreRemoved
