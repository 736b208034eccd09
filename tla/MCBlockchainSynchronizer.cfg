SPECIFICATION FairSpec
CHECK_DEADLOCK FALSE
CONSTANTS
    c = c
    d = d
    g = g
    a1 = a1
    a2 = a2
    a3 = a3
    a4 = a4
    a5 = a5
    a6 = a6
    a7 = a7
    b6 = b6
    b7 = b7
    b8 = b8
    t = t
    none = none
    Genesis = g
    First = c
    NoBlock = none
    Start = a7
    Consumers <- MCConsumers
    Blocks <- MCBlocks
    Path <- MCPath
    NextTips <- MCNextTips
    Txs <- MCTxs
    BatchSize = 6
    Recent = 2
    Partial = {0, 1}
    MaxFaults = 1
    MaxChanges = 2
INVARIANTS
    SynchronizerTypeOK
    
    StoppedIsQuiet
PROPERTIES
    StopReturns
    ConsumersCatchUp
