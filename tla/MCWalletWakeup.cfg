\* One worker, one block, no stop: is a chunk that was handed out processed?
CONSTANTS
    w1 = w1
    w2 = w2
    Workers = {w1}
    ChunkSize = 1
    BatchSize = 1
    StoreLimit = 1
    MaxHeight = 1
    MaxStops = 0
SPECIFICATION FairSpec
PROPERTY ChunkIsProcessed
