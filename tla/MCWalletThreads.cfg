\* Two workers, a chain of three blocks, chunks of two, one stop and restart.
CONSTANTS
    w1 = w1
    w2 = w2
    Workers <- TwoWorkers
    ChunkSize = 2
    BatchSize = 2
    StoreLimit = 2
    MaxHeight = 3
    MaxStops = 1
SPECIFICATION Spec
INVARIANTS
    ThreadsTypeOK
    ChunkIsConserved
    UndefinedOnlyWhileStopping
PROPERTIES
    ImplementsFeed
SYMMETRY WorkersAreAlike
