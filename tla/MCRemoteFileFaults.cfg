CONSTANTS
    c1 = c1
    c2 = c2
    w1 = w1
    w2 = w2
    f = f
    Threads = {c1, w1}
    Clients = {c1}
    Workers = {w1}
    Files <- OneFile
    FileSize <- FiveBytes
    ChunkSizes = {2}
    SlowKeys <- MiddleChunk
    FaultBound <- MixedFaults
    PrefetchCount = 1
    Requests <- Spread
    SpawnFaults = 1
SPECIFICATION FairSpecR
INVARIANTS
    RangesInsideFile
PROPERTIES
    ImplementsReads
    ReadsReturn
