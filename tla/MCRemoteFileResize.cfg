CONSTANTS
    c1 = c1
    c2 = c2
    w1 = w1
    w2 = w2
    f = f
    Threads = {c1}
    Clients = {c1}
    Workers = {}
    Files <- OneFile
    FileSize <- FiveBytes
    ChunkSizes = {2, 3}
    SlowKeys <- NoKeys
    FaultBound <- OneCrash
    PrefetchCount = 0
    Requests <- SecondPart
    SpawnFaults = 0
SPECIFICATION SpecR
INVARIANTS
    ReadsExact
