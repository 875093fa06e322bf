CONSTANTS
    c1 = c1
    c2 = c2
    w1 = w1
    w2 = w2
    f = f
    Threads = {c1, c2, w1}
    Clients = {c1, c2}
    Workers = {w1}
    Files <- OneFile
    FileSize <- FiveBytes
    ChunkSizes = {2}
    SlowKeys <- NoKeys
    FaultBound <- FetchAndCrash
    PrefetchCount = 1
    Requests <- ReadMix
    SpawnFaults = 0
SPECIFICATION SpecR
SYMMETRY Symmetry
INVARIANTS
    RemoteInv
    ReadsExact
    OnlyTouchedChunks
    PendingIsLive
    OneStorer
    NoDuplicateDownload
    IndexMatchesDisk
