CONSTANTS
    t1 = t1
    t2 = t2
    f = f
    Threads = {t1, t2}
    Files <- OneFile
    FileSize <- OneFileSize
    ChunkSizes = {2}
    SlowKeys <- NoKeys
    FaultBound <- OneDeletion
SPECIFICATION Spec
INVARIANTS
    NoDuplicateDownload
