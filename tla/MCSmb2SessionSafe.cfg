CONSTANTS
    a = a
    b = b
    c = c
    root = root
    manifest = manifest
    Games <- ThreeGames
    RecordLength <- Lengths
    Align = 4
    Root = root
    RealFiles = {manifest}
    Globs <- AllOrSome
    Buffers <- BufferMix
    Tids = {1}
    UuidGenerates = TRUE
    MaxCreates = 2
SPECIFICATION FairSpec
INVARIANTS
    HandlesInv
    HandlesAgree
    FirstPass
PROPERTIES
    AllShown
