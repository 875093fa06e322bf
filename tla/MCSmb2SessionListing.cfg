CONSTANTS
    a = a
    b = b
    c = c
    root = root
    manifest = manifest
    Games <- ThreeGames
    RecordLength <- Lengths
    Align = 4
    Root = root
    RealFiles = {manifest}
    Globs <- AllGames
    Buffers <- BufferMix
    Tids = {1}
    UuidGenerates = FALSE
    MaxCreates = 1
SPECIFICATION FairSpec
PROPERTIES
    ListingEnds
