CONSTANTS
    a = a
    b = b
    manifest = manifest
    Games = {a, b}
    RealFiles = {manifest}
    FileSize <- Sizes
    Paths <- PathMix
    Tids = {1, 2}
    MaxFid = 5
    MaxSize = 3
    MaxOpen = 3
SPECIFICATION Spec
INVARIANTS
    SessionInv
    FidsIncrease
    HandlesAgree
    DescriptorsAgree
PROPERTIES
    HandlesServed
