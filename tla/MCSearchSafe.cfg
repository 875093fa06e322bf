CONSTANTS
    g1 = g1
    g2 = g2
    g3 = g3
    f1 = f1
    f2 = f2
    s1 = s1
    s2 = s2
    Games <- ThreeGames
    Files <- TwoFiles
    EntrySize <- Sizes
    NonAscii <- OneForeign
    Searches = {s1, s2}
    Globs <- AllOrOne
    DataLimits = {0, 4}
    CountLimits = {0, 2}
    AbandonBound = 1
    MaxSid = 3
SPECIFICATION FairSpec
INVARIANTS
    SearchInv
    PagesAddUp
    NoIdleSids
    PagesWellFormed
PROPERTIES
    SearchesEnd
