CONSTANTS
    u1 = u1
    u2 = u2
    u3 = u3
    MaxBaseLen = 4
    Lower <- LowerCase
    Urls = {u1, u2, u3}
    Catalogs <- Numbered
SPECIFICATION Spec
CHECK_DEADLOCK FALSE
INVARIANTS
    FilenamesUnique
