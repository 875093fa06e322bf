CONSTANTS
    o1 = o1
    o2 = o2
    p1 = p1
    Absent = Absent
    Garbled = Garbled
    Openers = {o1, o2}
    Pollers = {p1}
    RealSize = 5
    ProbeBytes = 2
    HeadResponses <- AnyHead
    GetResponses <- AnyGet
SPECIFICATION FairSpec
INVARIANTS
    ProbeInv
    OpensAgree
    ProbedOnce
    StatusRowConsistent
PROPERTIES
    VerdictFinal
    OpensReturn

