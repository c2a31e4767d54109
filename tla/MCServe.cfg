CONSTANTS
    c1 = c1
    c2 = c2
    c3 = c3
    Conns = {c1, c2, c3}
    Limits = {0, 1, 2}
    MaxFaults = 1
SPECIFICATION FairSpec
CHECK_DEADLOCK FALSE
INVARIANTS
    ServeTypeOK
    ConnectionLimit
    StopsForAReason
PROPERTIES
    ServedUnlessFull
    CriticalErrorEndsNode
