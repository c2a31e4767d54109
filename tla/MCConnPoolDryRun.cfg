CONSTANTS
    c1 = c1
    c2 = c2
    t1 = t1
    t2 = t2
    Conns = {c1, c2}
    Tasks = {t1, t2}
    DryRuns = {t1, t2}
    Need <- MCNeed
CHECK_DEADLOCK FALSE
SPECIFICATION FairSpec
PROPERTIES
    AcquireReturns
