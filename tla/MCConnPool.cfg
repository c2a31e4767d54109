CONSTANTS
    c1 = c1
    c2 = c2
    t1 = t1
    t2 = t2
    t3 = t3
    t4 = t4
    Conns = {c1, c2}
    Tasks = {t1, t2, t3, t4}
    DryRuns = {t1}
    Need <- MCNeed
SPECIFICATION FairSpec
INVARIANTS
    TypeOK
    ConnsConserved
    PermitsBacked
    PermitGuaranteesAvailability
PROPERTIES
    NoPermitAfterClose
    AcquireReturns
