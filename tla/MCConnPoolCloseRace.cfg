CONSTANTS
    c1 = c1
    t1 = t1
    t2 = t2
    Conns = {c1}
    Tasks = {t1, t2}
    DryRuns = {}
    Need <- MCNeed
SPECIFICATION Spec
INVARIANTS
    NeverPanics
