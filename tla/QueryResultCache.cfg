CONSTANTS
    t1 = t1
    t2 = t2
    k1 = k1
    v1 = v1
    v2 = v2
    r1 = r1
    r2 = r2
    Threads = {t1, t2}
    Keys = {k1}
    Views = {v1, v2}
    Refs = {r1, r2}
    ViewsOf <- MCViewsOfBoth
    Results <- MCResults
    Ttls = {0, 1}
    Enabled = TRUE
    CacheListQueries = TRUE
    MaxEntries = 1
    MaxEntryBytes = 4
    Budget = 1
    Wrap = 8
SPECIFICATION Spec
SYMMETRY MCSymmetry
CHECK_DEADLOCK TRUE
INVARIANTS
    TypeOK
    MemoryConserved
    IndexesNoDangling
    IndexComplete
    InvalidationComplete
    BudgetOvershootBounded
