CONSTANTS
    t1 = t1
    t2 = t2
    k1 = k1
    v1 = v1
    v2 = v2
    r1 = r1
    r2 = r2
    Threads = {t1}
    Keys = {k1}
    Views = {v1}
    Refs = {r1}
    ViewsOf <- MCViewsOfOne
    Results <- MCPoint
    Ttls = {1}
    Enabled = TRUE
    CacheListQueries = TRUE
    MaxEntries = 1
    MaxEntryBytes = 4
    Budget = 2
    Wrap = 8
SPECIFICATION SpecNoClear
CHECK_DEADLOCK TRUE
INVARIANTS
    EveryLiveEntryIndexed
