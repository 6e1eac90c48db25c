CONSTANTS
    j1 = j1
    j2 = j2
    p1 = p1
    p2 = p2
    w1 = w1
    w2 = w2
    Jobs = {j1, j2}
    Attempt <- MCAttempt
    MaxAttempts = 3
    Pools = {p1, p2}
    Workers = {w1, w2}
    NoJob = NoJob
    PoolOf <- MCPoolOf
SPECIFICATION FairSpec
INVARIANTS
    TypeOK
    OneOutcome
    InSight
PROPERTIES
    Settles
