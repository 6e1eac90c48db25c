CONSTANTS
    w1 = w1
    w2 = w2
    l1 = l1
    Sagas = {1, 2}
    N = 2
    Workers = {w1}
    Loops = {l1}
    MaxBatch = 1
    Faulty = TRUE
    Crashes = TRUE
SPECIFICATION FairSpec
INVARIANTS
    CompletedKept
    CompensatedClean
    CleanupLosesNothing
PROPERTIES
    CallsReturn
