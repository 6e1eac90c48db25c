CONSTANTS
    w1 = w1
    w2 = w2
    Events = {1, 2, 3, 4, 5}
    Broken = {2}
    Filtered = {3}
    Foreign = {4}
    MaxMsg = 1
    NumActions = 2
    Skips <- MCSkips
    DlqActions = {2}
    MaxAttempts = 2
    MaxDlq = 1
    MaxUnconfirmed = 1
    Workers = {w1, w2}
SPECIFICATION FairSpec
CHECK_DEADLOCK FALSE
INVARIANTS
    TypeOK
    OncePerClaim
    OneRunner
    DlqBounded
    NoneDropped
PROPERTY Handled
