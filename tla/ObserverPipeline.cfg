CONSTANTS
    b1 = b1
    w1 = w1
    MaxRow = 2
    Events = {1, 2}
    Unknown = {}
    Bridges = {b1}
    BatchSize = 2
    Broken = {}
    Filtered = {}
    Foreign = {}
    NumActions = 0
    Skips <- MCSkips
    DlqActions = {}
    MaxAttempts = 1
    MaxDlq = 1
    MaxUnconfirmed = 0
    Workers = {w1}
    MaxMsg = 2
SPECIFICATION PipelineSpec
CHECK_DEADLOCK FALSE
INVARIANTS
    EndToEnd
