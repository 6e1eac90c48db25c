CONSTANTS
    b1 = b1
    b2 = b2
    MaxRow = 3
    Unknown = {3}
    Bridges = {b1, b2}
    BatchSize = 2
    MaxPublish = 3
SPECIFICATION FairSpec
INVARIANTS
    TypeOK
    NoLoss
PROPERTIES
    Delivered
    ImplementsFeed
