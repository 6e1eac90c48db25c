CONSTANTS
    r1 = r1
    r2 = r2
    Entities = {1, 2}
    Requests = {r1, r2}
    NoRequest = NoRequest
    FailureThreshold <- MCFailureThreshold
    SuccessThreshold <- MCSuccessThreshold
SPECIFICATION FairSpec
INVARIANTS
    TypeOK
    ProbeHeld
    ProbesBounded
PROPERTIES
    Recovers
