CONSTANTS
    v1 = v1
    v2 = v2
    v3 = v3
    v4 = v4
    Views = {v1, v2, v3, v4}
    MaxCascades = 2
SPECIFICATION Spec
INVARIANTS
    TypeOK
    Acyclic
    CascadeExact
    PathExact
PROPERTIES
    TraversalEnds
