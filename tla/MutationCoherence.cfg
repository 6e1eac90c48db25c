CONSTANTS
    e1 = e1
    e2 = e2
    e3 = e3
    list = list
    v_order = v_order
    v_stats = v_stats
    r1 = r1
    w1 = w1
    w2 = w2
    Entities = {e1, e2, e3}
    Views = {v_order, v_stats}
    TypeView = {v_order}
    Dependents <- MCDependents
    Queries = {list}
    ViewOf <- MCViewOf
    Scope <- MCScope
    WithIds = {list}
    Definitions <- MCDefinitions
    Readers = {r1}
    Writers = {w1, w2}
    MaxWrites = 3
    Faulty = TRUE
SPECIFICATION Spec
SYMMETRY MCSymmetry
CHECK_DEADLOCK TRUE
INVARIANTS
    TypeOK
    NoOldRow
    ListsComplete
