------------------------- MODULE MCQueryResultCache -------------------------
(***************************************************************************)
(* Small instances of QueryResultCache for TLC.                            *)
(***************************************************************************)
EXTENDS QueryResultCache, TLC

CONSTANTS t1, t2, k1, v1, v2, r1, r2

\* The one key reads one view, or both.
MCViewsOfOne == (k1 :> {v1})
MCViewsOfBoth == (k1 :> {v1, v2})

\* A point lookup of r1, a list of r1 and r2, and a result over the size limit.
MCResults == {[rows |-> 1, refs |-> {r1}, bytes |-> 1],
              [rows |-> 2, refs |-> {r1, r2}, bytes |-> 2],
              [rows |-> 2, refs |-> {r1}, bytes |-> 9]}

MCSymmetry == Permutations({t1, t2})
MCPoint == {[rows |-> 1, refs |-> {r1}, bytes |-> 1]}

\* The request path alone: no call of clear().
NextNoClear == (\E t \in Threads : PutAct(t) \/ InvalidateAct(t)) \/ MokaAct
SpecNoClear == Init /\ [][NextNoClear]_vars
=============================================================================
