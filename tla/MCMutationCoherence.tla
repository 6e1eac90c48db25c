------------------------- MODULE MCMutationCoherence -------------------------
(***************************************************************************)
(* Small instances of MutationCoherence for TLC.                           *)
(***************************************************************************)
EXTENDS MutationCoherence, TLC

CONSTANTS e1, e2, e3, list, v_order, v_stats, r1, w1, w2

\* A list query over the view of the type, which depends on another view.
MCScope == [q \in Queries |-> Entities]
MCViewOf == [q \in Queries |-> v_order]
MCDependents == [v \in Views |-> IF v = v_stats THEN {v_order} ELSE {}]

\* Mutations that declare no view, or the one that only the cascade relates to
\* the list.
MCDefinitions ==
    [invalidates_views : {{}, {v_stats}}, return_view : {{v_order}}]

MCSymmetry == Permutations({e1, e2, e3}) \cup Permutations({w1, w2})
=============================================================================
