------------------------------- MODULE MCSaga -------------------------------
(***************************************************************************)
(* Small instances of Saga for TLC.                                        *)
(***************************************************************************)
EXTENDS Saga, TLC

CONSTANTS w1, w2, l1

MCSymmetry == Permutations({w1, w2})
=============================================================================
