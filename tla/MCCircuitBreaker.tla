-------------------------- MODULE MCCircuitBreaker --------------------------
(***************************************************************************)
(* Small instances of CircuitBreaker for TLC.                              *)
(***************************************************************************)
EXTENDS CircuitBreaker, TLC

CONSTANTS r1, r2

\* The second entity type has an override that trips at the first failure.
MCFailureThreshold == [e \in Entities |-> IF e = 1 THEN 2 ELSE 1]
MCSuccessThreshold == [e \in Entities |-> IF e = 1 THEN 2 ELSE 1]
=============================================================================
