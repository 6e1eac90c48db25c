-------------------------- MODULE MCObserverPipeline --------------------------
(***************************************************************************)
(* Small instances of ObserverPipeline for TLC.                            *)
(***************************************************************************)
EXTENDS ObserverPipeline, TLC

CONSTANTS b1, w1

MCSkips == {}
=============================================================================
