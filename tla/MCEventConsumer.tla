---------------------------- MODULE MCEventConsumer ----------------------------
(***************************************************************************)
(* Small instances of EventConsumer for TLC.                               *)
(***************************************************************************)
EXTENDS EventConsumer, TLC

CONSTANTS w1, w2

MCSkips == {<<5, 1>>}

=============================================================================
