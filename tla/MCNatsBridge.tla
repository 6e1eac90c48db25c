---------------------------- MODULE MCNatsBridge ----------------------------
(***************************************************************************)
(* Small instances of NatsBridge for TLC.                                  *)
(***************************************************************************)
EXTENDS NatsBridge, TLC

CONSTANTS b1, b2

=============================================================================
