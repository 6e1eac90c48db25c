------------------------- MODULE MCCascadeInvalidator -------------------------
(***************************************************************************)
(* Instances of CascadeInvalidator for TLC.                                *)
(***************************************************************************)
EXTENDS CascadeInvalidator

CONSTANTS v1, v2, v3, v4
=============================================================================
