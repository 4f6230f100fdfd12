--------------------------- MODULE MCImmediateTx ---------------------------
(* Instances of ImmediateTx for TLC. *)
EXTENDS ImmediateTx

CONSTANTS r1, r2, r3, c1, c2
=============================================================================
