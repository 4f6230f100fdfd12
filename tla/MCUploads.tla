----------------------------- MODULE MCUploads -----------------------------
(* Instances of Uploads for TLC. *)
EXTENDS Uploads

CONSTANTS u1, u2, f1, f2, f3, car
=============================================================================
