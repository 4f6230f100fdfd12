----------------------------- MODULE MCSessions -----------------------------
(* Instances of Sessions for TLC. *)
EXTENDS Sessions, TLC

CONSTANTS p1, p2, p3, q1, q2

\* Pairs and requests are told apart by what happens to them only.
SessionSymmetry == Permutations(Pairs) \cup Permutations(Requests)
=============================================================================
