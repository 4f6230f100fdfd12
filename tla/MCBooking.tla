------------------------------ MODULE MCBooking ------------------------------
(* Instances of Booking for TLC; each cfg picks the sets it needs. *)
EXTENDS Booking, TLC

CONSTANTS ada, sam, bob, c1, c2, r1, r2, r3

\* Reservation ids are interchangeable: no handler compares them.
IdSymmetry == Permutations(Ids)
=============================================================================
