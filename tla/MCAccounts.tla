----------------------------- MODULE MCAccounts -----------------------------
(* Instances of Accounts for TLC. *)
EXTENDS Accounts

CONSTANTS ada, sam

\* No administrator, one, two: a list may grow, shrink and be left empty.
AnyList == {{}, {ada}, {ada, sam}}

\* The list of a deployment whose operator never edits it.
FixedList == {{ada, sam}}
=============================================================================
