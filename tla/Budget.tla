------------------------------- MODULE Budget -------------------------------
(***************************************************************************)
(* What the rate limiter promises: each client has a budget of its own     *)
(* that regains one unit a tick up to its capacity; a request is served    *)
(* exactly when the budget covers it, and only the client's own requests   *)
(* draw on it.                                                             *)
(***************************************************************************)
EXTENDS Integers

CONSTANTS
    Clients,        \* who is to be limited
    Cost,           \* units a request takes
    Capacity        \* units a full budget holds

VARIABLES
    level,          \* units each client has left
    served,         \* units taken by its requests since counting began
    refused         \* its requests refused since counting began

vars == <<level, served, refused>>

ZeroOf == [k \in Clients |-> 0]

Init ==
    /\ level = [k \in Clients |-> Capacity]
    /\ served = ZeroOf
    /\ refused = ZeroOf

Serve(k) ==
    /\ level[k] >= Cost
    /\ level' = [level EXCEPT ![k] = @ - Cost]
    /\ served' = [served EXCEPT ![k] = @ + Cost]
    /\ UNCHANGED refused

Refuse(k) ==
    /\ level[k] < Cost
    /\ refused' = [refused EXCEPT ![k] = @ + 1]
    /\ UNCHANGED <<level, served>>

Tick ==
    /\ level' = [k \in Clients |-> IF level[k] < Capacity THEN level[k] + 1 ELSE Capacity]
    /\ UNCHANGED <<served, refused>>

\* Somebody begins to count.
Observe ==
    /\ served' = ZeroOf
    /\ refused' = ZeroOf
    /\ UNCHANGED level

Next == Tick \/ Observe \/ \E k \in Clients : Serve(k) \/ Refuse(k)

Spec == Init /\ [][Next]_vars
=============================================================================
