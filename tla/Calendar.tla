------------------------------ MODULE Calendar ------------------------------
(***************************************************************************)
(* What the reservation flow promises about the cars' calendars, with no   *)
(* tables, payments or roles in it: every day of a car has at most one     *)
(* holder, a rental takes a run of free days of one car at once, gives all *)
(* of them back or none, and keeps them for good once it is sold.          *)
(***************************************************************************)
EXTENDS Integers

CONSTANTS Cars, Days, Rentals, MaxRentalDays, Free

VARIABLES
    holder,     \* the rental that holds each day of each car, or Free
    sold        \* the rentals that are final

calendar == <<holder, sold>>

Held(i) == {day \in Cars \X Days : holder[day] = i}

Init ==
    /\ holder = [day \in Cars \X Days |-> Free]
    /\ sold = {}

Take(i, c, s, e) ==
    /\ s <= e /\ e - s < MaxRentalDays
    /\ i \notin sold /\ Held(i) = {}
    /\ \A d \in s .. e : holder[<<c, d>>] = Free
    /\ holder' = [day \in Cars \X Days |->
                     IF day[1] = c /\ day[2] \in s .. e THEN i ELSE holder[day]]
    /\ UNCHANGED sold

GiveBack(i) ==
    /\ i \notin sold /\ Held(i) # {}
    /\ holder' = [day \in Cars \X Days |-> IF holder[day] = i THEN Free ELSE holder[day]]
    /\ UNCHANGED sold

Sell(i) ==
    /\ i \notin sold /\ Held(i) # {}
    /\ sold' = sold \cup {i}
    /\ UNCHANGED holder

Next == \E i \in Rentals :
    \/ \E c \in Cars, s, e \in Days : Take(i, c, s, e)
    \/ GiveBack(i)
    \/ Sell(i)

Spec == Init /\ [][Next]_calendar
=============================================================================
