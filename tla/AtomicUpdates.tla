--------------------------- MODULE AtomicUpdates ---------------------------
(***************************************************************************)
(* What a client may rely on when a handler writes through the database:   *)
(* the rows of an update change together, in one step that also checks     *)
(* them, and the answer tells whether that step was taken.  A request that *)
(* ends with an error, or unheard, may have taken it or not.               *)
(***************************************************************************)
CONSTANTS
    Requests,       \* clients, each with one request at a time
    Plain,          \* those whose handler is one statement on a row of its own
    Rows,           \* the rows one update writes together
    Free            \* the value of rows that nobody has taken

Answers == {"ok", "refused", "busy", "error"}

VARIABLES
    stage,          \* "open" while a request is served, then its answer
    applied,        \* whether the update of an open request was made
    table           \* the rows

vars == <<stage, applied, table>>

AllRows(v) == [x \in Rows |-> v]

Init ==
    /\ stage = [r \in Requests |-> "error"]
    /\ applied = [r \in Requests |-> FALSE]
    /\ table = AllRows(Free)

Ask(r) ==
    /\ stage[r] # "open"
    /\ stage' = [stage EXCEPT ![r] = "open"]
    /\ UNCHANGED <<applied, table>>

\* A request takes the rows if they are free and gives them back if they are its.
Update(r) ==
    /\ stage[r] = "open"
    /\ ~applied[r]
    /\ applied' = [applied EXCEPT ![r] = TRUE]
    /\ IF r \in Plain THEN UNCHANGED table
       ELSE \/ table = AllRows(Free) /\ table' = AllRows(r)
            \/ table = AllRows(r) /\ table' = AllRows(Free)
    /\ UNCHANGED stage

Answer(r, a) ==
    /\ stage[r] = "open"
    /\ a = "ok" => applied[r]
    /\ a \in {"refused", "busy"} => ~applied[r]
    /\ stage' = [stage EXCEPT ![r] = a]
    /\ applied' = [applied EXCEPT ![r] = FALSE]
    /\ UNCHANGED table

\* The server dies: whoever was being served hears nothing.
Crash ==
    /\ stage' = [r \in Requests |-> IF stage[r] = "open" THEN "error" ELSE stage[r]]
    /\ applied' = [r \in Requests |-> FALSE]
    /\ UNCHANGED table

Next == \/ \E r \in Requests : Ask(r) \/ Update(r) \/ \E a \in Answers : Answer(r, a)
        \/ Crash

Spec == Init /\ [][Next]_vars
=============================================================================
