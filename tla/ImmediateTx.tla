---------------------------- MODULE ImmediateTx ----------------------------
(***************************************************************************)
(* How a handler writes: db.WithImmediateTx takes a connection of the      *)
(* pool, waits for SQLite's write lock with BEGIN IMMEDIATE, runs the      *)
(* handler's callback, commits or rolls back and gives the connection      *)
(* back; the handler then reads a view of the result through the pool.  A  *)
(* handler whose write is one statement leaves the transaction to SQLite.  *)
(*                                                                         *)
(* The callback here is the shape of all of them: check the rows, then     *)
(* write several.  A request may be refused by the check, fail in any      *)
(* statement, lose its client, or die with the process.                    *)
(***************************************************************************)
EXTENDS Integers, FiniteSets

CONSTANTS
    Requests,       \* clients, each with one request at a time
    Plain,          \* those whose handler is one ExecContext on the pool
    Conns,          \* connections of the pool (8 in the code, 1 in memory)
    Free,           \* the value of rows that nobody has taken
    NoConn          \* the absence of a connection

ASSUME PoolAssumption ==
    /\ Plain \subseteq Requests
    /\ Conns # {} /\ NoConn \notin Conns
    /\ Free \notin Requests

\* The rows one callback writes, in two statements.
Rows == {1, 2}

Answers == {"ok", "refused", "busy", "error"}

\* Where a request waits for a connection, and where it has one.
Waiting == {"conn", "view"}
Holding == {"begin", "first", "second", "commit", "rollback", "read", "exec"}

VARIABLES
    pc,             \* where each request is; "idle" once it is answered
    answer,         \* its answer once it is decided, an error till then
    cancelled,      \* requests whose client has gone away
    conn,           \* the connection each request holds
    writer,         \* the connection with an open transaction, so the lock
    work,           \* the rows as the open transaction sees them, if there is one
    table,          \* the committed rows
    applied         \* history: the request being served has committed

vars == <<pc, answer, cancelled, conn, writer, work, table, applied>>

Init ==
    /\ pc = [r \in Requests |-> "idle"]
    /\ answer = [r \in Requests |-> "error"]
    /\ cancelled = {}
    /\ conn = [r \in Requests |-> NoConn]
    /\ writer = NoConn
    /\ table = [x \in Rows |-> Free]
    /\ work = table
    /\ applied = [r \in Requests |-> FALSE]

Goto(r, l) == pc' = [pc EXCEPT ![r] = l]

\* What a cancelled request answers reaches nobody and counts as an error.
Decide(r, a) == answer' = [answer EXCEPT ![r] = IF r \in cancelled THEN "error" ELSE a]

Release(r) == conn' = [conn EXCEPT ![r] = NoConn]

\* The request is answered and its context ends.
Finish(r) ==
    /\ Goto(r, "idle")
    /\ cancelled' = cancelled \ {r}
    /\ applied' = [applied EXCEPT ![r] = FALSE]

(***************************************************************************)
(* Clients.                                                                *)
(***************************************************************************)

\* A client sends a request, perhaps the same one again.
Ask(r) ==
    /\ pc[r] = "idle"
    /\ Goto(r, "conn")
    /\ answer' = [answer EXCEPT ![r] = "error"]
    /\ UNCHANGED <<cancelled, conn, writer, work, table, applied>>

\* The client disconnects, which cancels the request's context.
Cancel(r) ==
    /\ pc[r] # "idle"
    /\ cancelled' = cancelled \cup {r}
    /\ UNCHANGED <<pc, answer, conn, writer, work, table, applied>>

(***************************************************************************)
(* The pool.                                                               *)
(***************************************************************************)

Idle == {c \in Conns : \A r \in Requests : conn[r] # c}

\* A waiter is given a connection.
Acquire(r) ==
    /\ pc[r] \in Waiting
    /\ r \notin cancelled
    /\ \E c \in Idle : conn' = [conn EXCEPT ![r] = c]
    /\ Goto(r, CASE pc[r] = "view" -> "read"
                 [] pc[r] = "conn" /\ r \in Plain -> "exec"
                 [] OTHER -> "begin")
    /\ UNCHANGED <<answer, cancelled, writer, work, table, applied>>

\* A waiter whose client has gone stops waiting.
GiveUp(r) ==
    /\ pc[r] \in Waiting
    /\ r \in cancelled
    /\ Decide(r, "error")
    /\ Finish(r)
    /\ UNCHANGED <<conn, writer, work, table>>

(***************************************************************************)
(* WithImmediateTx.                                                        *)
(***************************************************************************)

\* BEGIN IMMEDIATE gets the lock; the transaction sees what is committed.
Begin(r) ==
    /\ pc[r] = "begin"
    /\ r \notin cancelled
    /\ writer = NoConn
    /\ writer' = conn[r]
    /\ Goto(r, "first")
    /\ UNCHANGED <<answer, cancelled, conn, work, table, applied>>

\* It does not: the busy timeout has passed with the lock held (503), its own
\* connection already has a transaction, or the client has gone (500).
BeginFails(r) ==
    /\ pc[r] = "begin"
    /\ \/ writer # NoConn /\ Decide(r, IF writer = conn[r] THEN "error" ELSE "busy")
       \/ r \in cancelled /\ Decide(r, "error")
    /\ Release(r)
    /\ Finish(r)
    /\ UNCHANGED <<writer, work, table>>

\* Mutant: the statement goes through the pool, outside the transaction.
CheckAndWriteFirst_OutsideTx(r) ==
    /\ pc[r] = "first"
    /\ r \notin cancelled
    /\ work[1] \in {Free, r}
    /\ work' = [work EXCEPT ![1] = IF @ = Free THEN r ELSE Free]
    /\ table' = [table EXCEPT ![1] = work'[1]]
    /\ Goto(r, "second")
    /\ UNCHANGED <<answer, cancelled, conn, writer, applied>>

\* The callback checks the rows and writes the first one ...
CheckAndWriteFirst(r) ==
    /\ pc[r] = "first"
    /\ r \notin cancelled
    /\ work[1] \in {Free, r}
    /\ work' = [work EXCEPT ![1] = IF @ = Free THEN r ELSE Free]
    /\ Goto(r, "second")
    /\ UNCHANGED <<answer, cancelled, conn, writer, table, applied>>

\* ... or refuses with a statusError ...
Refuse(r) ==
    /\ pc[r] = "first"
    /\ work[1] \notin {Free, r}
    /\ Decide(r, "refused")
    /\ Goto(r, "rollback")
    /\ UNCHANGED <<cancelled, conn, writer, work, table, applied>>

\* ... and writes the second one.
WriteSecond(r) ==
    /\ pc[r] = "second"
    /\ r \notin cancelled
    /\ work' = [work EXCEPT ![2] = work[1]]
    /\ Goto(r, "commit")
    /\ UNCHANGED <<answer, cancelled, conn, writer, table, applied>>

\* Mutant: an error leaves the transaction as it is.
Fail_NoRollback(r) ==
    /\ pc[r] \in {"first", "second", "commit"}
    /\ Decide(r, "error")
    /\ Release(r)
    /\ Finish(r)
    /\ UNCHANGED <<writer, work, table>>

\* A statement or the COMMIT fails, or the callback panics; with the client
\* gone they do.
Fail(r) ==
    /\ pc[r] \in {"first", "second", "commit"}
    /\ Decide(r, "error")
    /\ Goto(r, "rollback")
    /\ UNCHANGED <<cancelled, conn, writer, work, table, applied>>

\* Mutant: the view is read while the transaction's connection is still held.
Commit_KeepsConn(r) ==
    /\ pc[r] = "commit"
    /\ r \notin cancelled
    /\ table' = work
    /\ applied' = [applied EXCEPT ![r] = TRUE]
    /\ writer' = NoConn
    /\ Goto(r, "view")
    /\ UNCHANGED <<answer, cancelled, conn, work>>

\* The rows change together; the connection goes back before the handler goes on.
Commit(r) ==
    /\ pc[r] = "commit"
    /\ r \notin cancelled
    /\ table' = work
    /\ applied' = [applied EXCEPT ![r] = TRUE]
    /\ writer' = NoConn
    /\ Release(r)
    /\ Goto(r, "view")
    /\ UNCHANGED <<answer, cancelled, work>>

\* Mutant: the connection is not given back.
Rollback_KeepsConn(r) ==
    /\ pc[r] = "rollback"
    /\ writer' = NoConn
    /\ work' = table
    /\ Finish(r)
    /\ UNCHANGED <<answer, conn, table>>

\* The deferred ROLLBACK and Close, which no cancellation reaches.
Rollback(r) ==
    /\ pc[r] = "rollback"
    /\ writer' = NoConn
    /\ work' = table
    /\ Release(r)
    /\ Finish(r)
    /\ UNCHANGED <<answer, table>>

\* The view of the result is read and answered; if that fails, 500 is
\* answered for an update that was made.
ReadView(r) ==
    /\ pc[r] = "read"
    /\ \E a \in {"ok", "error"} : Decide(r, a)
    /\ Release(r)
    /\ Finish(r)
    /\ UNCHANGED <<writer, work, table>>

(***************************************************************************)
(* A single statement, a transaction of its own.                           *)
(***************************************************************************)

Exec(r) ==
    /\ pc[r] = "exec"
    /\ r \notin cancelled
    /\ writer = NoConn
    /\ applied' = [applied EXCEPT ![r] = TRUE]
    /\ Release(r)
    /\ Goto(r, "written")
    /\ UNCHANGED <<answer, cancelled, writer, work, table>>

Reply(r) ==
    /\ pc[r] = "written"
    /\ Decide(r, "ok")
    /\ Finish(r)
    /\ UNCHANGED <<conn, writer, work, table>>

\* Busy, failed or cancelled: serverError does not look and answers 500.
ExecFails(r) ==
    /\ pc[r] = "exec"
    /\ Decide(r, "error")
    /\ Release(r)
    /\ Finish(r)
    /\ UNCHANGED <<writer, work, table>>

\* The process dies and starts again: the connections are new, and SQLite
\* drops what was not committed.
Crash ==
    /\ \E r \in Requests : pc[r] # "idle"
    /\ answer' = [r \in Requests |-> IF pc[r] # "idle" THEN "error" ELSE answer[r]]
    /\ pc' = [r \in Requests |-> "idle"]
    /\ cancelled' = {}
    /\ conn' = [r \in Requests |-> NoConn]
    /\ writer' = NoConn
    /\ work' = table
    /\ applied' = [r \in Requests |-> FALSE]
    /\ UNCHANGED table

\* What a request does with a connection, or with its context cancelled.
Work(r) ==
    \/ GiveUp(r)
    \/ Begin(r) \/ BeginFails(r)
    \/ CheckAndWriteFirst(r) \/ Refuse(r) \/ WriteSecond(r)
    \/ Commit(r) \/ Fail(r) \/ Rollback(r)
    \/ ReadView(r)
    \/ Exec(r) \/ ExecFails(r) \/ Reply(r)

Next ==
    \/ \E r \in Requests : Ask(r) \/ Cancel(r) \/ Acquire(r) \/ Work(r)
    \/ Crash

\* Goroutines run, and a wait for the lock ends by getting it or by the busy
\* timeout.  database/sql hands a returned connection to a waiter it picks at
\* random: none is passed over for ever.
Fairness == \A r \in Requests : WF_vars(Work(r)) /\ SF_vars(Acquire(r))

Spec == Init /\ [][Next]_vars /\ Fairness

(***************************************************************************)
(* Properties.                                                             *)
(***************************************************************************)

\* A request has a connection exactly in the stages that use one, and no two
\* have the same: a path that forgets to give one back drains the pool.
TypeOK ==
    /\ pc \in [Requests -> Waiting \cup Holding \cup {"idle", "written"}]
    /\ answer \in [Requests -> Answers]
    /\ cancelled \subseteq {r \in Requests : pc[r] # "idle"}
    /\ conn \in [Requests -> Conns \cup {NoConn}]
    /\ writer \in Conns \cup {NoConn}
    /\ work \in [Rows -> Requests \cup {Free}]
    /\ table \in [Rows -> Requests \cup {Free}]
    /\ applied \in [Requests -> BOOLEAN]
    /\ \A r \in Requests : (conn[r] # NoConn) = (pc[r] \in Holding)
    /\ writer = NoConn => work = table
    /\ \A r, s \in Requests : conn[r] = conn[s] /\ conn[r] # NoConn => r = s

\* Whoever is between BEGIN and the end of its transaction.
InTx == {r \in Requests : pc[r] \in {"first", "second", "commit", "rollback"}}

\* An open transaction belongs to exactly one request that is still on its way
\* to commit or roll back, whatever failed: no connection goes back to the
\* pool with one, where it would block every writer and break its next BEGIN.
OpenTxOwned ==
    IF writer = NoConn THEN InTx = {}
    ELSE \E r \in Requests : conn[r] = writer /\ InTx = {r}

\* The database and the answers as a client sees them.
Stage == [r \in Requests |-> IF pc[r] = "idle" THEN answer[r] ELSE "open"]

Updates == INSTANCE AtomicUpdates WITH stage <- Stage

\* Every update is one atomic check-and-write, and no answer lies about it:
\* 2xx only if it was made, 4xx and 503 only if nothing was, through failed
\* statements, cancelled contexts, and crashes at any point.
ImplementsAtomicUpdates == Updates!Spec

\* Every request ends, also when more requests than connections wait for each
\* other, the lock or a client that has gone: nobody holds one connection
\* while waiting for another.
EveryRequestEnds == \A r \in Requests : pc[r] # "idle" ~> pc[r] = "idle"
=============================================================================
