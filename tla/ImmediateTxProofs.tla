------------------------- MODULE ImmediateTxProofs -------------------------
(***************************************************************************)
(* Safety of ImmediateTx for any requests and any pool of which            *)
(* PoolAssumption holds.  What every request and every client then ends    *)
(* with is a matter of fairness and is left to the model checker.          *)
(***************************************************************************)
EXTENDS ImmediateTx, TLAPS

Stages == Waiting \cup Holding \cup {"idle", "written"}

\* The parts of TypeOK: the values, the connections, and what is uncommitted.
Values ==
    /\ pc \in [Requests -> Stages]
    /\ answer \in [Requests -> Answers]
    /\ cancelled \subseteq {r \in Requests : pc[r] # "idle"}
    /\ conn \in [Requests -> Conns \cup {NoConn}]
    /\ writer \in Conns \cup {NoConn}
    /\ work \in [Rows -> Requests \cup {Free}]
    /\ table \in [Rows -> Requests \cup {Free}]
    /\ applied \in [Requests -> BOOLEAN]

Connections ==
    /\ \A r \in Requests : (conn[r] # NoConn) = (pc[r] \in Holding)
    /\ \A r, s \in Requests : conn[r] = conn[s] /\ conn[r] # NoConn => r = s

Uncommitted == writer = NoConn => work = table

\* What a request has done, by the place where it is.
Progress(r) ==
    /\ applied[r] = IF pc[r] \in {"view", "read", "written"} THEN TRUE ELSE FALSE
    /\ pc[r] \in {"exec", "written"} => r \in Plain
    /\ pc[r] \in {"begin", "first", "second", "commit", "rollback", "view", "read"} => r \notin Plain
    /\ pc[r] = "rollback" => answer[r] \in {"refused", "error"}

\* What the open transaction has written.
Pending(r) ==
    /\ pc[r] = "first" => work = table
    /\ pc[r] \in {"second", "commit"} =>
          table[1] \in {Free, r} /\ work[1] = IF table[1] = Free THEN r ELSE Free
    /\ pc[r] = "commit" => work[2] = work[1]

\* The rows are never seen half written.
Whole == table[1] = table[2]

TxInv == Values /\ Connections /\ Uncommitted /\ OpenTxOwned

Inv == TxInv /\ Whole /\ \A r \in Requests : Progress(r) /\ Pending(r)

LEMMA TypeParts == TxInv => TypeOK
  BY DEF TxInv, Values, Connections, Uncommitted, TypeOK, Stages

\* Nothing is held, open or written at the start.
LEMMA InitInv == Init => Inv
<1> SUFFICES ASSUME Init
             PROVE  Inv
  OBVIOUS
<1> USE DEF Init
<1>1. Values
  BY DEF Values, Stages, Answers
<1>2. Connections /\ Uncommitted
  BY DEF Connections, Uncommitted, Holding
<1>3. OpenTxOwned
  BY DEF OpenTxOwned, InTx
<1>4. Whole
  BY DEF Whole, Rows
<1>5. \A r \in Requests : Progress(r) /\ Pending(r)
  <2> SUFFICES ASSUME NEW r \in Requests
               PROVE  Progress(r) /\ Pending(r)
    OBVIOUS
  <2>1. pc[r] = "idle" /\ applied[r] = FALSE
    OBVIOUS
  <2> QED BY <2>1 DEF Progress, Pending
<1> QED BY <1>1, <1>2, <1>3, <1>4, <1>5 DEF Inv, TxInv

\* Every action but a crash is a step of one request.
Step(r) == Ask(r) \/ Cancel(r) \/ Acquire(r) \/ Work(r)

\* Values stay in their sets.
LEMMA StepValues ==
  ASSUME TxInv, NEW r \in Requests, Step(r)
  PROVE  Values'
<1> USE DEF TxInv, Values, Goto, Decide, Release, Finish, Stages, Waiting, Holding, Answers
<1>1. CASE Ask(r) \/ Cancel(r)
  BY <1>1 DEF Ask, Cancel
<1>2. CASE Acquire(r)
  BY <1>2 DEF Acquire, Idle
<1>3. CASE GiveUp(r) \/ Begin(r) \/ BeginFails(r)
  BY <1>3 DEF GiveUp, Begin, BeginFails
<1>4. CASE CheckAndWriteFirst(r) \/ Refuse(r)
  <2>1. CASE CheckAndWriteFirst(r)
    BY <2>1 DEF CheckAndWriteFirst, Rows
  <2>2. CASE Refuse(r)
    BY <2>2 DEF Refuse
  <2> QED BY <1>4, <2>1, <2>2
<1>5. CASE WriteSecond(r) \/ Commit(r)
  <2>1. CASE WriteSecond(r)
    BY <2>1 DEF WriteSecond, Rows
  <2>2. CASE Commit(r)
    BY <2>2 DEF Commit, Rows
  <2> QED BY <1>5, <2>1, <2>2
<1>6. CASE Fail(r) \/ Rollback(r)
  BY <1>6 DEF Fail, Rollback
<1>7. CASE ReadView(r)
  BY <1>7 DEF ReadView
<1>8. CASE Exec(r) \/ ExecFails(r) \/ Reply(r)
  BY <1>8 DEF Exec, ExecFails, Reply
<1> QED BY <1>1, <1>2, <1>3, <1>4, <1>5, <1>6, <1>7, <1>8 DEF Step, Work

\* Connections are taken by one request at a time, and each gives back its own.
LEMMA StepConnections ==
  ASSUME TxInv, NEW r \in Requests, Step(r)
  PROVE  Connections'
<1> USE DEF TxInv, Values, Connections, Goto, Release, Finish, Stages, Waiting, Holding
<1>1. CASE Ask(r) \/ Cancel(r)
  BY <1>1 DEF Ask, Cancel
<1>2. CASE Acquire(r)
  <2>1. PICK c \in Conns : conn' = [conn EXCEPT ![r] = c] /\ \A s \in Requests : conn[s] # c
    BY <1>2 DEF Acquire, Idle
  <2>2. c # NoConn /\ pc'[r] \in Holding /\ \A s \in Requests : s # r => pc'[s] = pc[s]
    BY <1>2, PoolAssumption DEF Acquire
  <2> QED BY <2>1, <2>2
<1>3. CASE GiveUp(r) \/ Begin(r) \/ BeginFails(r)
  BY <1>3 DEF GiveUp, Begin, BeginFails
<1>4. CASE CheckAndWriteFirst(r) \/ Refuse(r)
  BY <1>4 DEF CheckAndWriteFirst, Refuse
<1>5. CASE WriteSecond(r) \/ Commit(r)
  BY <1>5 DEF WriteSecond, Commit
<1>6. CASE Fail(r) \/ Rollback(r) \/ ReadView(r)
  BY <1>6 DEF Fail, Rollback, ReadView
<1>7. CASE Exec(r) \/ ExecFails(r) \/ Reply(r)
  BY <1>7 DEF Exec, ExecFails, Reply
<1> QED BY <1>1, <1>2, <1>3, <1>4, <1>5, <1>6, <1>7 DEF Step, Work

\* A transaction is opened when none is, and closed by whoever opened it.
LEMMA StepOwned ==
  ASSUME TxInv, NEW r \in Requests, Step(r)
  PROVE  OpenTxOwned' /\ Uncommitted'
<1> DEFINE Mid == {"first", "second", "commit", "rollback"}
<1> USE DEF TxInv, Values, Goto, Release, Finish, Stages, Waiting, Holding
<1>1. \/ writer = NoConn /\ InTx = {}
      \/ \E s \in Requests : conn[s] = writer /\ writer # NoConn /\ InTx = {s}
  BY DEF OpenTxOwned
<1>2. pc[r] \in Mid => writer # NoConn /\ conn[r] = writer /\ InTx = {r}
  BY <1>1 DEF InTx
<1>3. pc[r] \notin Mid => \A s \in InTx : s # r
  BY DEF InTx
<1>4. ASSUME pc[r] \notin Mid, pc'[r] \notin Mid, \A s \in Requests \ {r} : pc'[s] = pc[s] /\ conn'[s] = conn[s],
             UNCHANGED <<writer, work, table>>
      PROVE  OpenTxOwned' /\ Uncommitted'
  <2>1. InTx' = InTx
    BY <1>4 DEF InTx
  <2> QED BY <1>1, <1>3, <1>4, <2>1 DEF OpenTxOwned, Uncommitted
<1>5. ASSUME pc[r] \in Mid, pc'[r] \in Mid, \A s \in Requests \ {r} : pc'[s] = pc[s],
             UNCHANGED <<writer, conn>>
      PROVE  OpenTxOwned' /\ Uncommitted'
  <2>1. InTx' = InTx
    BY <1>5 DEF InTx
  <2> QED BY <1>2, <1>5, <2>1 DEF OpenTxOwned, Uncommitted
<1>6. ASSUME pc[r] \in Mid, pc'[r] \notin Mid, \A s \in Requests \ {r} : pc'[s] = pc[s],
             writer' = NoConn, work' = table'
      PROVE  OpenTxOwned' /\ Uncommitted'
  <2>1. InTx' = {}
    BY <1>2, <1>6 DEF InTx
  <2> QED BY <1>6, <2>1 DEF OpenTxOwned, Uncommitted
<1>7. CASE Ask(r) \/ Cancel(r) \/ Acquire(r) \/ GiveUp(r)
  <2>1. CASE Ask(r)
    BY <1>4, <2>1 DEF Ask
  <2>2. CASE Cancel(r)
    BY <2>2 DEF Cancel, OpenTxOwned, InTx, Uncommitted
  <2>3. CASE Acquire(r)
    BY <1>4, <2>3 DEF Acquire
  <2>4. CASE GiveUp(r)
    BY <1>4, <2>4 DEF GiveUp
  <2> QED BY <1>7, <2>1, <2>2, <2>3, <2>4
<1>8. CASE Begin(r)
  <2>1. InTx' = {r} /\ conn'[r] = writer' /\ writer' # NoConn
    BY <1>1, <1>8 DEF Begin, InTx, Connections
  <2> QED BY <2>1 DEF OpenTxOwned, Uncommitted
<1>9. CASE BeginFails(r) \/ ReadView(r)
  BY <1>4, <1>9 DEF BeginFails, ReadView
<1>10. CASE CheckAndWriteFirst(r) \/ Refuse(r) \/ WriteSecond(r) \/ Fail(r)
  BY <1>5, <1>10 DEF CheckAndWriteFirst, Refuse, WriteSecond, Fail
<1>11. CASE Commit(r) \/ Rollback(r)
  BY <1>6, <1>11 DEF Commit, Rollback
<1>12. CASE Exec(r) \/ ExecFails(r) \/ Reply(r)
  BY <1>4, <1>12 DEF Exec, ExecFails, Reply
<1> QED BY <1>7, <1>8, <1>9, <1>10, <1>11, <1>12 DEF Step, Work

\* Each request's place tells what it has done.
LEMMA StepProgress ==
  ASSUME TxInv, \A s \in Requests : Progress(s), NEW r \in Requests, Step(r)
  PROVE  \A s \in Requests : Progress(s)'
<1>1. pc \in [Requests -> Stages] /\ answer \in [Requests -> Answers] /\ applied \in [Requests -> BOOLEAN]
  BY DEF TxInv, Values
<1>2. \A s \in Requests \ {r} : pc'[s] = pc[s]
  BY <1>1 DEF Step, Work, Goto, Finish, Ask, Cancel, Acquire, GiveUp, Begin, BeginFails,
              CheckAndWriteFirst, Refuse, WriteSecond, Commit, Fail, Rollback, ReadView,
              Exec, ExecFails, Reply
<1>3. \A s \in Requests \ {r} : applied'[s] = applied[s]
  BY <1>1 DEF Step, Work, Finish, Ask, Cancel, Acquire, GiveUp, Begin, BeginFails,
              CheckAndWriteFirst, Refuse, WriteSecond, Commit, Fail, Rollback, ReadView,
              Exec, ExecFails, Reply
<1>4. \A s \in Requests \ {r} : answer'[s] = answer[s]
  BY <1>1 DEF Step, Work, Decide, Ask, Cancel, Acquire, GiveUp, Begin, BeginFails,
              CheckAndWriteFirst, Refuse, WriteSecond, Commit, Fail, Rollback, ReadView,
              Exec, ExecFails, Reply
<1>5. Progress(r)
  OBVIOUS
<1>6. Progress(r)'
  <2> USE <1>1, <1>5 DEF Progress
  <2>1. ASSUME pc'[r] = "idle", applied'[r] = FALSE
        PROVE  Progress(r)'
    BY <2>1
  <2>2. CASE Ask(r)
    BY <2>2 DEF Ask, Goto
  <2>3. CASE Cancel(r)
    BY <2>3 DEF Cancel
  <2>4. CASE Acquire(r)
    <3>1. pc'[r] = IF pc[r] = "view" THEN "read"
                   ELSE IF r \in Plain THEN "exec" ELSE "begin"
      BY <2>4 DEF Acquire, Goto, Waiting
    <3>2. pc[r] \in Waiting /\ applied' = applied
      BY <2>4 DEF Acquire
    <3> QED BY <3>1, <3>2 DEF Waiting
  <2>5. CASE GiveUp(r) \/ BeginFails(r) \/ Rollback(r) \/ ReadView(r) \/ ExecFails(r) \/ Reply(r)
    BY <2>1, <2>5 DEF GiveUp, BeginFails, Rollback, ReadView, ExecFails, Reply, Finish, Goto
  <2>6. CASE Begin(r) \/ CheckAndWriteFirst(r) \/ WriteSecond(r)
    BY <2>6 DEF Begin, CheckAndWriteFirst, WriteSecond, Goto
  <2>7. CASE Refuse(r) \/ Fail(r)
    BY <2>7 DEF Refuse, Fail, Decide, Goto
  <2>8. CASE Commit(r)
    BY <2>8 DEF Commit, Goto
  <2>9. CASE Exec(r)
    BY <2>9 DEF Exec, Goto
  <2> QED BY <2>2, <2>3, <2>4, <2>5, <2>6, <2>7, <2>8, <2>9 DEF Step, Work
<1> QED BY <1>2, <1>3, <1>4, <1>6 DEF Progress

\* The open transaction writes what its request may, and commits it whole.
LEMMA StepPending ==
  ASSUME TxInv, Whole, \A s \in Requests : Pending(s), NEW r \in Requests, Step(r)
  PROVE  Whole' /\ \A s \in Requests : Pending(s)'
<1> DEFINE Mid == {"first", "second", "commit"}
<1> USE DEF TxInv, Values, Pending, Whole, Rows
<1>1. pc[r] \in Mid => \A s \in Requests \ {r} : pc[s] \notin Mid
  BY DEF OpenTxOwned, InTx
<1>2. \A s \in Requests \ {r} : pc'[s] = pc[s]
  BY DEF Step, Work, Goto, Finish, Ask, Cancel, Acquire, GiveUp, Begin, BeginFails,
         CheckAndWriteFirst, Refuse, WriteSecond, Commit, Fail, Rollback, ReadView,
         Exec, ExecFails, Reply
<1>3. ASSUME pc'[r] \notin Mid \/ pc'[r] = pc[r], UNCHANGED <<work, table>>
      PROVE  Whole' /\ \A s \in Requests : Pending(s)'
  BY <1>2, <1>3
<1>4. CASE Ask(r) \/ Cancel(r) \/ Acquire(r) \/ GiveUp(r) \/ BeginFails(r) \/ Refuse(r)
  BY <1>3, <1>4 DEF Ask, Cancel, Acquire, GiveUp, BeginFails, Refuse, Goto, Finish
<1>5. CASE Begin(r)
  <2>1. pc'[r] = "first" /\ work' = table' /\ table' = table
    BY <1>5 DEF Begin, Goto, Uncommitted
  <2>2. \A s \in Requests \ {r} : pc[s] \notin Mid
    BY <1>5 DEF Begin, OpenTxOwned, InTx
  <2> QED BY <1>2, <2>1, <2>2
<1>6. CASE CheckAndWriteFirst(r)
  <2>1. pc[r] = "first" /\ pc'[r] = "second" /\ table' = table /\ work = table
    BY <1>6 DEF CheckAndWriteFirst, Goto
  <2>2. work[1] \in {Free, r} /\ work'[1] = IF work[1] = Free THEN r ELSE Free
    BY <1>6 DEF CheckAndWriteFirst
  <2> QED BY <1>1, <1>2, <2>1, <2>2
<1>7. CASE WriteSecond(r)
  <2>1. pc[r] = "second" /\ pc'[r] = "commit" /\ table' = table
    BY <1>7 DEF WriteSecond, Goto
  <2>2. work'[1] = work[1] /\ work'[2] = work[1]
    BY <1>7 DEF WriteSecond
  <2> QED BY <1>1, <1>2, <2>1, <2>2
<1>8. CASE Commit(r)
  <2>1. pc[r] = "commit" /\ pc'[r] \notin Mid /\ table' = work
    BY <1>8 DEF Commit, Goto
  <2> QED BY <1>1, <1>2, <2>1
<1>9. CASE Fail(r) \/ ReadView(r) \/ Exec(r) \/ ExecFails(r) \/ Reply(r)
  BY <1>3, <1>9 DEF Fail, ReadView, Exec, ExecFails, Reply, Goto, Finish
<1>10. CASE Rollback(r)
  <2>1. pc[r] = "rollback" /\ pc'[r] \notin Mid /\ table' = table
    BY <1>10 DEF Rollback, Finish, Goto
  <2>2. \A s \in Requests \ {r} : pc[s] \notin Mid
    BY <2>1 DEF OpenTxOwned, InTx
  <2> QED BY <1>2, <2>1, <2>2
<1> QED BY <1>4, <1>5, <1>6, <1>7, <1>8, <1>9, <1>10 DEF Step, Work

\* A crash leaves nothing held or open, and the rows as committed.
LEMMA CrashInv ==
  ASSUME Inv, Crash
  PROVE  Inv'
<1> USE DEF Inv, TxInv, Crash
<1>1. Values'
  BY DEF Values, Stages, Answers
<1>2. Connections' /\ Uncommitted' /\ OpenTxOwned' /\ Whole'
  BY DEF Connections, Uncommitted, OpenTxOwned, InTx, Holding, Whole
<1>3. ASSUME NEW r \in Requests
      PROVE  Progress(r)' /\ Pending(r)'
  <2>1. pc'[r] = "idle" /\ applied'[r] = FALSE
    OBVIOUS
  <2> QED BY <2>1 DEF Progress, Pending
<1> QED BY <1>1, <1>2, <1>3

LEMMA NextInv ==
  ASSUME Inv, [Next]_vars
  PROVE  Inv'
<1>1. ASSUME NEW r \in Requests, Step(r)
      PROVE  Inv'
  BY <1>1, StepValues, StepConnections, StepOwned, StepProgress, StepPending DEF Inv, TxInv
<1>2. CASE Crash
  BY <1>2, CrashInv
<1>3. CASE UNCHANGED vars
  <2>1. Values' /\ Connections' /\ Uncommitted'
    BY <1>3 DEF vars, Inv, TxInv, Values, Connections, Uncommitted
  <2>2. OpenTxOwned' /\ Whole'
    BY <1>3 DEF vars, Inv, TxInv, OpenTxOwned, InTx, Whole
  <2>3. \A r \in Requests : Progress(r)' /\ Pending(r)'
    BY <1>3 DEF vars, Inv, Progress, Pending
  <2> QED BY <2>1, <2>2, <2>3 DEF Inv, TxInv
<1> QED BY <1>1, <1>2, <1>3 DEF Next, Step

\* Every reachable state satisfies the inductive invariant.
THEOREM Invariance == Spec => []Inv
  BY InitInv, NextInv, PTL DEF Spec

\* A request has a connection exactly in the stages that use one, and no two
\* have the same.
THEOREM TypeCorrect == Spec => []TypeOK
  BY Invariance, TypeParts, PTL DEF Inv

\* An open transaction belongs to the one request that will close it.
THEOREM OpenTxOwnedHolds == Spec => []OpenTxOwned
  BY Invariance, PTL DEF Inv, TxInv

(***************************************************************************)
(* The refinement.                                                         *)
(***************************************************************************)

\* A step that ends a request gives its answer.
LEMMA StageAnswered ==
  ASSUME Values, NEW r \in Requests, NEW a \in Answers, Finish(r), answer' = [answer EXCEPT ![r] = a]
  PROVE  Stage' = [Stage EXCEPT ![r] = a] /\ applied' = [applied EXCEPT ![r] = FALSE]
  BY DEF Values, Stage, Finish, Goto

\* A request is answered as decided, or with an error once its client has gone.
LEMMA AnswerStep ==
  ASSUME Inv, NEW r \in Requests, NEW a \in Answers, pc[r] # "idle", Finish(r), Decide(r, a),
         a = "ok" => applied[r], a \in {"refused", "busy"} => ~applied[r], table' = table
  PROVE  Updates!Next
<1> DEFINE b == IF r \in cancelled THEN "error" ELSE a
<1>1. b \in Answers /\ answer' = [answer EXCEPT ![r] = b]
  BY DEF Decide, Answers
<1>2. Stage' = [Stage EXCEPT ![r] = b] /\ applied' = [applied EXCEPT ![r] = FALSE]
  BY <1>1, StageAnswered DEF Inv, TxInv
<1>3. Stage[r] = "open"
  BY DEF Stage
<1>4. (b = "ok" => applied[r]) /\ (b \in {"refused", "busy"} => ~applied[r])
  OBVIOUS
<1>5. Updates!Answer(r, b)
  BY <1>2, <1>3, <1>4 DEF Updates!Answer
<1> QED BY <1>1, <1>5 DEF Updates!Next, Updates!Answers, Answers

\* What a request does before it commits, and its rollback's reason, are not seen.
LEMMA HiddenStep ==
  ASSUME Inv, NEW r \in Requests,
         Cancel(r) \/ Acquire(r) \/ Begin(r) \/ CheckAndWriteFirst(r) \/ Refuse(r)
         \/ WriteSecond(r) \/ Fail(r)
  PROVE  UNCHANGED Updates!vars
<1>1. Values
  BY DEF Inv, TxInv
<1>2. UNCHANGED <<applied, table>>
  BY DEF Cancel, Acquire, Begin, CheckAndWriteFirst, Refuse, WriteSecond, Fail
<1> SUFFICES Stage' = Stage
  BY <1>2 DEF Updates!vars
<1>3. ASSUME pc[r] # "idle", pc'[r] # "idle",
             \A s \in Requests \ {r} : pc'[s] = pc[s] /\ answer'[s] = answer[s]
      PROVE  Stage' = Stage
  BY <1>3 DEF Stage
<1>4. CASE Cancel(r)
  BY <1>4 DEF Cancel, Stage
<1>5. CASE Acquire(r)
  BY <1>1, <1>3, <1>5 DEF Acquire, Goto, Waiting, Values
<1>6. CASE Begin(r) \/ CheckAndWriteFirst(r) \/ WriteSecond(r)
  BY <1>1, <1>3, <1>6 DEF Begin, CheckAndWriteFirst, WriteSecond, Goto, Values
<1>7. CASE Refuse(r) \/ Fail(r)
  BY <1>1, <1>3, <1>7 DEF Refuse, Fail, Goto, Decide, Values
<1> QED BY <1>4, <1>5, <1>6, <1>7

\* A commit is the update, a single statement too.
LEMMA UpdateStep ==
  ASSUME Inv, NEW r \in Requests, Commit(r) \/ Exec(r)
  PROVE  Updates!Next
<1> USE DEF Inv, TxInv, Values, Rows
<1>1. /\ pc[r] \in {"commit", "exec"} /\ pc'[r] \in {"view", "written"} /\ answer' = answer
      /\ \A s \in Requests \ {r} : pc'[s] = pc[s]
  BY DEF Commit, Exec, Goto
<1>2. Stage' = Stage /\ Stage[r] = "open"
  BY <1>1 DEF Stage
<1>3. ~applied[r] /\ applied' = [applied EXCEPT ![r] = TRUE]
  BY <1>1 DEF Progress, Commit, Exec
<1>4. CASE Commit(r)
  <2>1. r \notin Plain /\ table' = work /\ work[1] = work[2] /\ table[1] = table[2]
        /\ table[1] \in {Free, r} /\ work[1] = IF table[1] = Free THEN r ELSE Free
    BY <1>4 DEF Commit, Progress, Pending, Whole
  <2>2. \/ table = Updates!AllRows(Free) /\ table' = Updates!AllRows(r)
        \/ table = Updates!AllRows(r) /\ table' = Updates!AllRows(Free)
    BY <2>1 DEF Updates!AllRows
  <2>3. Updates!Update(r)
    BY <1>2, <1>3, <2>1, <2>2 DEF Updates!Update
  <2> QED BY <2>3 DEF Updates!Next
<1>5. CASE Exec(r)
  <2>1. r \in Plain /\ table' = table
    BY <1>5 DEF Exec, Progress
  <2>2. Updates!Update(r)
    BY <1>2, <1>3, <2>1 DEF Updates!Update
  <2> QED BY <2>2 DEF Updates!Next
<1> QED BY <1>4, <1>5

\* Whatever ends a request answers it by what it did.
LEMMA EndStep ==
  ASSUME Inv, NEW r \in Requests,
         GiveUp(r) \/ BeginFails(r) \/ Rollback(r) \/ ReadView(r) \/ ExecFails(r) \/ Reply(r)
  PROVE  Updates!Next
<1> USE DEF Inv, TxInv
<1>1. pc[r] # "idle" /\ Finish(r) /\ table' = table
  BY DEF GiveUp, BeginFails, Rollback, ReadView, ExecFails, Reply, Waiting
<1>2. CASE GiveUp(r) \/ ExecFails(r)
  BY <1>1, <1>2, AnswerStep DEF GiveUp, ExecFails, Answers
<1>3. CASE BeginFails(r)
  <2>1. ~applied[r]
    BY <1>3 DEF BeginFails, Progress
  <2> QED BY <1>1, <1>3, <2>1, AnswerStep DEF BeginFails, Answers
<1>4. CASE ReadView(r) \/ Reply(r)
  <2>1. applied[r]
    BY <1>4 DEF ReadView, Reply, Progress
  <2> QED BY <1>1, <1>4, <2>1, AnswerStep DEF ReadView, Reply, Answers
<1>5. CASE Rollback(r)
  <2>1. ~applied[r] /\ answer[r] \in {"refused", "error"} /\ answer' = answer
    BY <1>5 DEF Rollback, Progress
  <2>2. answer[r] \in Answers /\ answer' = [answer EXCEPT ![r] = answer[r]]
    BY <2>1 DEF Values, Answers
  <2>3. Stage' = [Stage EXCEPT ![r] = answer[r]] /\ applied' = [applied EXCEPT ![r] = FALSE]
    BY <1>1, <2>2, StageAnswered
  <2>4. Updates!Answer(r, answer[r])
    BY <1>1, <2>1, <2>3 DEF Updates!Answer, Stage
  <2> QED BY <2>2, <2>4 DEF Updates!Next, Updates!Answers, Answers
<1> QED BY <1>2, <1>3, <1>4, <1>5

\* Asking opens a request.
LEMMA AskStep ==
  ASSUME Inv, NEW r \in Requests, Ask(r)
  PROVE  Updates!Next
<1>1. Stage' = [Stage EXCEPT ![r] = "open"]
  BY DEF Inv, TxInv, Values, Stage, Ask, Goto
<1>2. Stage[r] # "open"
  BY DEF Inv, TxInv, Values, Stage, Ask, Answers
<1>3. Updates!Ask(r)
  BY <1>1, <1>2 DEF Ask, Updates!Ask
<1> QED BY <1>3 DEF Updates!Next

\* A crash is a crash.
LEMMA CrashStep ==
  ASSUME Inv, Crash
  PROVE  Updates!Next
<1>1. \A r \in Requests : (Stage[r] = "open") <=> (pc[r] # "idle")
  BY DEF Inv, TxInv, Values, Stage, Answers
<1>2. Stage' = [r \in Requests |-> IF Stage[r] = "open" THEN "error" ELSE Stage[r]]
  BY <1>1 DEF Crash, Stage
<1>3. Updates!Crash
  BY <1>2 DEF Crash, Updates!Crash
<1> QED BY <1>3 DEF Updates!Next

\* Handlers that write through WithImmediateTx, or by one statement, update
\* their rows atomically and never answer otherwise than they did.
THEOREM ImplementsAtomicUpdatesHolds == Spec => ImplementsAtomicUpdates
<1>1. Init => Updates!Init
  BY DEF Init, Stage, Updates!Init, Updates!AllRows
<1>2. Inv /\ [Next]_vars => [Updates!Next]_(Updates!vars)
  <2> SUFFICES ASSUME Inv, [Next]_vars
               PROVE  [Updates!Next]_(Updates!vars)
    OBVIOUS
  <2>1. ASSUME NEW r \in Requests, Step(r)
        PROVE  [Updates!Next]_(Updates!vars)
    BY <2>1, HiddenStep, UpdateStep, EndStep, AskStep DEF Step, Work
  <2>2. CASE Crash
    BY <2>2, CrashStep
  <2>3. CASE UNCHANGED vars
    BY <2>3 DEF vars, Stage, Updates!vars
  <2> QED BY <2>1, <2>2, <2>3 DEF Next, Step
<1> QED BY <1>1, <1>2, Invariance, PTL DEF Spec, ImplementsAtomicUpdates, Updates!Spec
=============================================================================
