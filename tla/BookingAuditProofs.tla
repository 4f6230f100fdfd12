------------------------- MODULE BookingAuditProofs -------------------------
(***************************************************************************)
(* What is written about a reservation agrees with the reservation, for    *)
(* every set of accounts, cars and reservations: the audit log and the     *)
(* notifications tell its history.  The rows themselves are the subject of *)
(* BookingProofs, whose invariant these proofs build on.                   *)
(***************************************************************************)
EXTENDS BookingProofs

Decisions == {"reservation.accept", "reservation.reject",
              "reservation.cancel", "reservation.confirm"}

\* Who was let in as an administrator is one (RequireAuth; nothing in this
\* module takes the role away).
AdminSnapshots == \A q \in inflight : "admin" \in q.roles => q.user \in Admins

(***************************************************************************)
(* What the two ways of writing add.                                       *)
(***************************************************************************)

\* One row is added to the log, about this target, by this actor; it repeats
\* none if there was none.
Adds(action, target, actor) ==
    \E row : /\ row.actor = actor
             /\ Entries(action, target) = {} => ~row.again
             /\ Entries(action, target)' = Entries(action, target) \cup {row}

LEMMA AuditEffect ==
    ASSUME NEW actor, NEW action, NEW target, auditAction(actor, action, target)
    PROVE  /\ Adds(action, target, actor)
           /\ \A a, t : a # action \/ t # target => Entries(a, t)' = Entries(a, t)
  <1> DEFINE Row(again) == [actor |-> actor, action |-> action, target |-> target, again |-> again]
             row == Row(target \in Ids /\ Row(FALSE) \in audit)
  <1>1. /\ row.actor = actor /\ row.action = action /\ row.target = target
        /\ row.again = (target \in Ids /\ Row(FALSE) \in audit)
        /\ Row(FALSE).action = action /\ Row(FALSE).target = target
    OBVIOUS
  <1>2. audit' = audit \cup {row}
    BY DEF auditAction
  <1> HIDE DEF row, Row
  <1>3. Entries(action, target) = {} => ~row.again
    BY <1>1 DEF Entries
  <1>4. Entries(action, target)' = Entries(action, target) \cup {row}
    BY <1>1, <1>2 DEF Entries
  <1>5. \A a, t : a # action \/ t # target => Entries(a, t)' = Entries(a, t)
    BY <1>1, <1>2 DEF Entries
  <1> QED
    BY <1>1, <1>3, <1>4, <1>5 DEF Adds

\* Each recipient's counter of this kind and reservation grows by one.
LEMMA NotifyEffect ==
    ASSUME TypeOK, NEW groups, NEW kind, NEW i, notifyUsers(groups, kind, i),
           NEW u \in Users, NEW k \in Kinds, NEW j \in Ids
    PROVE  notifications'[<<u, k, j>>] =
               IF k = kind /\ j = i /\ \E g \in DOMAIN groups : u \in groups[g]
               THEN notifications[<<u, k, j>>] + 1 ELSE notifications[<<u, k, j>>]
  BY DEF notifyUsers

\* The counters are numbers.
LEMMA CounterType ==
    ASSUME TypeOK, NEW u \in Users, NEW k \in Kinds, NEW i \in Ids
    PROVE  notifications[<<u, k, i>>] \in Nat
  BY DEF TypeOK

(***************************************************************************)
(* What a step leaves alone.                                               *)
(***************************************************************************)

Tables(j) == /\ reservations'[j] = reservations[j]
             /\ payments'[j] = payments[j]
             /\ \A u \in Users, k \in Kinds : notifications'[<<u, k, j>>] = notifications[<<u, k, j>>]
             /\ \A a \in Decisions : Entries(a, j)' = Entries(a, j)

\* A handler of another reservation, of a car, of a role or of nothing.
LEMMA OtherStep ==
    ASSUME TypeOK, [Next]_vars, NEW j \in Ids,
           \A q \in inflight : ~ReservationStep(q, j)
    PROVE  Tables(j)
  <1>1. ASSUME NEW q \in inflight, NEW c \in Cars, CarStep(q, c) PROVE Tables(j)
    <2>1. UNCHANGED <<reservations, payments, notifications>>
      BY <1>1 DEF CarStep, CreateCar, PatchCar, AdminPatchCar, DeleteCar, AdminDeleteCar
    <2>2. \A a \in Decisions : Entries(a, j)' = Entries(a, j)
      <3>1. CASE UNCHANGED audit
        BY <3>1 DEF Entries
      <3>2. CASE auditAction(q.user, "car.update", c) \/ auditAction(q.user, "car.delete", c)
        BY <3>2, AuditEffect DEF Decisions
      <3> QED
        BY <1>1, <3>1, <3>2
        DEF CarStep, CreateCar, PatchCar, AdminPatchCar, DeleteCar, AdminDeleteCar
    <2> QED
      BY <2>1, <2>2 DEF Tables
  <1>2. ASSUME NEW q \in inflight, NEW u \in Users, AdminPatchUserRoles(q, u) PROVE Tables(j)
    <2>1. UNCHANGED <<reservations, payments, notifications>>
      BY <1>2 DEF AdminPatchUserRoles, GrantSeller, RevokeSeller
    <2>2. \/ auditAction(q.user, "user.role_grant_seller", u)
          \/ auditAction(q.user, "user.role_revoke_seller", u)
      BY <1>2 DEF AdminPatchUserRoles, GrantSeller, RevokeSeller
    <2>3. \A a \in Decisions : Entries(a, j)' = Entries(a, j)
      BY <2>2, AuditEffect DEF Decisions
    <2> QED
      BY <2>1, <2>3 DEF Tables
  <1>3. ASSUME NEW q \in inflight, NEW i \in Ids \ {j}, ReservationStep(q, i) PROVE Tables(j)
    <2>1. reservations'[j] = reservations[j] /\ payments'[j] = payments[j]
      BY <1>3 DEF ReservationStep, CreateReservation, CancelReservation, RecordPayment,
         ResubmitPayment, AcceptReservation, RejectReservation, AdminConfirmReservation,
         AdminRequestCorrection, SetStatus, TypeOK
    <2>2. \A u \in Users, k \in Kinds : notifications'[<<u, k, j>>] = notifications[<<u, k, j>>]
      <3>1. UNCHANGED notifications \/ \E groups, kind : notifyUsers(groups, kind, i)
        BY <1>3 DEF ReservationStep, CreateReservation, CancelReservation, RecordPayment,
           ResubmitPayment, AcceptReservation, RejectReservation, AdminConfirmReservation,
           AdminRequestCorrection
      <3> QED
        BY <3>1, NotifyEffect
    <2>3. \A a : Entries(a, j)' = Entries(a, j)
      <3>1. UNCHANGED audit \/ \E actor, action : auditAction(actor, action, i)
        BY <1>3 DEF ReservationStep, CreateReservation, CancelReservation, RecordPayment,
           ResubmitPayment, AcceptReservation, RejectReservation, AdminConfirmReservation,
           AdminRequestCorrection
      <3>2. CASE UNCHANGED audit
        BY <3>2 DEF Entries
      <3> QED
        BY <3>1, <3>2, AuditEffect
    <2> QED
      BY <2>1, <2>2, <2>3 DEF Tables
  <1>4. CASE UNCHANGED <<reservations, payments, notifications, audit>>
    BY <1>4 DEF Tables, Entries
  <1>5. ASSUME NEW q \in inflight, Respond(q) \/ BecomeSeller(q)
        PROVE  UNCHANGED <<reservations, payments, notifications, audit>>
    BY <1>5 DEF Respond, BecomeSeller
  <1>6. ASSUME NEW u \in Users, RequireAuth(u)
        PROVE  UNCHANGED <<reservations, payments, notifications, audit>>
    BY <1>6 DEF RequireAuth
  <1>7. CASE NextDay \/ UNCHANGED vars
    BY <1>4, <1>7 DEF NextDay, vars
  <1> QED
    BY <1>1, <1>2, <1>3, <1>4, <1>5, <1>6, <1>7 DEF Next

\* A reservation keeps its buyer and its car, and the car its owner.
LEMMA OwnerKept ==
    ASSUME Inv, [Next]_vars, NEW i \in Ids, reservations[i] # NoRow
    PROVE  /\ reservations'[i] # NoRow
           /\ reservations'[i].buyer = reservations[i].buyer
           /\ reservations'[i].car = reservations[i].car
           /\ OwnerOf(i)' = OwnerOf(i)
  <1> USE DEF Inv
  <1>1. /\ reservations'[i] # NoRow
        /\ reservations'[i].buyer = reservations[i].buyer
        /\ reservations'[i].car = reservations[i].car
    BY StepCases, BooksRow, MovesRow
  <1>2. reservations[i].car \in Cars /\ ~NeverReserved(reservations[i].car)
    BY RowType DEF Reservation, NeverReserved
  <1>3. Listed(reservations[i].car)
    BY DEF ReservedCarsExist
  <1> QED
    BY <1>1, <1>2, <1>3, CarsKept DEF OwnerOf

(***************************************************************************)
(* The step of one reservation, in four forms: it is booked, decided, paid *)
(* for the first time, or goes one half round of a correction.             *)
(***************************************************************************)

\* The log and the counters of one reservation after a decision.
Logs(i, action, actor) ==
    /\ Adds(action, i, actor)
    /\ \A a \in Decisions \ {action} : Entries(a, i)' = Entries(a, i)

Tells(i, kind, recipients) ==
    \A u \in Users, k \in Kinds :
        notifications'[<<u, k, i>>] = IF k = kind /\ u \in recipients
                                      THEN notifications[<<u, k, i>>] + 1
                                      ELSE notifications[<<u, k, i>>]

LEMMA LogsEffect ==
    ASSUME NEW i, NEW actor, NEW action, auditAction(actor, action, i)
    PROVE  Logs(i, action, actor)
  BY AuditEffect DEF Logs

\* The recipients are those of all groups.
LEMMA TellsEffect ==
    ASSUME TypeOK, NEW i \in Ids, NEW kind, NEW g1, NEW g2, NEW g3,
           \/ notifyUsers(<<g1>>, kind, i) /\ g2 = {} /\ g3 = {}
           \/ notifyUsers(<<g1, g2>>, kind, i) /\ g3 = {}
           \/ notifyUsers(<<g1, g2, g3>>, kind, i)
    PROVE  Tells(i, kind, g1 \cup g2 \cup g3)
  <1> SUFFICES ASSUME NEW u \in Users, NEW k \in Kinds
               PROVE  notifications'[<<u, k, i>>] =
                          IF k = kind /\ u \in g1 \cup g2 \cup g3
                          THEN notifications[<<u, k, i>>] + 1 ELSE notifications[<<u, k, i>>]
    BY DEF Tells
  <1>1. CASE notifyUsers(<<g1>>, kind, i) /\ g2 = {} /\ g3 = {}
    <2>1. (\E g \in DOMAIN <<g1>> : u \in <<g1>>[g]) <=> u \in g1 \cup g2 \cup g3
      BY <1>1
    <2> QED
      BY <1>1, <2>1, NotifyEffect
  <1>2. CASE notifyUsers(<<g1, g2>>, kind, i) /\ g3 = {}
    <2>1. (\E g \in DOMAIN <<g1, g2>> : u \in <<g1, g2>>[g]) <=> u \in g1 \cup g2 \cup g3
      <3>1. DOMAIN <<g1, g2>> = {1, 2}
        OBVIOUS
      <3> QED
        BY <1>2, <3>1
    <2> QED
      BY <1>2, <2>1, NotifyEffect
  <1>3. CASE notifyUsers(<<g1, g2, g3>>, kind, i)
    <2>1. (\E g \in DOMAIN <<g1, g2, g3>> : u \in <<g1, g2, g3>>[g]) <=> u \in g1 \cup g2 \cup g3
      <3>1. DOMAIN <<g1, g2, g3>> = {1, 2, 3}
        OBVIOUS
      <3> QED
        BY <1>3, <3>1
    <2> QED
      BY <1>3, <2>1, NotifyEffect
  <1> QED
    BY <1>1, <1>2, <1>3

\* Booked: the owner and the administrators learn of it, nothing is logged.
Booked(i) ==
    /\ reservations[i] = NoRow
    /\ reservations'[i] # NoRow /\ reservations'[i].status = "pending"
    /\ payments'[i] = payments[i]
    /\ Tells(i, "requested", Admins \cup {OwnerOf(i)'})
    /\ \A a \in Decisions : Entries(a, i)' = Entries(a, i)

\* Decided: who may, what the status becomes, and who is told.
Decided(i) ==
    /\ reservations[i] # NoRow
    /\ \/ /\ reservations[i].status = "pending" /\ reservations'[i].status = "cancelled"
          /\ Logs(i, "reservation.cancel", reservations[i].buyer)
          /\ Tells(i, "cancelled", {OwnerOf(i)})
       \/ /\ reservations[i].status = "pending" /\ reservations'[i].status = "accepted"
          /\ payments'[i] # "rejected"
          /\ Logs(i, "reservation.accept", OwnerOf(i))
          /\ Tells(i, "accepted", {reservations[i].buyer})
       \/ /\ reservations[i].status = "pending" /\ reservations'[i].status = "rejected"
          /\ Logs(i, "reservation.reject", OwnerOf(i))
          /\ Tells(i, "rejected", Admins \cup {reservations[i].buyer})
       \/ /\ reservations[i].status = "accepted" /\ reservations'[i].status = "confirmed"
          /\ payments[i] = "pending"
          /\ \E admin \in Admins : Logs(i, "reservation.confirm", admin)
          /\ Tells(i, "confirmed", Admins \cup {reservations[i].buyer} \cup {OwnerOf(i)})

\* Paid for the first time: nobody is told and nothing is logged.
Paid(i) ==
    /\ reservations[i] # NoRow /\ reservations'[i] = reservations[i]
    /\ payments[i] = NoRow /\ payments'[i] = "pending"
    /\ \A u \in Users, k \in Kinds : notifications'[<<u, k, i>>] = notifications[<<u, k, i>>]
    /\ \A a \in Decisions : Entries(a, i)' = Entries(a, i)

\* Half a round of a correction: asked of the buyer, or answered.
Corrected(i) ==
    /\ reservations[i] # NoRow /\ reservations'[i] = reservations[i]
    /\ reservations[i].status = "accepted"
    /\ \A a \in Decisions : Entries(a, i)' = Entries(a, i)
    /\ \/ /\ payments[i] = "pending" /\ payments'[i] = "rejected"
          /\ Tells(i, "correction_requested", {reservations[i].buyer})
       \/ /\ payments[i] = "rejected" /\ payments'[i] = "pending"
          /\ Tells(i, "correction_submitted", Admins)

LEMMA ReservationCases ==
    ASSUME Inv, AdminSnapshots, NEW q \in inflight, NEW i \in Ids, ReservationStep(q, i)
    PROVE  Booked(i) \/ Decided(i) \/ Paid(i) \/ Corrected(i)
  <1> USE DEF Inv
  <1>0. NoRow \notin PaymentStatuses /\ PaymentStatuses = {"pending", "approved", "rejected"}
    BY RowsAssumption DEF PaymentStatuses
  <1>1. ASSUME NEW c \in Cars, NEW s \in Days, NEW e \in Days, CreateReservation(q, c, s, e, i)
        PROVE  Booked(i)
    <2>1. /\ reservations[i] = NoRow /\ reservations'[i] # NoRow
          /\ reservations'[i].car = c /\ reservations'[i].status = "pending"
          /\ payments' = payments
      BY <1>1, BooksRow DEF Books
    <2>2. OwnerOf(i)' = cars[c].owner
      BY <1>1, <2>1 DEF CreateReservation, OwnerOf
    <2>3. Tells(i, "requested", Admins \cup {cars[c].owner} \cup {})
      BY <1>1, TellsEffect DEF CreateReservation
    <2>4. Admins \cup {cars[c].owner} \cup {} = Admins \cup {cars[c].owner}
      OBVIOUS
    <2>5. \A a \in Decisions : Entries(a, i)' = Entries(a, i)
      BY <1>1 DEF CreateReservation, Entries
    <2> QED
      BY <2>1, <2>2, <2>3, <2>4, <2>5 DEF Booked
  <1>2. CASE CancelReservation(q, i)
    <2>1. reservations[i] # NoRow /\ reservations[i].status = "pending"
          /\ reservations[i].buyer = q.user
      BY <1>2 DEF CancelReservation
    <2>2. reservations'[i].status = "cancelled"
      BY <1>2, SetStatusType DEF CancelReservation, ReservationStatuses
    <2>3. Logs(i, "reservation.cancel", reservations[i].buyer)
      BY <1>2, <2>1, LogsEffect DEF CancelReservation
    <2>4. Tells(i, "cancelled", {OwnerOf(i)} \cup {} \cup {})
      BY <1>2, TellsEffect DEF CancelReservation
    <2>5. {OwnerOf(i)} \cup {} \cup {} = {OwnerOf(i)}
      OBVIOUS
    <2> QED
      BY <2>1, <2>2, <2>3, <2>4, <2>5 DEF Decided
  <1>3. CASE RecordPayment(q, i)
    <2>1. /\ reservations[i] # NoRow /\ UNCHANGED <<reservations, notifications, audit>>
          /\ payments[i] = NoRow /\ payments'[i] = "pending"
      BY <1>3 DEF RecordPayment, TypeOK
    <2> QED
      BY <2>1 DEF Paid, Entries
  <1>4. CASE ResubmitPayment(q, i)
    <2>1. /\ reservations[i] # NoRow /\ UNCHANGED <<reservations, audit>>
          /\ reservations[i].status = "accepted"
          /\ payments[i] = "rejected" /\ payments'[i] = "pending"
      BY <1>4 DEF ResubmitPayment, TypeOK
    <2>2. Tells(i, "correction_submitted", Admins \cup {} \cup {})
      BY <1>4, TellsEffect DEF ResubmitPayment
    <2>3. Admins \cup {} \cup {} = Admins
      OBVIOUS
    <2> QED
      BY <2>1, <2>2, <2>3 DEF Corrected, Entries
  <1>5. CASE AcceptReservation(q, i)
    <2>1. reservations[i] # NoRow /\ reservations[i].status = "pending" /\ OwnerOf(i) = q.user
      BY <1>5 DEF AcceptReservation
    <2>2. reservations'[i].status = "accepted"
      BY <1>5, SetStatusType DEF AcceptReservation, ReservationStatuses
    <2>3. Logs(i, "reservation.accept", OwnerOf(i))
      BY <1>5, <2>1, LogsEffect DEF AcceptReservation
    <2>4. Tells(i, "accepted", {reservations[i].buyer} \cup {} \cup {})
      BY <1>5, TellsEffect DEF AcceptReservation
    <2>5. {reservations[i].buyer} \cup {} \cup {} = {reservations[i].buyer}
      OBVIOUS
    <2>6. payments'[i] # "rejected"
      <3>1. payments' = payments /\ payments[i] \in {NoRow, "pending"}
        BY <1>5, <2>1 DEF AcceptReservation, PaymentMatchesStatus
      <3> QED
        BY <3>1, <1>0
    <2> QED
      BY <2>1, <2>2, <2>3, <2>4, <2>5, <2>6 DEF Decided
  <1>6. CASE RejectReservation(q, i)
    <2>1. reservations[i] # NoRow /\ reservations[i].status = "pending" /\ OwnerOf(i) = q.user
      BY <1>6 DEF RejectReservation
    <2>2. reservations'[i].status = "rejected"
      BY <1>6, SetStatusType DEF RejectReservation, ReservationStatuses
    <2>3. Logs(i, "reservation.reject", OwnerOf(i))
      BY <1>6, <2>1, LogsEffect DEF RejectReservation
    <2>4. Tells(i, "rejected", Admins \cup {reservations[i].buyer} \cup {})
      BY <1>6, TellsEffect DEF RejectReservation
    <2>5. Admins \cup {reservations[i].buyer} \cup {} = Admins \cup {reservations[i].buyer}
      OBVIOUS
    <2> QED
      BY <2>1, <2>2, <2>3, <2>4, <2>5 DEF Decided
  <1>7. CASE AdminConfirmReservation(q, i)
    <2>1. reservations[i] # NoRow /\ reservations[i].status = "accepted" /\ payments[i] = "pending"
      BY <1>7 DEF AdminConfirmReservation
    <2>2. reservations'[i].status = "confirmed"
      BY <1>7, SetStatusType DEF AdminConfirmReservation, ReservationStatuses
    <2>3. q.user \in Admins /\ Logs(i, "reservation.confirm", q.user)
      BY <1>7, LogsEffect DEF AdminConfirmReservation, AdminSnapshots, RequireRole
    <2>4. Tells(i, "confirmed", Admins \cup {reservations[i].buyer} \cup {OwnerOf(i)})
      BY <1>7, TellsEffect DEF AdminConfirmReservation
    <2> QED
      BY <2>1, <2>2, <2>3, <2>4 DEF Decided
  <1>8. CASE AdminRequestCorrection(q, i)
    <2>1. /\ reservations[i] # NoRow /\ UNCHANGED reservations
          /\ reservations[i].status = "accepted"
          /\ payments[i] = "pending" /\ payments'[i] = "rejected"
      BY <1>8 DEF AdminRequestCorrection, TypeOK
    <2>2. Tells(i, "correction_requested", {reservations[i].buyer} \cup {} \cup {})
      BY <1>8, TellsEffect DEF AdminRequestCorrection
    <2>3. {reservations[i].buyer} \cup {} \cup {} = {reservations[i].buyer}
      OBVIOUS
    <2>4. \A a \in Decisions : Entries(a, i)' = Entries(a, i)
      BY <1>8, AuditEffect DEF AdminRequestCorrection, Decisions
    <2> QED
      BY <2>1, <2>2, <2>3, <2>4 DEF Corrected
  <1> QED
    BY <1>1, <1>2, <1>3, <1>4, <1>5, <1>6, <1>7, <1>8 DEF ReservationStep

\* A reservation is changed by a handler of its own, or not at all.
LEMMA RowCases ==
    ASSUME Inv, AdminSnapshots, [Next]_vars, NEW i \in Ids
    PROVE  Tables(i) \/ Booked(i) \/ Decided(i) \/ Paid(i) \/ Corrected(i)
  BY OtherStep, ReservationCases DEF Inv

LEMMA AdminSnapshotsStep ==
    ASSUME AdminSnapshots, [Next]_vars PROVE AdminSnapshots'
  <1> USE DEF AdminSnapshots
  <1>1. ASSUME NEW u \in Users, RequireAuth(u) PROVE AdminSnapshots'
    BY <1>1 DEF RequireAuth, UserRoles
  <1>2. ASSUME inflight' \subseteq inflight PROVE AdminSnapshots'
    BY <1>2
  <1>3. ASSUME NEW q \in inflight, Respond(q) PROVE AdminSnapshots'
    BY <1>2, <1>3 DEF Respond
  <1>4. ASSUME NEW q \in inflight, NEW c \in Cars, CarStep(q, c) PROVE AdminSnapshots'
    BY <1>2, <1>4 DEF CarStep, CreateCar, PatchCar, AdminPatchCar, DeleteCar, AdminDeleteCar
  <1>5. ASSUME NEW q \in inflight, NEW u \in Users, AdminPatchUserRoles(q, u) PROVE AdminSnapshots'
    BY <1>2, <1>5 DEF AdminPatchUserRoles, GrantSeller, RevokeSeller
  <1>6. ASSUME NEW q \in inflight, NEW i \in Ids, ReservationStep(q, i) PROVE AdminSnapshots'
    BY <1>2, <1>6 DEF ReservationStep, CreateReservation, CancelReservation, RecordPayment,
       ResubmitPayment, AcceptReservation, RejectReservation, AdminConfirmReservation,
       AdminRequestCorrection
  <1> QED
    BY <1>1, <1>2, <1>3, <1>4, <1>5, <1>6 DEF Next, BecomeSeller, NextDay, vars

(***************************************************************************)
(* The audit log.                                                          *)
(***************************************************************************)

\* What DecisionsAudited says of one decision: it was taken, by these only,
\* or it was not taken.
Taken(i, action, actors, statuses) ==
    IF reservations[i] # NoRow /\ reservations[i].status \in statuses
    THEN \E row \in Entries(action, i) :
            Entries(action, i) = {row} /\ row.actor \in actors /\ ~row.again
    ELSE Entries(action, i) = {}

Audited(i) ==
    /\ Taken(i, "reservation.accept", {OwnerOf(i)}, {"accepted", "confirmed"})
    /\ Taken(i, "reservation.reject", {OwnerOf(i)}, {"rejected"})
    /\ Taken(i, "reservation.cancel", {reservations[i].buyer}, {"cancelled"})
    /\ Taken(i, "reservation.confirm", Admins, {"confirmed"})

LEMMA AuditedRows == DecisionsAudited <=> \A i \in Ids : Audited(i)
  BY DEF DecisionsAudited, Audited, Taken

\* The first row of an action is its only one.
LEMMA FirstEntry ==
    ASSUME NEW i, NEW action, NEW actor, Logs(i, action, actor), Entries(action, i) = {}
    PROVE  \E row \in Entries(action, i)' :
              Entries(action, i)' = {row} /\ row.actor = actor /\ ~row.again
  <1>1. PICK row : /\ row.actor = actor
                   /\ Entries(action, i) = {} => ~row.again
                   /\ Entries(action, i)' = Entries(action, i) \cup {row}
    BY DEF Logs, Adds
  <1>2. Entries(action, i)' = {row} /\ row \in Entries(action, i)'
    BY <1>1
  <1> QED
    BY <1>1, <1>2

\* A decision logs who takes it, once the status allows it and never again.
LEMMA DecisionsAuditedStep ==
    ASSUME Inv, AdminSnapshots, DecisionsAudited, [Next]_vars
    PROVE  DecisionsAudited'
  <1> SUFFICES ASSUME NEW i \in Ids PROVE Audited(i)'
    BY DEF DecisionsAudited, Audited, Taken
  <1>1. Audited(i)
    BY AuditedRows
  <1>2. /\ "reservation.accept" \in Decisions /\ "reservation.reject" \in Decisions
        /\ "reservation.cancel" \in Decisions /\ "reservation.confirm" \in Decisions
    BY DEF Decisions
  <1>3. CASE Tables(i)
    BY <1>1, <1>2, <1>3, OwnerKept DEF Tables, Audited, Taken
  <1>4. CASE Booked(i)
    BY <1>1, <1>2, <1>4 DEF Booked, Audited, Taken
  <1>5. CASE Decided(i)
    <2>1. /\ reservations[i] # NoRow /\ reservations'[i] # NoRow
          /\ reservations'[i].buyer = reservations[i].buyer /\ OwnerOf(i)' = OwnerOf(i)
      BY <1>5, OwnerKept DEF Decided
    <2>2. CASE /\ reservations[i].status = "pending" /\ reservations'[i].status = "cancelled"
               /\ Logs(i, "reservation.cancel", reservations[i].buyer)
      <3>1. Entries("reservation.cancel", i) = {}
        BY <1>1, <2>1, <2>2 DEF Audited, Taken
      <3> QED
        BY <1>1, <1>2, <2>1, <2>2, <3>1, FirstEntry DEF Logs, Audited, Taken
    <2>3. CASE /\ reservations[i].status = "pending" /\ reservations'[i].status = "accepted"
               /\ Logs(i, "reservation.accept", OwnerOf(i))
      <3>1. Entries("reservation.accept", i) = {}
        BY <1>1, <2>1, <2>3 DEF Audited, Taken
      <3> QED
        BY <1>1, <1>2, <2>1, <2>3, <3>1, FirstEntry DEF Logs, Audited, Taken
    <2>4. CASE /\ reservations[i].status = "pending" /\ reservations'[i].status = "rejected"
               /\ Logs(i, "reservation.reject", OwnerOf(i))
      <3>1. Entries("reservation.reject", i) = {}
        BY <1>1, <2>1, <2>4 DEF Audited, Taken
      <3> QED
        BY <1>1, <1>2, <2>1, <2>4, <3>1, FirstEntry DEF Logs, Audited, Taken
    <2>5. CASE /\ reservations[i].status = "accepted" /\ reservations'[i].status = "confirmed"
               /\ \E admin \in Admins : Logs(i, "reservation.confirm", admin)
      <3>1. Entries("reservation.confirm", i) = {}
        BY <1>1, <2>1, <2>5 DEF Audited, Taken
      <3>2. PICK admin \in Admins : Logs(i, "reservation.confirm", admin)
        BY <2>5
      <3>3. \E row \in Entries("reservation.confirm", i)' :
                /\ Entries("reservation.confirm", i)' = {row}
                /\ row.actor \in Admins /\ ~row.again
        BY <3>1, <3>2, FirstEntry
      <3> QED
        BY <1>1, <1>2, <2>1, <2>5, <3>2, <3>3 DEF Logs, Audited, Taken
    <2> QED
      BY <1>5, <2>2, <2>3, <2>4, <2>5 DEF Decided
  <1>6. CASE Paid(i) \/ Corrected(i)
    BY <1>1, <1>2, <1>6, OwnerKept DEF Paid, Corrected, Audited, Taken
  <1> QED
    BY <1>3, <1>4, <1>5, <1>6, RowCases

(***************************************************************************)
(* The notifications.                                                      *)
(***************************************************************************)

\* One row, or none.
Once(b) == IF b THEN 1 ELSE 0

\* What AnnouncedOnce says of one reservation and one user.
Announced(i, u) ==
    IF reservations[i] = NoRow THEN \A kind \in Kinds : notifications[<<u, kind, i>>] = 0
    ELSE /\ notifications[<<u, "requested", i>>] = Once(u \in Admins \/ u = OwnerOf(i))
         /\ notifications[<<u, "accepted", i>>] =
               Once(reservations[i].status \in {"accepted", "confirmed"} /\ u = reservations[i].buyer)
         /\ notifications[<<u, "rejected", i>>] =
               Once(reservations[i].status = "rejected" /\ (u \in Admins \/ u = reservations[i].buyer))
         /\ notifications[<<u, "cancelled", i>>] =
               Once(reservations[i].status = "cancelled" /\ u = OwnerOf(i))
         /\ notifications[<<u, "confirmed", i>>] =
               Once(/\ reservations[i].status = "confirmed"
                    /\ u \in Admins \/ u \in {reservations[i].buyer, OwnerOf(i)})

LEMMA AnnouncedRows == AnnouncedOnce <=> \A i \in Ids, u \in Users : Announced(i, u)
  BY DEF AnnouncedOnce, Announced, Once

\* Each recipient's counter goes from none to one, and only with the status.
LEMMA AnnouncedOnceStep ==
    ASSUME Inv, AdminSnapshots, AnnouncedOnce, [Next]_vars
    PROVE  AnnouncedOnce'
  <1> SUFFICES ASSUME NEW i \in Ids, NEW u \in Users PROVE Announced(i, u)'
    BY DEF AnnouncedOnce, Announced, Once
  <1>1. Announced(i, u)
    BY AnnouncedRows
  <1>2. /\ "requested" \in Kinds /\ "accepted" \in Kinds /\ "rejected" \in Kinds
        /\ "cancelled" \in Kinds /\ "confirmed" \in Kinds
    BY DEF Kinds
  <1>3. CASE Tables(i)
    <2>1. CASE reservations[i] = NoRow
      BY <1>1, <1>3, <2>1 DEF Tables, Announced
    <2>2. CASE reservations[i] # NoRow
      <3>1. /\ OwnerOf(i)' = OwnerOf(i) /\ reservations'[i] = reservations[i]
            /\ \A k \in Kinds : notifications'[<<u, k, i>>] = notifications[<<u, k, i>>]
        BY <1>3, <2>2, OwnerKept DEF Tables
      <3> QED
        BY <1>1, <1>2, <2>2, <3>1 DEF Announced
    <2> QED
      BY <2>1, <2>2
  <1>4. CASE Booked(i)
    <2>1. /\ reservations[i] = NoRow
          /\ reservations'[i] # NoRow /\ reservations'[i].status = "pending"
      BY <1>4 DEF Booked
    <2>2. \A k \in Kinds : notifications'[<<u, k, i>>] =
              IF k = "requested" /\ u \in Admins \cup {OwnerOf(i)'} THEN 1 ELSE 0
      BY <1>1, <1>4, <2>1 DEF Booked, Tells, Announced
    <2> QED
      BY <1>2, <2>1, <2>2 DEF Announced, Once
  <1>5. CASE Decided(i)
    <2>1. /\ reservations[i] # NoRow /\ reservations'[i] # NoRow
          /\ reservations'[i].buyer = reservations[i].buyer /\ OwnerOf(i)' = OwnerOf(i)
      BY <1>5, OwnerKept DEF Decided
    <2> QED
      BY <1>1, <1>2, <1>5, <2>1 DEF Decided, Tells, Announced, Once
  <1>6. CASE Paid(i)
    BY <1>1, <1>2, <1>6, OwnerKept DEF Paid, Announced
  <1>7. CASE Corrected(i)
    <2>1. /\ reservations[i] # NoRow /\ reservations'[i] = reservations[i]
          /\ OwnerOf(i)' = OwnerOf(i)
      BY <1>7, OwnerKept DEF Corrected
    <2>2. \A k \in Kinds \ {"correction_requested", "correction_submitted"} :
             notifications'[<<u, k, i>>] = notifications[<<u, k, i>>]
      BY <1>7 DEF Corrected, Tells
    <2> QED
      BY <1>1, <1>2, <2>1, <2>2 DEF Announced
  <1> QED
    BY <1>3, <1>4, <1>5, <1>6, <1>7, RowCases

\* The rounds differ by one while the payment is out for correction.
LEMMA CorrectionsAnsweredStep ==
    ASSUME Inv, AdminSnapshots, AnnouncedOnce, CorrectionsAnswered, [Next]_vars
    PROVE  CorrectionsAnswered'
  <1> DEFINE Asked(i) == notifications[<<reservations[i].buyer, "correction_requested", i>>]
             Answered(a, i) == notifications[<<a, "correction_submitted", i>>]
             Out(i) == reservations[i].status = "accepted" /\ payments[i] = "rejected"
  <1> SUFFICES ASSUME NEW i \in Ids, reservations'[i] # NoRow, NEW a \in Admins
               PROVE  Asked(i)' - Answered(a, i)' = IF Out(i)' THEN 1 ELSE 0
    BY DEF CorrectionsAnswered
  <1>0. a \in Users
    BY AccountsAssumption
  <1>1. reservations[i] # NoRow =>
            /\ Asked(i) - Answered(a, i) = IF Out(i) THEN 1 ELSE 0
            /\ reservations[i].buyer \in Users /\ reservations'[i].buyer = reservations[i].buyer
            /\ Asked(i) \in Nat /\ Answered(a, i) \in Nat
    <2> SUFFICES ASSUME reservations[i] # NoRow
                 PROVE  /\ Asked(i) - Answered(a, i) = IF Out(i) THEN 1 ELSE 0
                        /\ reservations[i].buyer \in Users
                        /\ reservations'[i].buyer = reservations[i].buyer
                        /\ Asked(i) \in Nat /\ Answered(a, i) \in Nat
      OBVIOUS
    <2>1. reservations[i].buyer \in Users
      BY RowType DEF Inv, Reservation
    <2>2. reservations'[i].buyer = reservations[i].buyer
      BY OwnerKept
    <2>3. Asked(i) \in Nat /\ Answered(a, i) \in Nat
      BY <1>0, <2>1, CounterType DEF Inv, Kinds
    <2> QED
      BY <2>1, <2>2, <2>3 DEF CorrectionsAnswered
  <1>2. "correction_requested" \in Kinds /\ "correction_submitted" \in Kinds
    BY DEF Kinds
  <1>3. CASE Tables(i)
    BY <1>0, <1>1, <1>2, <1>3 DEF Tables
  <1>4. CASE Booked(i)
    <2>1. reservations'[i].buyer \in Users
      BY TypeStep, RowType DEF Inv, TypeOK, Reservation
    <2>2. \A u \in Users, k \in Kinds : notifications[<<u, k, i>>] = 0
      BY <1>4 DEF Booked, AnnouncedOnce
    <2>3. Asked(i)' = 0 /\ Answered(a, i)' = 0
      BY <1>0, <1>2, <1>4, <2>1, <2>2 DEF Booked, Tells
    <2> QED
      BY <1>4, <2>3 DEF Booked
  <1>5. CASE Decided(i)
    <2>1. Asked(i)' = Asked(i) /\ Answered(a, i)' = Answered(a, i)
      BY <1>0, <1>1, <1>2, <1>5 DEF Decided, Tells
    <2>2. ~Out(i) /\ ~Out(i)'
      BY <1>5 DEF Decided
    <2> QED
      BY <1>1, <1>5, <2>1, <2>2 DEF Decided
  <1>6. CASE Paid(i)
    <2>1. Asked(i)' = Asked(i) /\ Answered(a, i)' = Answered(a, i)
      BY <1>0, <1>1, <1>2, <1>6 DEF Paid
    <2>2. ~Out(i) /\ ~Out(i)'
      BY <1>6, RowsAssumption DEF Paid, PaymentStatuses
    <2> QED
      BY <1>1, <1>6, <2>1, <2>2 DEF Paid
  <1>7. CASE Corrected(i)
    BY <1>0, <1>1, <1>2, <1>7 DEF Corrected, Tells
  <1> QED
    BY <1>3, <1>4, <1>5, <1>6, <1>7, RowCases

(***************************************************************************)
(* The catalogue.                                                          *)
(***************************************************************************)

\* Nothing is removed from the log.
LEMMA LogGrows ==
    ASSUME [Next]_vars PROVE audit \subseteq audit'
  <1>1. ASSUME NEW q \in inflight, NEW c \in Cars, CarStep(q, c) PROVE audit \subseteq audit'
    BY <1>1 DEF CarStep, CreateCar, PatchCar, AdminPatchCar, DeleteCar, AdminDeleteCar, auditAction
  <1>2. ASSUME NEW q \in inflight, NEW u \in Users, AdminPatchUserRoles(q, u)
        PROVE  audit \subseteq audit'
    BY <1>2 DEF AdminPatchUserRoles, GrantSeller, RevokeSeller, auditAction
  <1>3. ASSUME NEW q \in inflight, NEW i \in Ids, ReservationStep(q, i) PROVE audit \subseteq audit'
    BY <1>3 DEF ReservationStep, CreateReservation, CancelReservation, RecordPayment,
       ResubmitPayment, AcceptReservation, RejectReservation, AdminConfirmReservation,
       AdminRequestCorrection, auditAction
  <1> QED
    BY <1>1, <1>2, <1>3 DEF Next, RequireAuth, Respond, BecomeSeller, NextDay, vars

\* A car with a booking still to come goes off the catalogue by an
\* administrator's hand, or stays as it is.
LEMMA CarDeactivated ==
    ASSUME Inv, [Next]_vars, NEW i \in Ids, Live(i), reservations[i].end >= today,
           cars[reservations[i].car].active, ~cars'[reservations[i].car].active
    PROVE  Entries("car.update", reservations[i].car)' # {}
  <1> DEFINE car == reservations[i].car
  <1> USE DEF Inv
  <1>1. car \in Cars /\ Listed(car) /\ ~NeverReserved(car) /\ HasFuture(car)
    BY RowType DEF Live, Reservation, ReservedCarsExist, NeverReserved, HasFuture
  <1>2. ASSUME NEW q \in inflight, NEW c \in Cars, CarStep(q, c)
        PROVE  Entries("car.update", car)' # {}
    <2>1. CASE CreateCar(q, c)
      <3>1. c # car
        BY <1>1, <2>1 DEF CreateCar, Listed
      <3> QED
        BY <2>1, <3>1 DEF CreateCar, TypeOK
    <2>2. ASSUME NEW active \in BOOLEAN, PatchCar(q, c, active)
          PROVE  FALSE
      <3>1. cars[car] \in Car
        BY <1>1, CarType
      <3>2. cars' = [cars EXCEPT ![c].active = active] /\ (active \/ ~HasFuture(c))
        BY <2>2 DEF PatchCar
      <3>3. CASE c = car
        <4>1. cars'[car].active = active
          BY <1>1, <3>1, <3>2, <3>3 DEF TypeOK, Car
        <4> QED
          BY <1>1, <3>2, <3>3, <4>1
      <3>4. CASE c # car
        BY <1>1, <3>2, <3>4 DEF TypeOK
      <3> QED
        BY <3>3, <3>4
    <2>3. ASSUME NEW active \in BOOLEAN, AdminPatchCar(q, c, active)
          PROVE  Entries("car.update", car)' # {}
      <3>1. CASE c = car
        <4>1. Adds("car.update", c, q.user)
          BY <2>3, AuditEffect DEF AdminPatchCar
        <4>2. PICK row : Entries("car.update", c)' = Entries("car.update", c) \cup {row}
          BY <4>1 DEF Adds
        <4>3. reservations' = reservations
          BY <2>3 DEF AdminPatchCar
        <4> QED
          BY <3>1, <4>2, <4>3 DEF Entries
      <3>2. CASE c # car
        BY <1>1, <2>3, <3>2 DEF AdminPatchCar, TypeOK
      <3> QED
        BY <3>1, <3>2
    <2>4. CASE DeleteCar(q, c) \/ AdminDeleteCar(q, c)
      <3>1. c # car
        BY <1>1, <2>4 DEF DeleteCar, AdminDeleteCar
      <3> QED
        BY <1>1, <2>4, <3>1 DEF DeleteCar, AdminDeleteCar, TypeOK
    <2> QED
      BY <1>2, <2>1, <2>2, <2>3, <2>4 DEF CarStep
  <1>3. ASSUME NEW q \in inflight, NEW j \in Ids, ReservationStep(q, j) PROVE UNCHANGED cars
    BY <1>3 DEF ReservationStep, CreateReservation, CancelReservation, RecordPayment,
       ResubmitPayment, AcceptReservation, RejectReservation, AdminConfirmReservation,
       AdminRequestCorrection
  <1>4. ASSUME NEW q \in inflight, NEW u \in Users, AdminPatchUserRoles(q, u) PROVE UNCHANGED cars
    BY <1>4 DEF AdminPatchUserRoles, GrantSeller, RevokeSeller
  <1> QED
    BY <1>2, <1>3, <1>4 DEF Next, RequireAuth, Respond, BecomeSeller, NextDay, vars

\* The day never goes back.
LEMMA DayStep ==
    ASSUME Inv, [Next]_vars PROVE today \in Int /\ today' \in Int /\ today <= today'
  <1>1. today \in Int
    BY DEF Inv, TypeOK, Days
  <1>2. UNCHANGED today \/ today' = today + 1
    <2>1. ASSUME NEW q \in inflight, NEW c \in Cars, CarStep(q, c) PROVE UNCHANGED today
      BY <2>1 DEF CarStep, CreateCar, PatchCar, AdminPatchCar, DeleteCar, AdminDeleteCar
    <2>2. ASSUME NEW q \in inflight, NEW u \in Users, AdminPatchUserRoles(q, u)
          PROVE  UNCHANGED today
      BY <2>2 DEF AdminPatchUserRoles, GrantSeller, RevokeSeller
    <2>3. ASSUME NEW q \in inflight, NEW i \in Ids, ReservationStep(q, i) PROVE UNCHANGED today
      BY <2>3 DEF ReservationStep, CreateReservation, CancelReservation, RecordPayment,
         ResubmitPayment, AcceptReservation, RejectReservation, AdminConfirmReservation,
         AdminRequestCorrection
    <2> QED
      BY <2>1, <2>2, <2>3 DEF Next, RequireAuth, Respond, BecomeSeller, NextDay, vars
  <1> QED
    BY <1>1, <1>2

\* A booking finds its car active; a day that passes only ends bookings.
LEMMA InactiveOnlyByOverrideStep ==
    ASSUME Inv, InactiveOnlyByOverride, [Next]_vars
    PROVE  InactiveOnlyByOverride'
  <1> USE DEF Inv
  <1> SUFFICES ASSUME NEW i \in Ids
               PROVE  (Live(i) /\ reservations[i].end >= today /\ ~cars[reservations[i].car].active
                          => Entries("car.update", reservations[i].car) # {})'
    BY DEF InactiveOnlyByOverride
  <1> SUFFICES ASSUME Live(i)', (reservations[i].end >= today)',
                      ~cars'[reservations'[i].car].active
               PROVE  Entries("car.update", reservations[i].car)' # {}
    OBVIOUS
  <1>1. ASSUME NEW q \in inflight, NEW c \in Cars, NEW s \in Days, NEW e \in Days,
               Books(q, c, s, e, i)
        PROVE  FALSE
    <2>1. reservations'[i].car = c
      BY <1>1, BooksRow
    <2>2. cars' = cars /\ cars[c].active
      BY <1>1 DEF Books, CreateReservation
    <2> QED
      BY <2>1, <2>2
  <1> DEFINE Same == /\ Live(i) /\ reservations'[i].car = reservations[i].car
                     /\ reservations'[i].end = reservations[i].end
  <1>2. Same
    <2>1. CASE UNCHANGED <<reservations, payments>>
      BY <2>1 DEF Live
    <2>2. ASSUME NEW q \in inflight, NEW c \in Cars, NEW s \in Days, NEW e \in Days, NEW j \in Ids,
                 Books(q, c, s, e, j)
          PROVE  Same
      <3>1. j # i
        BY <1>1, <2>2
      <3> QED
        BY <2>2, <3>1, BooksRow DEF Live
    <2>3. ASSUME NEW j \in Ids, NEW status \in ReservationStatuses,
                 NEW payment \in PaymentStatuses \cup {NoRow}, Moves(j, status, payment)
          PROVE  Same
      BY <2>3, MovesRow DEF Live
    <2> HIDE DEF Same
    <2> QED
      BY <2>1, <2>2, <2>3, StepCases
  <1>3. reservations[i].end >= today
    <2>1. reservations'[i].end >= today' /\ reservations[i].end \in Int
      BY <1>2, RowType DEF Live, Reservation, Days
    <2> QED
      BY <1>2, <2>1, DayStep
  <1>4. CASE cars[reservations[i].car].active
    <2>1. Entries("car.update", reservations[i].car)' # {}
      BY <1>2, <1>3, <1>4, CarDeactivated
    <2> QED
      BY <1>2, <2>1 DEF Entries
  <1>5. CASE ~cars[reservations[i].car].active
    <2>1. Entries("car.update", reservations[i].car) # {}
      BY <1>2, <1>3, <1>5 DEF InactiveOnlyByOverride
    <2> QED
      BY <1>2, <2>1, LogGrows DEF Entries
  <1> QED
    BY <1>4, <1>5

(***************************************************************************)
(* The inductive invariant.  The four properties need one another less     *)
(* than they need the rows: who owns a reserved car never changes, an      *)
(* accepted or closed reservation never becomes pending again, and who     *)
(* confirms held the role when let in.                                     *)
(***************************************************************************)

HistoryInv == /\ Inv
              /\ AdminSnapshots
              /\ DecisionsAudited
              /\ AnnouncedOnce
              /\ CorrectionsAnswered
              /\ InactiveOnlyByOverride

LEMMA InitHistory == Init => HistoryInv
  <1> SUFFICES ASSUME Init PROVE HistoryInv
    OBVIOUS
  <1>1. Inv /\ AdminSnapshots
    BY InitInv DEF Init, AdminSnapshots
  <1>2. DecisionsAudited
    BY DEF Init, DecisionsAudited, Entries
  <1>3. AnnouncedOnce /\ CorrectionsAnswered /\ InactiveOnlyByOverride
    BY DEF Init, AnnouncedOnce, CorrectionsAnswered, InactiveOnlyByOverride, Live
  <1> QED
    BY <1>1, <1>2, <1>3 DEF HistoryInv

LEMMA StepHistory == HistoryInv /\ [Next]_vars => HistoryInv'
  BY StepInv, AdminSnapshotsStep, DecisionsAuditedStep, AnnouncedOnceStep,
     CorrectionsAnsweredStep, InactiveOnlyByOverrideStep DEF HistoryInv

LEMMA HistoryInvariance == Spec => []HistoryInv
  BY InitHistory, StepHistory, PTL DEF Spec

\* The log explains every status: the owner answered, the buyer cancelled, an
\* administrator confirmed, and nothing is logged that did not happen.
THEOREM DecisionsAuditedHolds == Spec => []DecisionsAudited
  <1>1. HistoryInv => DecisionsAudited
    BY DEF HistoryInv
  <1> QED
    BY <1>1, HistoryInvariance, PTL

\* Every decision is announced once to each of its recipients and to no one
\* else, whatever roles one user has in a reservation.
THEOREM AnnouncedOnceHolds == Spec => []AnnouncedOnce
  <1>1. HistoryInv => AnnouncedOnce
    BY DEF HistoryInv
  <1> QED
    BY <1>1, HistoryInvariance, PTL

\* The buyer and each administrator are told of corrections in turn, for any
\* number of rounds.
THEOREM CorrectionsAnsweredHolds == Spec => []CorrectionsAnswered
  <1>1. HistoryInv => CorrectionsAnswered
    BY DEF HistoryInv
  <1> QED
    BY <1>1, HistoryInvariance, PTL

\* A car with bookings to come is off the catalogue by an administrator's
\* logged change only.
THEOREM InactiveOnlyByOverrideHolds == Spec => []InactiveOnlyByOverride
  <1>1. HistoryInv => InactiveOnlyByOverride
    BY DEF HistoryInv
  <1> QED
    BY <1>1, HistoryInvariance, PTL
=============================================================================
