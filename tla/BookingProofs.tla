---------------------------- MODULE BookingProofs ----------------------------
(***************************************************************************)
(* Theorems about the reservation flow, for every set of accounts, cars    *)
(* and reservations and every calendar.                                    *)
(***************************************************************************)
EXTENDS Booking, TLAPS

\* notifyUsers adds a row or none to each counter.
LEMMA NotifyType ==
    ASSUME NEW groups, NEW kind, NEW i,
           notifications \in [Users \X Kinds \X Ids -> Nat],
           notifyUsers(groups, kind, i)
    PROVE  notifications' \in [Users \X Kinds \X Ids -> Nat]
  BY DEF notifyUsers

\* A row is a reservation or it is absent; the two are told apart.
LEMMA RowType ==
    ASSUME TypeOK, NEW i \in Ids, reservations[i] # NoRow
    PROVE  reservations[i] \in Reservation
  BY DEF TypeOK

\* The same of a listed car.
LEMMA CarType ==
    ASSUME TypeOK, NEW c \in Cars, Listed(c)
    PROVE  cars[c] \in Car
  BY DEF TypeOK, Listed

\* A change of status keeps the row a reservation.
LEMMA SetStatusType ==
    ASSUME TypeOK, NEW i \in Ids, reservations[i] # NoRow,
           NEW status \in ReservationStatuses, SetStatus(i, status)
    PROVE  /\ reservations' \in [Ids -> Reservation \cup {NoRow}]
           /\ reservations'[i] \in Reservation
           /\ reservations'[i].status = status
           /\ \A f \in {"buyer", "car", "start", "end"} :
                 reservations'[i][f] = reservations[i][f]
           /\ \A j \in Ids \ {i} : reservations'[j] = reservations[j]
  <1>1. reservations[i] \in Reservation
    BY RowType
  <1>2. [reservations[i] EXCEPT !.status = status] \in Reservation
    BY <1>1 DEF Reservation
  <1> QED
    BY <1>1, <1>2 DEF SetStatus, TypeOK, Reservation

\* A handler logs its caller.
LEMMA AuditType ==
    ASSUME TypeOK, NEW q \in inflight, NEW action \in AuditActions,
           NEW target \in Users \cup Cars \cup Ids, auditAction(q.user, action, target)
    PROVE  audit' \subseteq AuditRow
  <1> DEFINE Row(again) == [actor |-> q.user, action |-> action, target |-> target, again |-> again]
  <1>1. q.user \in Users /\ audit \subseteq AuditRow
    BY DEF TypeOK, Request
  <1>2. \A again \in BOOLEAN : Row(again) \in AuditRow
    BY <1>1 DEF AuditRow
  <1>3. audit' = audit \cup {Row(target \in Ids /\ Row(FALSE) \in audit)}
    BY DEF auditAction
  <1>4. (target \in Ids /\ Row(FALSE) \in audit) \in BOOLEAN
    OBVIOUS
  <1> QED
    BY ONLY <1>1, <1>2, <1>3, <1>4

\* One proof per handler; the rows it writes have the shape of their table.
LEMMA TypeStep == TypeOK /\ [Next]_vars => TypeOK'
  <1> SUFFICES ASSUME TypeOK, [Next]_vars PROVE TypeOK'
    OBVIOUS
  <1>1. ASSUME NEW u \in Users, RequireAuth(u) PROVE TypeOK'
    BY <1>1 DEF TypeOK, RequireAuth, UserRoles, Roles, Request
  <1>2. ASSUME NEW q \in inflight, Respond(q) PROVE TypeOK'
    BY <1>2 DEF TypeOK, Respond
  <1>3. ASSUME NEW q \in inflight, NEW c \in Cars, CarStep(q, c) PROVE TypeOK'
    <2>1. CASE CreateCar(q, c)
      BY <2>1 DEF TypeOK, CreateCar, Car, Request
    <2>2. ASSUME NEW active \in BOOLEAN, PatchCar(q, c, active) PROVE TypeOK'
      BY <2>2, CarType DEF TypeOK, PatchCar, Car
    <2>3. ASSUME NEW active \in BOOLEAN, AdminPatchCar(q, c, active) PROVE TypeOK'
      <3>1. audit' \subseteq AuditRow
        BY <2>3, AuditType DEF AdminPatchCar, AuditActions
      <3> QED
        BY <2>3, <3>1, CarType DEF TypeOK, AdminPatchCar, Car
    <2>4. CASE DeleteCar(q, c)
      BY <2>4 DEF TypeOK, DeleteCar
    <2>5. CASE AdminDeleteCar(q, c)
      <3>1. audit' \subseteq AuditRow
        BY <2>5, AuditType DEF AdminDeleteCar, AuditActions
      <3> QED
        BY <2>5, <3>1 DEF TypeOK, AdminDeleteCar
    <2> QED
      BY <1>3, <2>1, <2>2, <2>3, <2>4, <2>5 DEF CarStep
  <1>4. ASSUME NEW q \in inflight, NEW u \in Users, AdminPatchUserRoles(q, u) PROVE TypeOK'
    <2>1. audit' \subseteq AuditRow
      BY <1>4, AuditType DEF AdminPatchUserRoles, GrantSeller, RevokeSeller, AuditActions
    <2> QED
      BY <1>4, <2>1 DEF TypeOK, AdminPatchUserRoles, GrantSeller, RevokeSeller
  <1>8. ASSUME NEW q \in inflight, BecomeSeller(q) PROVE TypeOK'
    BY <1>8 DEF TypeOK, BecomeSeller, Request
  <1>5. ASSUME NEW q \in inflight, NEW i \in Ids, ReservationStep(q, i) PROVE TypeOK'
    <2>0. q.user \in Users
      BY DEF TypeOK, Request
    <2>1. ASSUME NEW c \in Cars, NEW s \in Days, NEW e \in Days,
                 CreateReservation(q, c, s, e, i)
          PROVE  TypeOK'
      <3>1. [buyer |-> q.user, car |-> c, start |-> s, end |-> e, status |-> "pending"]
              \in Reservation
        BY <2>0 DEF Reservation, ReservationStatuses
      <3>2. notifications' \in [Users \X Kinds \X Ids -> Nat]
        BY <2>1, NotifyType DEF CreateReservation, TypeOK
      <3> QED
        BY <2>1, <3>1, <3>2 DEF TypeOK, CreateReservation
    <2>2. CASE CancelReservation(q, i)
      <3>1. audit' \subseteq AuditRow
        BY <2>2, AuditType DEF CancelReservation, AuditActions
      <3>2. notifications' \in [Users \X Kinds \X Ids -> Nat]
        BY <2>2, NotifyType DEF CancelReservation, TypeOK
      <3>3. reservations' \in [Ids -> Reservation \cup {NoRow}]
        BY <2>2, SetStatusType DEF CancelReservation, ReservationStatuses
      <3> QED
        BY <2>2, <3>1, <3>2, <3>3 DEF TypeOK, CancelReservation
    <2>3. CASE RecordPayment(q, i)
      BY <2>3 DEF TypeOK, RecordPayment, PaymentStatuses
    <2>4. CASE ResubmitPayment(q, i)
      <3>1. notifications' \in [Users \X Kinds \X Ids -> Nat]
        BY <2>4, NotifyType DEF ResubmitPayment, TypeOK
      <3> QED
        BY <2>4, <3>1 DEF TypeOK, ResubmitPayment, PaymentStatuses
    <2>5. CASE AcceptReservation(q, i)
      <3>1. audit' \subseteq AuditRow
        BY <2>5, AuditType DEF AcceptReservation, AuditActions
      <3>2. notifications' \in [Users \X Kinds \X Ids -> Nat]
        BY <2>5, NotifyType DEF AcceptReservation, TypeOK
      <3>3. reservations' \in [Ids -> Reservation \cup {NoRow}]
        BY <2>5, SetStatusType DEF AcceptReservation, ReservationStatuses
      <3> QED
        BY <2>5, <3>1, <3>2, <3>3 DEF TypeOK, AcceptReservation
    <2>6. CASE RejectReservation(q, i)
      <3>1. audit' \subseteq AuditRow
        BY <2>6, AuditType DEF RejectReservation, AuditActions
      <3>2. notifications' \in [Users \X Kinds \X Ids -> Nat]
        BY <2>6, NotifyType DEF RejectReservation, TypeOK
      <3>3. reservations' \in [Ids -> Reservation \cup {NoRow}]
        BY <2>6, SetStatusType DEF RejectReservation, ReservationStatuses
      <3>4. payments' \in [Ids -> PaymentStatuses \cup {NoRow}]
        BY <2>6 DEF RejectReservation, TypeOK, PaymentStatuses
      <3> QED
        BY <2>6, <3>1, <3>2, <3>3, <3>4 DEF TypeOK, RejectReservation
    <2>7. CASE AdminConfirmReservation(q, i)
      <3>1. audit' \subseteq AuditRow
        BY <2>7, AuditType DEF AdminConfirmReservation, AuditActions
      <3>2. notifications' \in [Users \X Kinds \X Ids -> Nat]
        BY <2>7, NotifyType DEF AdminConfirmReservation, TypeOK
      <3>3. reservations' \in [Ids -> Reservation \cup {NoRow}]
        BY <2>7, SetStatusType DEF AdminConfirmReservation, ReservationStatuses
      <3>4. payments' \in [Ids -> PaymentStatuses \cup {NoRow}]
        BY <2>7 DEF AdminConfirmReservation, TypeOK, PaymentStatuses
      <3> QED
        BY <2>7, <3>1, <3>2, <3>3, <3>4 DEF TypeOK, AdminConfirmReservation
    <2>8. CASE AdminRequestCorrection(q, i)
      <3>1. audit' \subseteq AuditRow
        BY <2>8, AuditType DEF AdminRequestCorrection, AuditActions
      <3>2. notifications' \in [Users \X Kinds \X Ids -> Nat]
        BY <2>8, NotifyType DEF AdminRequestCorrection, TypeOK
      <3> QED
        BY <2>8, <3>1, <3>2 DEF TypeOK, AdminRequestCorrection, PaymentStatuses
    <2> QED
      BY <1>5, <2>1, <2>2, <2>3, <2>4, <2>5, <2>6, <2>7, <2>8 DEF ReservationStep
  <1>6. CASE NextDay
    BY <1>6, BoundsAssumption DEF TypeOK, NextDay, Days
  <1>7. CASE UNCHANGED vars
    BY <1>7 DEF TypeOK, vars
  <1> QED
    BY <1>1, <1>2, <1>3, <1>4, <1>5, <1>6, <1>7, <1>8 DEF Next


\* Type correctness: no sequence of requests leaves a malformed row.
THEOREM TypeCorrect == Spec => []TypeOK
  <1>1. Init => TypeOK
    BY AccountsAssumption, BoundsAssumption DEF Init, TypeOK, Days
  <1> QED
    BY <1>1, TypeStep, PTL DEF Spec

(***************************************************************************)
(* What a step may do to the reservation and payment rows: nothing, one    *)
(* booking, or one move of one reservation along an edge of LegalEdges.    *)
(***************************************************************************)

Moves(i, status, payment) ==
    /\ reservations[i] # NoRow
    /\ SetStatus(i, status)
    /\ payments' = [payments EXCEPT ![i] = payment]
    /\ <<View(i), <<status, payment>>>> \in LegalEdges

Books(q, c, s, e, i) == q \in inflight /\ CreateReservation(q, c, s, e, i)

\* Writing the status a row already has leaves the table as it was.
LEMMA SameStatus ==
    ASSUME TypeOK, NEW i \in Ids, reservations[i] # NoRow, UNCHANGED reservations
    PROVE  SetStatus(i, reservations[i].status)
  <1>1. reservations[i] \in Reservation
    BY RowType
  <1>2. [reservations[i] EXCEPT !.status = reservations[i].status] = reservations[i]
    BY <1>1 DEF Reservation
  <1> QED
    BY <1>2 DEF SetStatus, TypeOK

\* Every step of the specification is one of these.
LEMMA StepCases ==
    ASSUME TypeOK, PaymentMatchesStatus, [Next]_vars
    PROVE  \/ UNCHANGED <<reservations, payments>>
           \/ \E q \in inflight, c \in Cars, s, e \in Days, i \in Ids : Books(q, c, s, e, i)
           \/ \E i \in Ids, status \in ReservationStatuses, payment \in PaymentStatuses \cup {NoRow} :
                 Moves(i, status, payment)
  <1> DEFINE Goal == \/ UNCHANGED <<reservations, payments>>
                     \/ \E q \in inflight, c \in Cars, s, e \in Days, i \in Ids :
                           Books(q, c, s, e, i)
                     \/ \E i \in Ids, status \in ReservationStatuses,
                            payment \in PaymentStatuses \cup {NoRow} : Moves(i, status, payment)
  <1>1. ASSUME NEW u \in Users, RequireAuth(u) PROVE Goal
    BY <1>1 DEF RequireAuth
  <1>2. ASSUME NEW q \in inflight, Respond(q) PROVE Goal
    BY <1>2 DEF Respond
  <1>3. ASSUME NEW q \in inflight, NEW c \in Cars, CarStep(q, c) PROVE Goal
    BY <1>3 DEF CarStep, CreateCar, PatchCar, AdminPatchCar, DeleteCar, AdminDeleteCar
  <1>4. ASSUME NEW q \in inflight, NEW u \in Users, AdminPatchUserRoles(q, u) PROVE Goal
    BY <1>4 DEF AdminPatchUserRoles, GrantSeller, RevokeSeller
  <1>8. ASSUME NEW q \in inflight, BecomeSeller(q) PROVE Goal
    BY <1>8 DEF BecomeSeller
  <1>5. ASSUME NEW q \in inflight, NEW i \in Ids, ReservationStep(q, i) PROVE Goal
    <2> HIDE DEF Goal
    <2>0. ASSUME NEW status \in ReservationStatuses, NEW payment \in PaymentStatuses \cup {NoRow},
                 Moves(i, status, payment)
          PROVE  Goal
      BY <2>0 DEF Goal
    <2>1. ASSUME NEW c \in Cars, NEW s \in Days, NEW e \in Days, CreateReservation(q, c, s, e, i)
          PROVE  Goal
      BY <2>1 DEF Goal, Books
    <2>2. CASE CancelReservation(q, i)
      <3>1. payments' = [payments EXCEPT ![i] = NoRow]
        BY <2>2 DEF CancelReservation, TypeOK
      <3>2. Moves(i, "cancelled", NoRow)
        BY <2>2, <3>1 DEF CancelReservation, Moves, View, LegalEdges
      <3> QED
        BY <3>2, <2>0 DEF ReservationStatuses
    <2>3. CASE RecordPayment(q, i)
      <3>1. SetStatus(i, reservations[i].status)
        BY <2>3, SameStatus DEF RecordPayment
      <3>2. Moves(i, reservations[i].status, "pending")
        BY <2>3, <3>1 DEF RecordPayment, Moves, View, LegalEdges
      <3> QED
        BY <3>2, <2>0, <2>3 DEF RecordPayment, ReservationStatuses, PaymentStatuses
    <2>4. CASE ResubmitPayment(q, i)
      <3>1. SetStatus(i, reservations[i].status)
        BY <2>4, SameStatus DEF ResubmitPayment
      <3>2. Moves(i, reservations[i].status, "pending")
        BY <2>4, <3>1 DEF ResubmitPayment, Moves, View, LegalEdges
      <3> QED
        BY <3>2, <2>0, <2>4 DEF ResubmitPayment, ReservationStatuses, PaymentStatuses
    <2>5. CASE AcceptReservation(q, i)
      <3>1. payments[i] \in {NoRow, "pending"}
        BY <2>5 DEF AcceptReservation, PaymentMatchesStatus
      <3>2. payments' = [payments EXCEPT ![i] = payments[i]]
        BY <2>5 DEF AcceptReservation, TypeOK
      <3>3. Moves(i, "accepted", payments[i])
        BY <2>5, <3>1, <3>2 DEF AcceptReservation, Moves, View, LegalEdges
      <3> QED
        BY <3>1, <3>3, <2>0 DEF ReservationStatuses, PaymentStatuses
    <2>6. CASE RejectReservation(q, i)
      <3>1. payments[i] \in {NoRow, "pending"}
        BY <2>6 DEF RejectReservation, PaymentMatchesStatus
      <3>2. CASE payments[i] = "pending"
        <4>1. Moves(i, "rejected", "rejected")
          BY <2>6, <3>2 DEF RejectReservation, Moves, View, LegalEdges
        <4> QED
          BY <4>1, <2>0 DEF ReservationStatuses, PaymentStatuses
      <3>3. CASE payments[i] = NoRow
        <4>1. NoRow # "pending"
          BY RowsAssumption DEF PaymentStatuses
        <4>2. Moves(i, "rejected", NoRow)
          BY <2>6, <3>3, <4>1 DEF RejectReservation, Moves, View, LegalEdges
        <4> QED
          BY <4>2, <2>0 DEF ReservationStatuses, PaymentStatuses
      <3> QED
        BY <3>1, <3>2, <3>3
    <2>7. CASE AdminConfirmReservation(q, i)
      <3>1. Moves(i, "confirmed", "approved")
        BY <2>7 DEF AdminConfirmReservation, Moves, View, LegalEdges
      <3> QED
        BY <3>1, <2>0 DEF ReservationStatuses, PaymentStatuses
    <2>8. CASE AdminRequestCorrection(q, i)
      <3>1. SetStatus(i, reservations[i].status)
        BY <2>8, SameStatus DEF AdminRequestCorrection
      <3>2. Moves(i, reservations[i].status, "rejected")
        BY <2>8, <3>1 DEF AdminRequestCorrection, Moves, View, LegalEdges
      <3> QED
        BY <3>2, <2>0, <2>8 DEF AdminRequestCorrection, ReservationStatuses, PaymentStatuses
    <2> QED
      BY <1>5, <2>1, <2>2, <2>3, <2>4, <2>5, <2>6, <2>7, <2>8 DEF ReservationStep
  <1>6. CASE NextDay
    BY <1>6 DEF NextDay
  <1>7. CASE UNCHANGED vars
    BY <1>7 DEF vars
  <1> QED
    BY <1>1, <1>2, <1>3, <1>4, <1>5, <1>6, <1>7, <1>8 DEF Next

\* A move starts from a live row and keeps everything but the status.
LEMMA MovesRow ==
    ASSUME TypeOK, NEW i \in Ids, NEW status \in ReservationStatuses,
           NEW payment \in PaymentStatuses \cup {NoRow}, Moves(i, status, payment)
    PROVE  /\ Live(i)
           /\ reservations[i].status \in {"pending", "accepted"}
           /\ reservations'[i] # NoRow
           /\ reservations'[i].status = status
           /\ reservations'[i].buyer = reservations[i].buyer
           /\ reservations'[i].car = reservations[i].car
           /\ reservations'[i].start = reservations[i].start
           /\ reservations'[i].end = reservations[i].end
           /\ \A j \in Ids \ {i} : reservations'[j] = reservations[j]
           /\ payments'[i] = payment
           /\ \A j \in Ids \ {i} : payments'[j] = payments[j]
  <1>1. /\ reservations[i] \in Reservation
        /\ reservations'[i] \in Reservation
        /\ \A j \in Ids \ {i} : reservations'[j] = reservations[j]
    BY RowType, SetStatusType DEF Moves
  <1>2. /\ reservations'[i].status = status
        /\ reservations'[i].buyer = reservations[i].buyer
        /\ reservations'[i].car = reservations[i].car
        /\ reservations'[i].start = reservations[i].start
        /\ reservations'[i].end = reservations[i].end
    BY SetStatusType DEF Moves
  <1>3. reservations[i].status \in {"pending", "accepted"}
    <2>1. View(i) \in {<<NoRow, NoRow>>, <<"pending", NoRow>>, <<"pending", "pending">>,
                       <<"accepted", NoRow>>, <<"accepted", "pending">>,
                       <<"accepted", "rejected">>}
      BY DEF Moves, LegalEdges
    <2> QED
      BY <1>1, <2>1, RowsAssumption DEF Moves, View, Reservation
  <1>4. reservations'[i] # NoRow
    BY <1>1, RowsAssumption
  <1>5. /\ payments'[i] = payment
        /\ \A j \in Ids \ {i} : payments'[j] = payments[j]
    BY DEF Moves, TypeOK
  <1> QED
    BY <1>1, <1>2, <1>3, <1>4, <1>5 DEF Moves, Live

\* A booking adds one row and changes no other.
LEMMA BooksRow ==
    ASSUME TypeOK, NEW q \in inflight, NEW c \in Cars, NEW s \in Days, NEW e \in Days,
           NEW i \in Ids, Books(q, c, s, e, i)
    PROVE  /\ reservations[i] = NoRow
           /\ reservations'[i] # NoRow
           /\ reservations'[i].buyer = q.user
           /\ reservations'[i].car = c
           /\ reservations'[i].start = s
           /\ reservations'[i].end = e
           /\ reservations'[i].status = "pending"
           /\ \A j \in Ids \ {i} : reservations'[j] = reservations[j]
           /\ payments' = payments
  <1>1. q.user \in Users
    BY DEF TypeOK, Request
  <1>2. [buyer |-> q.user, car |-> c, start |-> s, end |-> e, status |-> "pending"]
          \in Reservation
    BY <1>1 DEF Reservation, ReservationStatuses
  <1>3. reservations'[i] = [buyer |-> q.user, car |-> c, start |-> s, end |-> e,
                            status |-> "pending"]
    BY DEF Books, CreateReservation, TypeOK
  <1> QED
    BY <1>2, <1>3, RowsAssumption DEF Books, CreateReservation, TypeOK

\* A car that was ever reserved stays, and stays its owner's.
LEMMA CarsKept ==
    ASSUME TypeOK, [Next]_vars, NEW c \in Cars, Listed(c), ~NeverReserved(c)
    PROVE  Listed(c)' /\ cars'[c].owner = cars[c].owner
  <1>1. cars[c] \in Car
    BY CarType
  <1>2. ASSUME NEW q \in inflight, NEW d \in Cars, CarStep(q, d)
        PROVE  Listed(c)' /\ cars'[c].owner = cars[c].owner
    <2>1. CASE CreateCar(q, d)
      BY <2>1 DEF CreateCar, Listed, TypeOK
    <2>2. ASSUME NEW active \in BOOLEAN, PatchCar(q, d, active) \/ AdminPatchCar(q, d, active)
          PROVE  Listed(c)' /\ cars'[c].owner = cars[c].owner
      <3>1. cars' = [cars EXCEPT ![d].active = active]
        BY <2>2 DEF PatchCar, AdminPatchCar
      <3>2. [cars[c] EXCEPT !.active = active] \in Car
        BY <1>1 DEF Car
      <3>3. cars'[c] \in Car /\ cars'[c].owner = cars[c].owner
        BY <1>1, <3>1, <3>2 DEF TypeOK, Car
      <3> QED
        BY <3>3, RowsAssumption DEF Listed
    <2>3. CASE DeleteCar(q, d) \/ AdminDeleteCar(q, d)
      <3>1. c # d
        BY <2>3 DEF DeleteCar, AdminDeleteCar
      <3> QED
        BY <2>3, <3>1 DEF DeleteCar, AdminDeleteCar, Listed, TypeOK
    <2> QED
      BY <1>2, <2>1, <2>2, <2>3 DEF CarStep
  <1>3. CASE UNCHANGED cars
    BY <1>3 DEF Listed
  <1>4. ASSUME NEW q \in inflight, NEW i \in Ids, ReservationStep(q, i) PROVE UNCHANGED cars
    BY <1>4 DEF ReservationStep, CreateReservation, CancelReservation, RecordPayment,
       ResubmitPayment, AcceptReservation, RejectReservation, AdminConfirmReservation,
       AdminRequestCorrection
  <1>5. ASSUME NEW q \in inflight, NEW u \in Users, AdminPatchUserRoles(q, u) PROVE UNCHANGED cars
    BY <1>5 DEF AdminPatchUserRoles, GrantSeller, RevokeSeller
  <1>6. ASSUME NEW q \in inflight, BecomeSeller(q) PROVE UNCHANGED cars
    BY <1>6 DEF BecomeSeller
  <1> QED
    BY <1>2, <1>3, <1>4, <1>5, <1>6 DEF Next, RequireAuth, Respond, NextDay, vars

(***************************************************************************)
(* The inductive invariant of the tables.  NoDoubleBooking is inductive on *)
(* its own; the payment relation is what limits a step to LegalEdges, and  *)
(* a reserved car's row is what the owner checks read.                     *)
(***************************************************************************)

OrderedDates == \A i \in Ids : reservations[i] # NoRow =>
    /\ reservations[i].start <= reservations[i].end
    /\ reservations[i].end - reservations[i].start < MaxRentalDays

Inv == /\ TypeOK
       /\ PaymentMatchesStatus
       /\ NoDoubleBooking
       /\ ReservedCarsExist
       /\ OrderedDates

LEMMA InitInv == Init => Inv
  BY AccountsAssumption, BoundsAssumption
  DEF Init, Inv, TypeOK, PaymentMatchesStatus, NoDoubleBooking, ReservedCarsExist, OrderedDates,
      Live, Days

\* The edges lead only to payments the new status allows.
LEMMA PaymentMatchesStatusStep ==
    ASSUME Inv, [Next]_vars PROVE PaymentMatchesStatus'
  <1> USE DEF Inv
  <1>1. CASE UNCHANGED <<reservations, payments>>
    BY <1>1 DEF PaymentMatchesStatus
  <1>2. ASSUME NEW q \in inflight, NEW c \in Cars, NEW s \in Days, NEW e \in Days, NEW i \in Ids,
               Books(q, c, s, e, i)
        PROVE  PaymentMatchesStatus'
    <2>1. payments[i] = NoRow
      BY <1>2, BooksRow DEF PaymentMatchesStatus
    <2>2. /\ reservations'[i] # NoRow /\ reservations'[i].status = "pending"
          /\ payments' = payments
          /\ \A j \in Ids \ {i} : reservations'[j] = reservations[j]
      BY <1>2, BooksRow
    <2> QED
      BY <2>1, <2>2 DEF PaymentMatchesStatus
  <1>3. ASSUME NEW i \in Ids, NEW status \in ReservationStatuses,
               NEW payment \in PaymentStatuses \cup {NoRow}, Moves(i, status, payment)
        PROVE  PaymentMatchesStatus'
    <2>1. <<status, payment>> \in {<<"pending", "pending">>, <<"cancelled", NoRow>>,
              <<"accepted", NoRow>>, <<"rejected", NoRow>>, <<"accepted", "pending">>,
              <<"rejected", "rejected">>, <<"accepted", "rejected">>, <<"confirmed", "approved">>,
              <<"pending", NoRow>>}
      BY <1>3 DEF Moves, LegalEdges
    <2>2. /\ reservations'[i] # NoRow /\ reservations'[i].status = status
          /\ payments'[i] = payment
          /\ \A j \in Ids \ {i} : /\ reservations'[j] = reservations[j]
                                  /\ payments'[j] = payments[j]
      BY <1>3, MovesRow
    <2>3. \/ status = "pending" /\ payment \in {NoRow, "pending"}
          \/ status = "accepted" /\ payment \in {NoRow, "pending", "rejected"}
          \/ status = "confirmed" /\ payment = "approved"
          \/ status = "rejected" /\ payment \in {NoRow, "rejected"}
          \/ status = "cancelled" /\ payment = NoRow
      BY <2>1
    <2> QED
      BY <2>2, <2>3 DEF PaymentMatchesStatus
  <1> QED
    BY <1>1, <1>2, <1>3, StepCases

\* A booking found every live reservation of the car elsewhere; a move makes
\* nothing live that was not.
LEMMA NoDoubleBookingStep ==
    ASSUME Inv, [Next]_vars PROVE NoDoubleBooking'
  <1> USE DEF Inv
  <1>1. CASE UNCHANGED <<reservations, payments>>
    BY <1>1 DEF NoDoubleBooking, Live
  <1>2. ASSUME NEW q \in inflight, NEW c \in Cars, NEW s \in Days, NEW e \in Days, NEW i \in Ids,
               Books(q, c, s, e, i)
        PROVE  NoDoubleBooking'
    <2>1. \A j \in Ids \ {i} : Live(j) /\ reservations[j].car = c =>
              e < reservations[j].start \/ reservations[j].end < s
      <3> SUFFICES ASSUME NEW j \in Ids \ {i}, Live(j), reservations[j].car = c
                   PROVE  e < reservations[j].start \/ reservations[j].end < s
        OBVIOUS
      <3>1. reservations[j].start \in Int /\ reservations[j].end \in Int /\ s \in Int /\ e \in Int
        BY RowType DEF Live, Reservation, Days
      <3> QED
        BY <1>2, <3>1 DEF Books, CreateReservation, OverlapPredicate
    <2>2. \A j \in Ids \ {i} : reservations'[j] = reservations[j]
      BY <1>2, BooksRow
    <2>3. reservations'[i].car = c /\ reservations'[i].start = s /\ reservations'[i].end = e
      BY <1>2, BooksRow
    <2> QED
      BY <2>1, <2>2, <2>3 DEF NoDoubleBooking, Live
  <1>3. ASSUME NEW i \in Ids, NEW status \in ReservationStatuses,
               NEW payment \in PaymentStatuses \cup {NoRow}, Moves(i, status, payment)
        PROVE  NoDoubleBooking'
    <2>1. \A j \in Ids : Live(j)' => Live(j)
      BY <1>3, MovesRow DEF Live
    <2>2. \A j \in Ids : /\ Live(j) => reservations'[j].car = reservations[j].car
                         /\ Live(j) => reservations'[j].start = reservations[j].start
                         /\ Live(j) => reservations'[j].end = reservations[j].end
      BY <1>3, MovesRow
    <2> QED
      BY <2>1, <2>2 DEF NoDoubleBooking
  <1> QED
    BY <1>1, <1>2, <1>3, StepCases

\* A car with a reservation is never deleted, and only a listed car is booked.
LEMMA ReservedCarsExistStep ==
    ASSUME Inv, [Next]_vars PROVE ReservedCarsExist'
  <1> USE DEF Inv
  <1> SUFFICES ASSUME NEW i \in Ids, reservations'[i] # NoRow PROVE Listed(reservations[i].car)'
    BY DEF ReservedCarsExist
  <1>1. CASE reservations[i] # NoRow
    <2>1. reservations'[i].car = reservations[i].car
      BY <1>1, StepCases, BooksRow, MovesRow
    <2>2. reservations[i].car \in Cars /\ ~NeverReserved(reservations[i].car)
      BY <1>1, RowType DEF Reservation, NeverReserved
    <2>3. Listed(reservations[i].car)
      BY <1>1 DEF ReservedCarsExist
    <2> QED
      BY <2>1, <2>2, <2>3, CarsKept DEF Listed
  <1>2. CASE reservations[i] = NoRow
    <2>1. PICK q \in inflight, c \in Cars, s \in Days, e \in Days : Books(q, c, s, e, i)
      <3>1. ASSUME NEW q \in inflight, NEW c \in Cars, NEW s \in Days, NEW e \in Days,
                   NEW j \in Ids, Books(q, c, s, e, j)
            PROVE  j = i
        BY <1>2, <3>1, BooksRow
      <3>2. ASSUME NEW j \in Ids, NEW status \in ReservationStatuses,
                   NEW payment \in PaymentStatuses \cup {NoRow}, Moves(j, status, payment)
            PROVE  FALSE
        BY <1>2, <3>2, MovesRow DEF Moves
      <3> QED
        BY <1>2, <3>1, <3>2, StepCases
    <2>2. reservations'[i].car = c /\ cars' = cars /\ Listed(c)
      BY <2>1, BooksRow DEF Books, CreateReservation
    <2> QED
      BY <2>2 DEF Listed
  <1> QED
    BY <1>1, <1>2

\* The dates are checked once, before the booking, and never written again.
LEMMA OrderedDatesStep ==
    ASSUME Inv, [Next]_vars PROVE OrderedDates'
  <1> USE DEF Inv
  <1>1. CASE UNCHANGED <<reservations, payments>>
    BY <1>1 DEF OrderedDates
  <1>2. ASSUME NEW q \in inflight, NEW c \in Cars, NEW s \in Days, NEW e \in Days, NEW i \in Ids,
               Books(q, c, s, e, i)
        PROVE  OrderedDates'
    BY <1>2, BooksRow DEF OrderedDates, Books, CreateReservation, ValidDates
  <1>3. ASSUME NEW i \in Ids, NEW status \in ReservationStatuses,
               NEW payment \in PaymentStatuses \cup {NoRow}, Moves(i, status, payment)
        PROVE  OrderedDates'
    BY <1>3, MovesRow DEF OrderedDates, Live
  <1> QED
    BY <1>1, <1>2, <1>3, StepCases

LEMMA StepInv == Inv /\ [Next]_vars => Inv'
  <1> SUFFICES ASSUME Inv, [Next]_vars PROVE Inv'
    OBVIOUS
  <1>1. TypeOK'
    BY TypeStep DEF Inv
  <1> QED
    BY <1>1, PaymentMatchesStatusStep, NoDoubleBookingStep, ReservedCarsExistStep,
       OrderedDatesStep DEF Inv

LEMMA Invariance == Spec => []Inv
  BY InitInv, StepInv, PTL DEF Spec

\* No two live reservations of a car ever share a day, for any number of
\* buyers, cars and days and any interleaving of their requests.
THEOREM NoDoubleBookingHolds == Spec => []NoDoubleBooking
  <1>1. Inv => NoDoubleBooking
    BY DEF Inv
  <1> QED
    BY <1>1, Invariance, PTL

\* Money is approved exactly for confirmed reservations, and no closed
\* reservation keeps a payment under review.
THEOREM PaymentMatchesStatusHolds == Spec => []PaymentMatchesStatus
  <1>1. Inv => PaymentMatchesStatus
    BY DEF Inv
  <1> QED
    BY <1>1, Invariance, PTL

\* No reservation outlives its car's row.
THEOREM ReservedCarsExistHolds == Spec => []ReservedCarsExist
  <1>1. Inv => ReservedCarsExist
    BY DEF Inv
  <1> QED
    BY <1>1, Invariance, PTL

\* Every step moves each reservation along the documented edges only.
THEOREM LegalTransitionsHolds == Spec => LegalTransitions
  <1>1. Inv /\ [Next]_vars =>
            [\A i \in Ids : View(i)' # View(i) => <<View(i), View(i)'>> \in LegalEdges]_vars
    <2> SUFFICES ASSUME Inv, [Next]_vars, NEW i \in Ids, View(i)' # View(i)
                 PROVE  <<View(i), View(i)'>> \in LegalEdges
      OBVIOUS
    <2> USE DEF Inv
    <2>1. CASE UNCHANGED <<reservations, payments>>
      BY <2>1 DEF View
    <2>2. ASSUME NEW q \in inflight, NEW c \in Cars, NEW s \in Days, NEW e \in Days, NEW j \in Ids,
                 Books(q, c, s, e, j)
          PROVE  <<View(i), View(i)'>> \in LegalEdges
      <3>1. i = j
        BY <2>2, BooksRow DEF View
      <3>2. View(i) = <<NoRow, NoRow>> /\ View(i)' = <<"pending", NoRow>>
        BY <2>2, <3>1, BooksRow DEF View, PaymentMatchesStatus
      <3> QED
        BY <3>2 DEF LegalEdges
    <2>3. ASSUME NEW j \in Ids, NEW status \in ReservationStatuses,
                 NEW payment \in PaymentStatuses \cup {NoRow}, Moves(j, status, payment)
          PROVE  <<View(i), View(i)'>> \in LegalEdges
      <3>1. i = j
        BY <2>3, MovesRow DEF View
      <3>2. View(i)' = <<status, payment>>
        BY <2>3, <3>1, MovesRow DEF View
      <3> QED
        BY <2>3, <3>1, <3>2 DEF Moves
    <2> QED
      BY <2>1, <2>2, <2>3, StepCases
  <1> QED
    BY <1>1, Invariance, PTL DEF Spec, LegalTransitions

(***************************************************************************)
(* The tables implement the calendar.  What makes the mapping well defined *)
(* is NoDoubleBooking: the day of a car has one holder to choose.          *)
(***************************************************************************)

\* A day is mapped to the reservation that holds it, and to none without one.
HolderFacts ==
    \A c \in Cars, d \in Days :
        /\ \A i \in Ids : HolderOf[<<c, d>>] = i <=> Holds(i, c, d)
        /\ HolderOf[<<c, d>>] = NoRow <=> \A i \in Ids : ~Holds(i, c, d)

LEMMA OneHolder ==
    ASSUME Inv, NEW i \in Ids, NEW j \in Ids, NEW c \in Cars, NEW d \in Days,
           Holds(i, c, d), Holds(j, c, d)
    PROVE  i = j
  <1>1. /\ reservations[i].start \in Int /\ reservations[i].end \in Int
        /\ reservations[j].start \in Int /\ reservations[j].end \in Int
        /\ d \in Int
    BY RowType DEF Inv, Holds, Live, Reservation, Days
  <1> QED
    BY <1>1 DEF Inv, Holds, NoDoubleBooking

LEMMA HolderLemma == Inv => HolderFacts
  <1> SUFFICES ASSUME Inv, NEW c \in Cars, NEW d \in Days
               PROVE  /\ \A i \in Ids : HolderOf[<<c, d>>] = i <=> Holds(i, c, d)
                      /\ HolderOf[<<c, d>>] = NoRow <=> \A i \in Ids : ~Holds(i, c, d)
    BY DEF HolderFacts
  <1>1. HolderOf[<<c, d>>] = IF \E i \in Ids : Holds(i, c, d)
                             THEN CHOOSE i \in Ids : Holds(i, c, d) ELSE NoRow
    BY DEF HolderOf
  <1>2. NoRow \notin Ids
    BY RowsAssumption
  <1>3. CASE \E i \in Ids : Holds(i, c, d)
    <2>1. /\ (CHOOSE i \in Ids : Holds(i, c, d)) \in Ids
          /\ Holds(CHOOSE i \in Ids : Holds(i, c, d), c, d)
      BY <1>3
    <2>2. HolderOf[<<c, d>>] \in Ids /\ Holds(HolderOf[<<c, d>>], c, d)
      BY <1>1, <1>3, <2>1
    <2> QED
      BY <1>2, <1>3, <2>2, OneHolder
  <1>4. CASE ~ \E i \in Ids : Holds(i, c, d)
    BY <1>1, <1>2, <1>4
  <1> QED
    BY <1>3, <1>4

\* A live reservation holds at least its first day.
LEMMA LiveHolds ==
    ASSUME Inv, NEW i \in Ids, Live(i) PROVE CalendarOf!Held(i) # {}
  <1>1. reservations[i] \in Reservation
    BY RowType DEF Inv, Live
  <1>2. /\ reservations[i].car \in Cars /\ reservations[i].start \in Days
        /\ reservations[i].start \in reservations[i].start .. reservations[i].end
    BY <1>1 DEF Inv, OrderedDates, Live, Reservation, Days
  <1>3. HolderOf[<<reservations[i].car, reservations[i].start>>] = i
    BY <1>2, HolderLemma DEF HolderFacts, Holds
  <1>4. <<reservations[i].car, reservations[i].start>> \in Cars \X Days
    BY <1>2
  <1> QED
    BY <1>3, <1>4 DEF CalendarOf!Held

(* HolderOf is determined by its value at each day of each car. *)

LEMMA KeptDays ==
    ASSUME \A k \in Cars, d \in Days : HolderOf'[<<k, d>>] = HolderOf[<<k, d>>]
    PROVE  HolderOf' = HolderOf
  <1>1. /\ HolderOf = [day \in Cars \X Days |-> HolderOf[day]]
        /\ HolderOf' = [day \in Cars \X Days |-> HolderOf'[day]]
    BY DEF HolderOf
  <1>2. ASSUME NEW day \in Cars \X Days PROVE HolderOf'[day] = HolderOf[day]
    <2>1. PICK k \in Cars, d \in Days : day = <<k, d>>
      OBVIOUS
    <2> QED
      BY <2>1
  <1> QED
    BY <1>1, <1>2

LEMMA FreedDays ==
    ASSUME NEW i \in Ids,
           \A k \in Cars, d \in Days :
               HolderOf'[<<k, d>>] = IF HolderOf[<<k, d>>] = i THEN NoRow ELSE HolderOf[<<k, d>>]
    PROVE  HolderOf' = [day \in Cars \X Days |-> IF HolderOf[day] = i THEN NoRow ELSE HolderOf[day]]
  <1> DEFINE h == [day \in Cars \X Days |-> IF HolderOf[day] = i THEN NoRow ELSE HolderOf[day]]
  <1>1. \A k \in Cars, d \in Days : HolderOf'[<<k, d>>] = h[<<k, d>>]
    OBVIOUS
  <1>2. HolderOf' = [day \in Cars \X Days |-> HolderOf'[day]]
    BY DEF HolderOf
  <1>3. h = [day \in Cars \X Days |-> h[day]]
    OBVIOUS
  <1> HIDE DEF h
  <1>4. ASSUME NEW day \in Cars \X Days PROVE HolderOf'[day] = h[day]
    <2>1. PICK k \in Cars, d \in Days : day = <<k, d>>
      OBVIOUS
    <2> QED
      BY <1>1, <2>1
  <1>5. HolderOf' = h
    BY <1>2, <1>3, <1>4
  <1> QED
    BY <1>5 DEF h

\* Every move keeps, gives back or sells the whole of one rental, and every
\* booking takes free days of one car: the API implements the calendar.
THEOREM ImplementsCalendarHolds == Spec => ImplementsCalendar
  <1>1. Init => CalendarOf!Init
    BY DEF Init, CalendarOf!Init, HolderOf, SoldIds, Holds, Live
  <1>2. Inv /\ Inv' /\ HolderFacts /\ HolderFacts' /\ [Next]_vars
            => [CalendarOf!Next]_(CalendarOf!calendar)
    <2> SUFFICES ASSUME Inv, Inv', HolderFacts, HolderFacts', [Next]_vars
                 PROVE  [CalendarOf!Next]_(CalendarOf!calendar)
      OBVIOUS
    <2>1. CASE UNCHANGED <<reservations, payments>>
      BY <2>1 DEF CalendarOf!calendar, HolderOf, SoldIds, Holds, Live
    <2>2. ASSUME NEW q \in inflight, NEW c \in Cars, NEW s \in Days, NEW e \in Days, NEW i \in Ids,
                 Books(q, c, s, e, i)
          PROVE  CalendarOf!Next
      <3>1. /\ reservations[i] = NoRow /\ reservations'[i] # NoRow
            /\ reservations'[i].car = c /\ reservations'[i].start = s /\ reservations'[i].end = e
            /\ reservations'[i].status = "pending"
            /\ \A j \in Ids \ {i} : reservations'[j] = reservations[j]
        BY <2>2, BooksRow DEF Inv
      <3>2. s <= e /\ e - s < MaxRentalDays
        BY <2>2 DEF Books, CreateReservation, ValidDates
      <3>3. \A k \in Cars, d \in Days : ~Holds(i, k, d)
        BY <3>1 DEF Holds, Live
      <3>4. \A k \in Cars, d \in Days : Holds(i, k, d)' <=> k = c /\ d \in s .. e
        BY <3>1 DEF Holds, Live
      <3>5. \A j \in Ids \ {i}, k \in Cars, d \in Days : Holds(j, k, d)' <=> Holds(j, k, d)
        BY <3>1 DEF Holds, Live
      <3>6. CalendarOf!Held(i) = {}
        BY <3>3 DEF CalendarOf!Held, HolderFacts
      <3>7. i \notin SoldIds
        BY <3>1 DEF SoldIds
      <3>8. \A d \in s .. e : HolderOf[<<c, d>>] = NoRow
        <4> SUFFICES ASSUME NEW d \in s .. e, NEW j \in Ids \ {i}, Holds(j, c, d) PROVE FALSE
          <5>1. s .. e \subseteq Days
            BY BoundsAssumption DEF Days
          <5> QED
            BY <5>1, <3>3 DEF HolderFacts
        <4>1. s \in Int /\ e \in Int
          BY DEF Days
        <4>2. reservations[j].start \in Int /\ reservations[j].end \in Int
          BY RowType DEF Inv, Holds, Live, Reservation, Days
        <4>3. ~ OverlapPredicate(reservations[j], s, e)
          BY <2>2 DEF Books, CreateReservation, Holds
        <4> QED
          BY <4>1, <4>2, <4>3 DEF Holds, OverlapPredicate
      <3>9. HolderOf' = [day \in Cars \X Days |->
                            IF day[1] = c /\ day[2] \in s .. e THEN i ELSE HolderOf[day]]
        <4>1. ASSUME NEW k \in Cars, NEW d \in Days
              PROVE  HolderOf'[<<k, d>>] = IF k = c /\ d \in s .. e THEN i ELSE HolderOf[<<k, d>>]
          <5>1. CASE k = c /\ d \in s .. e
            BY <5>1, <3>4 DEF HolderFacts
          <5>2. CASE ~(k = c /\ d \in s .. e)
            <6>1. \A j \in Ids : Holds(j, k, d)' <=> Holds(j, k, d)
              BY <5>2, <3>3, <3>4, <3>5
            <6>2. CASE \E j \in Ids : Holds(j, k, d)
              BY <6>1, <6>2, <5>2 DEF HolderFacts
            <6>3. CASE \A j \in Ids : ~Holds(j, k, d)
              BY <6>1, <6>3, <5>2 DEF HolderFacts
            <6> QED
              BY <6>2, <6>3
          <5> QED
            BY <5>1, <5>2
        <4> DEFINE h == [day \in Cars \X Days |->
                            IF day[1] = c /\ day[2] \in s .. e THEN i ELSE HolderOf[day]]
        <4>2. \A k \in Cars, d \in Days : HolderOf'[<<k, d>>] = h[<<k, d>>]
          BY <4>1
        <4>3. HolderOf' = [day \in Cars \X Days |-> HolderOf'[day]]
          BY DEF HolderOf
        <4>4. h = [day \in Cars \X Days |-> h[day]]
          OBVIOUS
        <4> HIDE DEF h
        <4>5. ASSUME NEW day \in Cars \X Days PROVE HolderOf'[day] = h[day]
          <5>1. PICK k \in Cars, d \in Days : day = <<k, d>>
            OBVIOUS
          <5> QED
            BY <4>2, <5>1
        <4>6. HolderOf' = h
          BY <4>3, <4>4, <4>5
        <4> QED
          BY <4>6 DEF h
      <3>10. SoldIds' = SoldIds
        BY <3>1 DEF SoldIds
      <3>11. CalendarOf!Take(i, c, s, e)
        BY <3>2, <3>6, <3>7, <3>8, <3>9, <3>10 DEF CalendarOf!Take
      <3> QED
        BY <3>11 DEF CalendarOf!Next
    <2>3. ASSUME NEW i \in Ids, NEW status \in ReservationStatuses,
                 NEW payment \in PaymentStatuses \cup {NoRow}, Moves(i, status, payment)
          PROVE  [CalendarOf!Next]_(CalendarOf!calendar)
      <3>1. /\ Live(i) /\ reservations[i].status # "confirmed"
            /\ reservations[i] # NoRow /\ reservations'[i] # NoRow
            /\ reservations'[i].car = reservations[i].car
            /\ reservations'[i].start = reservations[i].start
            /\ reservations'[i].end = reservations[i].end
            /\ reservations'[i].status = status
            /\ \A j \in Ids \ {i} : reservations'[j] = reservations[j]
        BY <2>3, MovesRow DEF Inv, Live
      <3>2. \A j \in Ids \ {i}, k \in Cars, d \in Days : Holds(j, k, d)' <=> Holds(j, k, d)
        BY <3>1 DEF Holds, Live
      <3>3. \A k \in Cars, d \in Days :
               Holds(i, k, d)' <=> Holds(i, k, d) /\ status \notin {"cancelled", "rejected"}
        BY <3>1 DEF Holds, Live
      <3>4. CalendarOf!Held(i) # {} /\ i \notin SoldIds
        BY <3>1, LiveHolds DEF SoldIds
      <3>5. CASE status \in {"cancelled", "rejected"}
        <4>1. SoldIds' = SoldIds
          BY <3>1, <3>5 DEF SoldIds
        <4>2. HolderOf' = [day \in Cars \X Days |->
                              IF HolderOf[day] = i THEN NoRow ELSE HolderOf[day]]
          <5>0. ASSUME NEW k \in Cars, NEW d \in Days
                PROVE  HolderOf'[<<k, d>>] = IF HolderOf[<<k, d>>] = i THEN NoRow
                                             ELSE HolderOf[<<k, d>>]
            <6>1. ~Holds(i, k, d)'
              BY <3>3, <3>5
            <6>2. CASE \E j \in Ids : Holds(j, k, d)
              BY <6>1, <6>2, <3>2 DEF HolderFacts
            <6>3. CASE \A j \in Ids : ~Holds(j, k, d)
              BY <6>1, <6>3, <3>2 DEF HolderFacts
            <6> QED
              BY <6>2, <6>3
          <5> QED
            BY <5>0, FreedDays
        <4> QED
          BY <3>4, <4>1, <4>2 DEF CalendarOf!GiveBack, CalendarOf!Next
      <3>6. CASE status \notin {"cancelled", "rejected"}
        <4>1. HolderOf' = HolderOf
          <5>0. ASSUME NEW k \in Cars, NEW d \in Days
                PROVE  HolderOf'[<<k, d>>] = HolderOf[<<k, d>>]
            <6>1. \A j \in Ids : Holds(j, k, d)' <=> Holds(j, k, d)
              BY <3>2, <3>3, <3>6
            <6>2. CASE \E j \in Ids : Holds(j, k, d)
              BY <6>1, <6>2 DEF HolderFacts
            <6>3. CASE \A j \in Ids : ~Holds(j, k, d)
              BY <6>1, <6>3 DEF HolderFacts
            <6> QED
              BY <6>2, <6>3
          <5> QED
            BY <5>0, KeptDays
        <4>2. CASE status = "confirmed"
          <5>1. SoldIds' = SoldIds \cup {i}
            BY <3>1, <4>2 DEF SoldIds
          <5> QED
            BY <3>4, <4>1, <5>1 DEF CalendarOf!Sell, CalendarOf!Next
        <4>3. CASE status # "confirmed"
          <5>1. SoldIds' = SoldIds
            BY <3>1, <4>3 DEF SoldIds
          <5> QED
            BY <4>1, <5>1 DEF CalendarOf!calendar
        <4> QED
          BY <4>2, <4>3
      <3> QED
        BY <3>5, <3>6
    <2> QED
      BY <2>1, <2>2, <2>3, StepCases DEF Inv
  <1> QED
    BY <1>1, <1>2, HolderLemma, Invariance, PTL
    DEF Spec, ImplementsCalendar, CalendarOf!Spec
=============================================================================
