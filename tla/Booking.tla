------------------------------ MODULE Booking ------------------------------
(***************************************************************************)
(* The reservation flow of the API: cars are listed by sellers, booked by  *)
(* buyers, accepted or rejected by the owner, paid, and confirmed or sent  *)
(* back for correction by an administrator.                                *)
(*                                                                         *)
(* Every handler that writes does so in one statement or in one BEGIN      *)
(* IMMEDIATE transaction (db.WithImmediateTx), so it is one action here.   *)
(* What is NOT in that transaction is a step of its own: RequireAuth reads *)
(* the caller's roles before the handler starts, and CreateReservation     *)
(* compares the start date with the current day before it opens its        *)
(* transaction.  A request therefore acts on a snapshot, kept in inflight, *)
(* that other requests or midnight may have made stale.                    *)
(***************************************************************************)
EXTENDS Integers, FiniteSets

CONSTANTS
    Users,          \* accounts; every one holds the buyer role (Register)
    Admins,         \* accounts holding the admin role (ADMIN_EMAILS)
    InitSellers,    \* accounts holding the seller role at the start
    Reachable,      \* accounts with a phone number, on file or to give
    Cars,           \* car ids
    Ids,            \* reservation ids
    LastDay,        \* bound: the calendar is 0..LastDay
    MaxRentalDays,  \* handlers/dates.go maxRentalDays (30 in the code)
    MaxInflight,    \* bound: distinct request snapshots in flight at once
    MaxRounds,      \* bound: correction rounds of one reservation
    NoRow,          \* a row that was never inserted
    Deleted         \* a car row that was deleted (AUTOINCREMENT: not reused)

ASSUME AccountsAssumption ==
    Admins \subseteq Users /\ InitSellers \subseteq Reachable /\ Reachable \subseteq Users

ASSUME BoundsAssumption ==
    LastDay \in Nat /\ MaxRentalDays \in Nat /\ MaxRounds \in Nat /\ MaxInflight \in Nat

Days == 0 .. LastDay

ReservationStatuses == {"pending", "accepted", "confirmed", "rejected", "cancelled"}

PaymentStatuses == {"pending", "approved", "rejected"}

Kinds == {"requested", "accepted", "rejected", "confirmed", "cancelled",
          "correction_requested", "correction_submitted"}

Roles == {"buyer", "seller", "admin"}

AuditActions == {"user.role_grant_seller", "user.role_revoke_seller",
                 "car.update", "car.delete",
                 "reservation.accept", "reservation.reject", "reservation.cancel",
                 "reservation.confirm", "reservation.request_correction"}

Car == [owner : Users, active : BOOLEAN]

Reservation == [buyer : Users, car : Cars, start : Days, end : Days,
                status : ReservationStatuses]

\* A request that passed RequireAuth: the user with the roles it had, and the day.
Request == [user : Users, roles : SUBSET Roles, day : Days]

\* The rows that repeat an earlier one about a reservation stand as one row,
\* again; a repeated row about a car or a user is not told from the first.
AuditRow == [actor : Users, action : AuditActions, target : Users \cup Cars \cup Ids,
             again : BOOLEAN]

\* NoRow and Deleted stand for the absence of a row.
ASSUME RowsAssumption == /\ NoRow \notin Car \cup Reservation \cup ReservationStatuses \cup PaymentStatuses \cup Ids
                         /\ Deleted \notin Car \cup {NoRow}

VARIABLES
    sellers,        \* user_roles rows with role seller
    cars,           \* cars table
    reservations,   \* reservations table
    payments,       \* payments table, UNIQUE(reservation_id): status by reservation
    notifications,  \* number of notification rows by <<user, kind, reservation>>
    audit,          \* admin_audit_log: the rows, repeated ones told apart
    inflight,       \* snapshots of the requests being handled
    today           \* todayStr(): the day in the business time zone

vars == <<sellers, cars, reservations, payments, notifications, audit, inflight, today>>

Init ==
    /\ sellers = InitSellers
    /\ cars = [c \in Cars |-> NoRow]
    /\ reservations = [i \in Ids |-> NoRow]
    /\ payments = [i \in Ids |-> NoRow]
    /\ notifications = [n \in Users \X Kinds \X Ids |-> 0]
    /\ audit = {}
    /\ inflight = {}
    /\ today = 0

(***************************************************************************)
(* What the queries of the handlers ask of the tables.                     *)
(***************************************************************************)

Listed(c) == cars[c] \notin {NoRow, Deleted}

OwnerOf(i) == cars[reservations[i].car].owner

\* status NOT IN (cancelled, rejected): the rows that block dates.
Live(i) == reservations[i] # NoRow /\ reservations[i].status \notin {"cancelled", "rejected"}

\* Mutant: ranges that share only their last or first day do not overlap.
OverlapPredicate_Exclusive(r, s, e) == r.start < e /\ r.end > s

\* db.OverlapPredicate against the inclusive range s..e.
OverlapPredicate(r, s, e) == r.start <= e /\ r.end >= s

\* Mutant: a reservation that ends today is taken for a past one.
HasFuture_AfterToday(c) == \E i \in Ids : /\ Live(i)
                                          /\ reservations[i].car = c
                                          /\ reservations[i].end > today

\* A live reservation of the car that ends today or later.
HasFuture(c) == \E i \in Ids : /\ Live(i)
                               /\ reservations[i].car = c
                               /\ reservations[i].end >= today

UserRoles(u) == {"buyer"} \cup (IF u \in sellers THEN {"seller"} ELSE {})
                         \cup (IF u \in Admins THEN {"admin"} ELSE {})

\* The route's role is looked for in the snapshot, not in the table.
RequireRole(q, role) == role \in q.roles

\* Mutant: one row per recipient group, so a user in two groups gets two.
notifyUsers_PerGroup(groups, kind, i) ==
    notifications' = [n \in Users \X Kinds \X Ids |->
        IF n[2] = kind /\ n[3] = i
        THEN notifications[n] + Cardinality({k \in DOMAIN groups : n[1] \in groups[k]})
        ELSE notifications[n]]

\* One row per distinct user of the recipient groups the handler appends.
notifyUsers(groups, kind, i) ==
    notifications' = [n \in Users \X Kinds \X Ids |->
        IF n[2] = kind /\ n[3] = i /\ \E k \in DOMAIN groups : n[1] \in groups[k]
        THEN notifications[n] + 1 ELSE notifications[n]]

auditAction(actor, action, target) ==
    LET Row(again) == [actor |-> actor, action |-> action, target |-> target, again |-> again]
    IN audit' = audit \cup {Row(target \in Ids /\ Row(FALSE) \in audit)}

SetStatus(i, status) == reservations' = [reservations EXCEPT ![i].status = status]

(***************************************************************************)
(* Requests and the calendar.                                              *)
(***************************************************************************)

\* RequireAuth lets a request in.  Suspension and tokens, which only keep
\* requests out, are not modelled here.
RequireAuth(u) ==
    /\ inflight' = inflight \cup {[user |-> u, roles |-> UserRoles(u), day |-> today]}
    /\ Cardinality(inflight') <= MaxInflight
    /\ UNCHANGED <<sellers, cars, reservations, payments, notifications, audit, today>>

\* The last request with this snapshot has been answered, or died with the process.
Respond(q) ==
    /\ inflight' = inflight \ {q}
    /\ UNCHANGED <<sellers, cars, reservations, payments, notifications, audit, today>>

\* Midnight.  The server's timeouts are minutes, so no request lives two of them.
NextDay ==
    /\ today < LastDay
    /\ \A q \in inflight : q.day = today
    /\ today' = today + 1
    /\ UNCHANGED <<sellers, cars, reservations, payments, notifications, audit, inflight>>

(***************************************************************************)
(* The catalogue.                                                          *)
(***************************************************************************)

CreateCar(q, c) ==
    /\ RequireRole(q, "seller")
    /\ cars[c] = NoRow
    /\ cars' = [cars EXCEPT ![c] = [owner |-> q.user, active |-> TRUE]]
    /\ UNCHANGED <<sellers, reservations, payments, notifications, audit, inflight, today>>

\* The owner cannot take a car with future bookings off the catalogue.
PatchCar(q, c, active) ==
    /\ RequireRole(q, "seller")
    /\ Listed(c)
    /\ cars[c].owner = q.user
    /\ ~active => ~HasFuture(c)
    /\ cars' = [cars EXCEPT ![c].active = active]
    /\ UNCHANGED <<sellers, reservations, payments, notifications, audit, inflight, today>>

\* The administrator can, deliberately.
AdminPatchCar(q, c, active) ==
    /\ RequireRole(q, "admin")
    /\ Listed(c)
    /\ cars' = [cars EXCEPT ![c].active = active]
    /\ auditAction(q.user, "car.update", c)
    /\ UNCHANGED <<sellers, reservations, payments, notifications, inflight, today>>

\* Mutant: a closed reservation does not keep its car.
NeverReserved_LiveOnly(c) == \A i \in Ids : Live(i) => reservations[i].car # c

NeverReserved(c) == \A i \in Ids : reservations[i] # NoRow => reservations[i].car # c

DeleteCar(q, c) ==
    /\ RequireRole(q, "seller")
    /\ Listed(c)
    /\ cars[c].owner = q.user
    /\ NeverReserved(c)
    /\ cars' = [cars EXCEPT ![c] = Deleted]
    /\ UNCHANGED <<sellers, reservations, payments, notifications, audit, inflight, today>>

AdminDeleteCar(q, c) ==
    /\ RequireRole(q, "admin")
    /\ Listed(c)
    /\ NeverReserved(c)
    /\ cars' = [cars EXCEPT ![c] = Deleted]
    /\ auditAction(q.user, "car.delete", c)
    /\ UNCHANGED <<sellers, reservations, payments, notifications, inflight, today>>

(***************************************************************************)
(* The seller role.                                                        *)
(***************************************************************************)

GrantSeller(q, u) ==
    /\ RequireRole(q, "admin")
    /\ u \in Reachable \ sellers
    /\ sellers' = sellers \cup {u}
    /\ auditAction(q.user, "user.role_grant_seller", u)
    /\ UNCHANGED <<cars, reservations, payments, notifications, inflight, today>>

\* The owner's cars stay listed and active.
RevokeSeller(q, u) ==
    /\ RequireRole(q, "admin")
    /\ u \in sellers
    /\ \A c \in Cars : Listed(c) /\ cars[c].owner = u => ~HasFuture(c)
    /\ sellers' = sellers \ {u}
    /\ auditAction(q.user, "user.role_revoke_seller", u)
    /\ UNCHANGED <<cars, reservations, payments, notifications, inflight, today>>

AdminPatchUserRoles(q, u) == GrantSeller(q, u) \/ RevokeSeller(q, u)

\* Any account with a phone may take the role itself, again after a revocation.
\* A caller whose snapshot has the role changes only the phone, also when the
\* role was revoked since.  The route asks for no role.
BecomeSeller(q) ==
    /\ "seller" \notin q.roles
    /\ q.user \in Reachable
    /\ sellers' = sellers \cup {q.user}
    /\ UNCHANGED <<cars, reservations, payments, notifications, audit, inflight, today>>

(***************************************************************************)
(* The reservation flow.                                                   *)
(***************************************************************************)

\* Mutant: the days are not counted inclusively.
ValidDates_OneMore(q, s, e) == s <= e /\ e - s <= MaxRentalDays /\ s >= q.day

\* The dates the handler lets through: ordered, at most MaxRentalDays days
\* counted inclusively, and not before the day on which the request came in.
ValidDates(q, s, e) == s <= e /\ e - s < MaxRentalDays /\ s >= q.day

CreateReservation(q, c, s, e, i) ==
    /\ RequireRole(q, "buyer")
    /\ ValidDates(q, s, e)
    /\ Listed(c)
    /\ cars[c].active
    /\ ~ \E j \in Ids : /\ Live(j)
                        /\ reservations[j].car = c
                        /\ OverlapPredicate(reservations[j], s, e)
    /\ reservations[i] = NoRow
    /\ reservations' = [reservations EXCEPT ![i] =
           [buyer |-> q.user, car |-> c, start |-> s, end |-> e, status |-> "pending"]]
    /\ notifyUsers(<<Admins, {cars[c].owner}>>, "requested", i)
    /\ UNCHANGED <<sellers, cars, payments, audit, inflight, today>>

\* Mutant: the buyer may also cancel an accepted reservation.
CancelReservation_Accepted(q, i) ==
    /\ RequireRole(q, "buyer")
    /\ reservations[i] # NoRow
    /\ reservations[i].buyer = q.user
    /\ reservations[i].status \in {"pending", "accepted"}
    /\ payments[i] = NoRow
    /\ SetStatus(i, "cancelled")
    /\ auditAction(q.user, "reservation.cancel", i)
    /\ notifyUsers(<<{OwnerOf(i)}>>, "cancelled", i)
    /\ UNCHANGED <<sellers, cars, payments, inflight, today>>

\* Only while nobody has answered the request and nothing has been paid.
CancelReservation(q, i) ==
    /\ RequireRole(q, "buyer")
    /\ reservations[i] # NoRow
    /\ reservations[i].buyer = q.user
    /\ reservations[i].status = "pending"
    /\ payments[i] = NoRow
    /\ SetStatus(i, "cancelled")
    /\ auditAction(q.user, "reservation.cancel", i)
    /\ notifyUsers(<<{OwnerOf(i)}>>, "cancelled", i)
    /\ UNCHANGED <<sellers, cars, payments, inflight, today>>

\* The first payment, before or after the owner's answer; it announces nothing.
RecordPayment(q, i) ==
    /\ RequireRole(q, "buyer")
    /\ reservations[i] # NoRow
    /\ reservations[i].buyer = q.user
    /\ reservations[i].status \in {"pending", "accepted"}
    /\ payments[i] = NoRow
    /\ payments' = [payments EXCEPT ![i] = "pending"]
    /\ UNCHANGED <<sellers, cars, reservations, notifications, audit, inflight, today>>

\* Mutant: the administrators are not told that a proof was resubmitted.
ResubmitPayment_Silent(q, i) ==
    /\ RequireRole(q, "buyer")
    /\ reservations[i] # NoRow
    /\ reservations[i].buyer = q.user
    /\ reservations[i].status = "accepted"
    /\ payments[i] = "rejected"
    /\ payments' = [payments EXCEPT ![i] = "pending"]
    /\ UNCHANGED <<sellers, cars, reservations, notifications, audit, inflight, today>>

\* The same endpoint after a correction was requested.
ResubmitPayment(q, i) ==
    /\ RequireRole(q, "buyer")
    /\ reservations[i] # NoRow
    /\ reservations[i].buyer = q.user
    /\ reservations[i].status = "accepted"
    /\ payments[i] = "rejected"
    /\ payments' = [payments EXCEPT ![i] = "pending"]
    /\ notifyUsers(<<Admins>>, "correction_submitted", i)
    /\ UNCHANGED <<sellers, cars, reservations, audit, inflight, today>>

\* Mutant: a repeated request is answered as the first was, and logged again.
AcceptReservation_Repeats(q, i) ==
    /\ RequireRole(q, "seller")
    /\ reservations[i] # NoRow
    /\ OwnerOf(i) = q.user
    /\ reservations[i].status \in {"pending", "accepted"}
    /\ SetStatus(i, "accepted")
    /\ auditAction(q.user, "reservation.accept", i)
    /\ IF reservations[i].status = "accepted" THEN UNCHANGED notifications
       ELSE notifyUsers(<<{reservations[i].buyer}>>, "accepted", i)
    /\ UNCHANGED <<sellers, cars, payments, inflight, today>>

AcceptReservation(q, i) ==
    /\ RequireRole(q, "seller")
    /\ reservations[i] # NoRow
    /\ OwnerOf(i) = q.user
    /\ reservations[i].status = "pending"
    /\ SetStatus(i, "accepted")
    /\ auditAction(q.user, "reservation.accept", i)
    /\ notifyUsers(<<{reservations[i].buyer}>>, "accepted", i)
    /\ UNCHANGED <<sellers, cars, payments, inflight, today>>

\* Mutant: the payment under review is left behind.
RejectReservation_KeepsPayment(q, i) ==
    /\ RequireRole(q, "seller")
    /\ reservations[i] # NoRow
    /\ OwnerOf(i) = q.user
    /\ reservations[i].status = "pending"
    /\ SetStatus(i, "rejected")
    /\ auditAction(q.user, "reservation.reject", i)
    /\ notifyUsers(<<Admins, {reservations[i].buyer}>>, "rejected", i)
    /\ UNCHANGED <<sellers, cars, payments, inflight, today>>

\* A payment still pending is rejected with the reservation.
RejectReservation(q, i) ==
    /\ RequireRole(q, "seller")
    /\ reservations[i] # NoRow
    /\ OwnerOf(i) = q.user
    /\ reservations[i].status = "pending"
    /\ payments' = [payments EXCEPT ![i] = IF @ = "pending" THEN "rejected" ELSE @]
    /\ SetStatus(i, "rejected")
    /\ auditAction(q.user, "reservation.reject", i)
    /\ notifyUsers(<<Admins, {reservations[i].buyer}>>, "rejected", i)
    /\ UNCHANGED <<sellers, cars, inflight, today>>

\* Mutant: the reservation is given the payment's status.
AdminConfirmReservation_Approved(q, i) ==
    /\ RequireRole(q, "admin")
    /\ reservations[i] # NoRow
    /\ reservations[i].status = "accepted"
    /\ payments[i] = "pending"
    /\ payments' = [payments EXCEPT ![i] = "approved"]
    /\ SetStatus(i, "approved")
    /\ auditAction(q.user, "reservation.confirm", i)
    /\ notifyUsers(<<Admins, {reservations[i].buyer}, {OwnerOf(i)}>>, "confirmed", i)
    /\ UNCHANGED <<sellers, cars, inflight, today>>

AdminConfirmReservation(q, i) ==
    /\ RequireRole(q, "admin")
    /\ reservations[i] # NoRow
    /\ reservations[i].status = "accepted"
    /\ payments[i] = "pending"
    /\ payments' = [payments EXCEPT ![i] = "approved"]
    /\ SetStatus(i, "confirmed")
    /\ auditAction(q.user, "reservation.confirm", i)
    /\ notifyUsers(<<Admins, {reservations[i].buyer}, {OwnerOf(i)}>>, "confirmed", i)
    /\ UNCHANGED <<sellers, cars, inflight, today>>

\* The payment goes back to the buyer; the reservation keeps its dates.
AdminRequestCorrection(q, i) ==
    /\ RequireRole(q, "admin")
    /\ reservations[i] # NoRow
    /\ reservations[i].status = "accepted"
    /\ payments[i] = "pending"
    /\ notifications[<<reservations[i].buyer, "correction_requested", i>>] < MaxRounds
    /\ payments' = [payments EXCEPT ![i] = "rejected"]
    /\ auditAction(q.user, "reservation.request_correction", i)
    /\ notifyUsers(<<{reservations[i].buyer}>>, "correction_requested", i)
    /\ UNCHANGED <<sellers, cars, reservations, inflight, today>>

ReservationStep(q, i) ==
    \/ \E c \in Cars, s, e \in Days : CreateReservation(q, c, s, e, i)
    \/ CancelReservation(q, i)
    \/ RecordPayment(q, i)
    \/ ResubmitPayment(q, i)
    \/ AcceptReservation(q, i)
    \/ RejectReservation(q, i)
    \/ AdminConfirmReservation(q, i)
    \/ AdminRequestCorrection(q, i)

CarStep(q, c) ==
    \/ CreateCar(q, c)
    \/ \E active \in BOOLEAN : PatchCar(q, c, active) \/ AdminPatchCar(q, c, active)
    \/ DeleteCar(q, c)
    \/ AdminDeleteCar(q, c)

Next ==
    \/ \E u \in Users : RequireAuth(u)
    \/ \E q \in inflight : \/ Respond(q)
                           \/ \E c \in Cars : CarStep(q, c)
                           \/ \E u \in Users : AdminPatchUserRoles(q, u)
                           \/ BecomeSeller(q)
                           \/ \E i \in Ids : ReservationStep(q, i)
    \/ NextDay

Spec == Init /\ [][Next]_vars

(***************************************************************************)
(* Properties.                                                             *)
(***************************************************************************)

\* Every table holds rows of its own shape.
TypeOK ==
    /\ sellers \subseteq Users
    /\ cars \in [Cars -> Car \cup {NoRow, Deleted}]
    /\ reservations \in [Ids -> Reservation \cup {NoRow}]
    /\ payments \in [Ids -> PaymentStatuses \cup {NoRow}]
    /\ notifications \in [Users \X Kinds \X Ids -> Nat]
    /\ audit \subseteq AuditRow
    /\ inflight \subseteq Request
    /\ today \in Days

\* No two live reservations of one car share a day, whatever requests raced
\* for it (the overlap query of CreateReservation, under BEGIN IMMEDIATE).
NoDoubleBooking ==
    \A i, j \in Ids :
        Live(i) /\ Live(j) /\ i # j /\ reservations[i].car = reservations[j].car
            => \/ reservations[i].end < reservations[j].start
               \/ reservations[j].end < reservations[i].start

\* The payment row agrees with the reservation row after any sequence of
\* payments, corrections and answers: money is approved exactly for confirmed
\* reservations, a cancelled reservation never holds a payment, and a closed
\* one never holds a payment still to be reviewed.
PaymentMatchesStatus ==
    \A i \in Ids :
        IF reservations[i] = NoRow THEN payments[i] = NoRow
        ELSE payments[i] \in CASE reservations[i].status = "pending"   -> {NoRow, "pending"}
                               [] reservations[i].status = "accepted"  -> {NoRow, "pending", "rejected"}
                               [] reservations[i].status = "confirmed" -> {"approved"}
                               [] reservations[i].status = "rejected"  -> {NoRow, "rejected"}
                               [] reservations[i].status = "cancelled" -> {NoRow}

\* The reservation's car row is still there, so the JOINs of every handler
\* and view find it (DeleteCar and AdminDeleteCar against CreateReservation).
ReservedCarsExist == \A i \in Ids : reservations[i] # NoRow => Listed(reservations[i].car)

\* What the audit log says of an action on a car or a reservation.
Entries(action, target) == {row \in audit : row.action = action /\ row.target = target}

\* The log explains the status: one row, of the owner, answered it; one of the
\* buyer cancelled it; one of an administrator confirmed it after the owner's
\* yes.  Repeated and crossing requests log no decision twice, and no decision
\* is logged that the status does not show.
DecisionsAudited ==
    \A i \in Ids :
        LET status == IF reservations[i] = NoRow THEN "none" ELSE reservations[i].status
            By(action, actors, statuses) ==
                IF status \in statuses
                THEN \E row \in Entries(action, i) :
                        Entries(action, i) = {row} /\ row.actor \in actors /\ ~row.again
                ELSE Entries(action, i) = {}
        IN /\ By("reservation.accept", {OwnerOf(i)}, {"accepted", "confirmed"})
           /\ By("reservation.reject", {OwnerOf(i)}, {"rejected"})
           /\ By("reservation.cancel", {reservations[i].buyer}, {"cancelled"})
           /\ By("reservation.confirm", Admins, {"confirmed"})

\* Each decision is announced once to each of its recipients, also to one who
\* is owner, buyer and administrator at a time, and to nobody else.
AnnouncedOnce ==
    \A i \in Ids, u \in Users :
        LET Sent(kind) == notifications[<<u, kind, i>>]
            Once(b) == IF b THEN 1 ELSE 0
            r == reservations[i]
        IN IF r = NoRow THEN \A kind \in Kinds : Sent(kind) = 0
           ELSE /\ Sent("requested") = Once(u \in Admins \/ u = OwnerOf(i))
                /\ Sent("accepted") = Once(r.status \in {"accepted", "confirmed"} /\ u = r.buyer)
                /\ Sent("rejected") =
                      Once(r.status = "rejected" /\ (u \in Admins \/ u = r.buyer))
                /\ Sent("cancelled") = Once(r.status = "cancelled" /\ u = OwnerOf(i))
                /\ Sent("confirmed") =
                      Once(r.status = "confirmed" /\ (u \in Admins \/ u \in {r.buyer, OwnerOf(i)}))

\* Every correction asked of the buyer is answered to every administrator
\* before the next one is asked: the buyer is one round ahead exactly while
\* the payment is out for correction.
CorrectionsAnswered ==
    \A i \in Ids : reservations[i] # NoRow =>
        \A a \in Admins :
            notifications[<<reservations[i].buyer, "correction_requested", i>>]
                - notifications[<<a, "correction_submitted", i>>]
            = IF reservations[i].status = "accepted" /\ payments[i] = "rejected" THEN 1 ELSE 0

\* A car with future bookings is off the catalogue only if an administrator
\* overrode the owner's guard (PatchCar against CreateReservation).
InactiveOnlyByOverride ==
    \A i \in Ids :
        Live(i) /\ reservations[i].end >= today /\ ~cars[reservations[i].car].active
            => Entries("car.update", reservations[i].car) # {}

\* Documented of AdminPatchUserRoles: revoking the role leaves no booking
\* with no one to accept or reject it.
NoStrandedReservation ==
    \A i \in Ids : Live(i) /\ reservations[i].end >= today => OwnerOf(i) \in sellers

\* A reservation as its clients see it: status and payment status.
View(i) == <<IF reservations[i] = NoRow THEN NoRow ELSE reservations[i].status, payments[i]>>

\* The transition table of docs/architecture.md together with the payment's
\* own: whatever the order of the requests, a reservation moves along these
\* edges only, so a closed one never moves and an accepted one is never lost.
LegalEdges ==
    {<<<<NoRow, NoRow>>, <<"pending", NoRow>>>>,
     <<<<"pending", NoRow>>, <<"pending", "pending">>>>,
     <<<<"pending", NoRow>>, <<"cancelled", NoRow>>>>,
     <<<<"pending", NoRow>>, <<"accepted", NoRow>>>>,
     <<<<"pending", NoRow>>, <<"rejected", NoRow>>>>,
     <<<<"pending", "pending">>, <<"accepted", "pending">>>>,
     <<<<"pending", "pending">>, <<"rejected", "rejected">>>>,
     <<<<"accepted", NoRow>>, <<"accepted", "pending">>>>,
     <<<<"accepted", "pending">>, <<"accepted", "rejected">>>>,
     <<<<"accepted", "rejected">>, <<"accepted", "pending">>>>,
     <<<<"accepted", "pending">>, <<"confirmed", "approved">>>>}

LegalTransitions ==
    [][\A i \in Ids : View(i)' # View(i) => <<View(i), View(i)'>> \in LegalEdges]_vars

\* The live reservation that holds a day of a car.
Holds(i, c, d) == Live(i) /\ reservations[i].car = c
                  /\ d \in reservations[i].start .. reservations[i].end

HolderOf == [day \in Cars \X Days |->
    IF \E i \in Ids : Holds(i, day[1], day[2])
    THEN CHOOSE i \in Ids : Holds(i, day[1], day[2]) ELSE NoRow]

SoldIds == {i \in Ids : reservations[i] # NoRow /\ reservations[i].status = "confirmed"}

\* The reservation tables implement the calendar: every handler takes, gives
\* back or sells whole rentals, or leaves every day with its holder.
CalendarOf == INSTANCE Calendar
    WITH Rentals <- Ids, Free <- NoRow, holder <- HolderOf, sold <- SoldIds

ImplementsCalendar == CalendarOf!Spec
=============================================================================
