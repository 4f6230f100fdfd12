--------------------------- MODULE AccountsProofs ---------------------------
(***************************************************************************)
(* Theorems about Accounts, for any accounts and allow-lists.  The         *)
(* inductive invariant adds to the type invariant and to AdminsFollowList  *)
(* that a snapshot's administrator still is one: the role is taken away    *)
(* only by a restart, which no snapshot survives.                          *)
(***************************************************************************)
EXTENDS Accounts, TLAPS

\* Who was let in as an administrator holds the role as long as the request
\* lives (RequireAuth against SyncAdminRoles).
SnapshotsHold == \A q \in inflight : RequireRole(q, "admin") => q.user \in admins

Inv == TypeOK /\ AdminsFollowList /\ SnapshotsHold

\* The initial tables are empty and no request is in flight.
LEMMA InitInv == Init => Inv
  BY ListsAssumption DEF Init, Inv, TypeOK, AdminsFollowList, SnapshotsHold, AuditActions

\* One row is appended to the log of one account.
LEMMA AuditType ==
  ASSUME NEW action \in AuditActions, NEW u \in Users,
         audit \in [Users -> Seq(AuditActions)],
         auditAction(action, u)
  PROVE  audit' \in [Users -> Seq(AuditActions)]
  BY DEF auditAction

\* The roles of a snapshot are roles, and an administrator's among them only
\* if it has the row.
LEMMA RolesOf ==
  ASSUME NEW u
  PROVE  UserRoles(u) \subseteq Roles /\ ("admin" \in UserRoles(u) => u \in admins)
  BY DEF UserRoles, Roles

LEMMA StepInv == Inv /\ [Next]_vars => Inv'
<1> SUFFICES ASSUME Inv, [Next]_vars
             PROVE  Inv'
  OBVIOUS
<1> USE DEF Inv, TypeOK, AdminsFollowList, SnapshotsHold, RequireRole
<1>1. CASE \E list \in Lists : Restart(list)
  BY <1>1, ListsAssumption DEF Restart, SyncAdminRoles
<1>2. ASSUME NEW u \in Users, NEW phone \in BOOLEAN, Register(u, phone)
      PROVE  Inv'
  BY <1>2, ListsAssumption DEF Register
<1>3. ASSUME NEW u \in Users, userByID(u)
      PROVE  Inv'
  BY <1>3 DEF userByID, rows
<1>4. ASSUME NEW u \in Users, RequireAuth(u)
      PROVE  Inv'
  <2>1. inflight' = inflight \cup {[user |-> u, roles |-> UserRoles(u)]}
    BY <1>4 DEF RequireAuth
  <2>2. UNCHANGED <<allowList, rows>> /\ loading' \subseteq loading /\ u \in registered
    BY <1>4 DEF RequireAuth
  <2> QED BY <2>1, <2>2, RolesOf DEF rows
<1>5. ASSUME NEW q \in inflight, Handle(q)
      PROVE  Inv'
  <2> q.user \in registered /\ q.user \in Users
    OBVIOUS
  <2>1. CASE Respond(q)
    BY <2>1 DEF Respond, rows
  <2>2. ASSUME NEW phone \in BOOLEAN, UpdateMe(q, phone)
        PROVE  Inv'
    BY <2>2 DEF UpdateMe
  <2>3. CASE BecomeSeller(q)
    BY <2>3 DEF BecomeSeller
  <2>4. ASSUME NEW u \in Users, NEW suspend \in BOOLEAN, AdminPatchUser(q, u, suspend)
        PROVE  Inv'
    <3>1. audit' \in [Users -> Seq(AuditActions)]
      BY <2>4, AuditType DEF AdminPatchUser, AuditActions
    <3> QED BY <2>4, <3>1 DEF AdminPatchUser
  <2>5. ASSUME NEW u \in Users, AdminPatchUserRoles(q, u)
        PROVE  Inv'
    <3>1. audit' \in [Users -> Seq(AuditActions)]
      BY <2>5, AuditType DEF AdminPatchUserRoles, GrantSeller, RevokeSeller, AuditActions
    <3> QED BY <2>5, <3>1 DEF AdminPatchUserRoles, GrantSeller, RevokeSeller
  <2> QED BY <1>5, <2>1, <2>2, <2>3, <2>4, <2>5 DEF Handle
<1>6. CASE UNCHANGED vars
  BY <1>6 DEF vars, rows
<1> QED BY <1>1, <1>2, <1>3, <1>4, <1>5, <1>6 DEF Next

\* Every reachable state satisfies the inductive invariant.
THEOREM Invariance == Spec => []Inv
  BY InitInv, StepInv, PTL DEF Spec

\* Tables and requests are well typed, for any accounts and lists.
THEOREM TypeCorrect == Spec => []TypeOK
  BY Invariance, PTL DEF Inv

\* The list of the running process is the single source of the admin role.
THEOREM AdminsFollowListHolds == Spec => []AdminsFollowList
  BY Invariance, PTL DEF Inv

\* A step that makes a seller without a phone is a request of its own, let in
\* before it was a seller.
LEMMA PhonelessStep ==
  ASSUME Inv, [Next]_vars, NEW u \in Phoneless' \ Phoneless
  PROVE  u \in sellers /\ HasStaleRequest(u)
<1> USE DEF Inv, TypeOK, Phoneless
<1>1. ASSUME NEW v \in Users, NEW phone \in BOOLEAN, Register(v, phone)
      PROVE  FALSE
  BY <1>1 DEF Register
<1>2. ASSUME NEW q \in inflight, BecomeSeller(q)
      PROVE  FALSE
  BY <1>2 DEF BecomeSeller
<1>3. ASSUME NEW q \in inflight, NEW v \in Users, AdminPatchUserRoles(q, v)
      PROVE  FALSE
  BY <1>3 DEF AdminPatchUserRoles, GrantSeller, RevokeSeller
<1>4. ASSUME NEW q \in inflight, NEW phone \in BOOLEAN, UpdateMe(q, phone)
      PROVE  u \in sellers /\ q.user = u /\ "seller" \notin q.roles
  BY <1>4 DEF UpdateMe, RequireRole
<1>5. ASSUME sellers' = sellers, phones' = phones
      PROVE  FALSE
  BY <1>5
<1>6. CASE \E list \in Lists : Restart(list)
  BY <1>5, <1>6 DEF Restart
<1>7. CASE \E v \in Users : userByID(v) \/ RequireAuth(v)
  BY <1>5, <1>7 DEF userByID, RequireAuth, rows
<1>8. CASE \E q \in inflight : \/ Respond(q)
                               \/ \E v \in Users, suspend \in BOOLEAN : AdminPatchUser(q, v, suspend)
  BY <1>5, <1>8 DEF Respond, AdminPatchUser, rows
<1>9. CASE UNCHANGED vars
  BY <1>5, <1>9 DEF vars, rows
<1> QED BY <1>1, <1>2, <1>3, <1>4, <1>6, <1>7, <1>8, <1>9 DEF Next, Handle, HasStaleRequest

\* Only its own stale request leaves a seller without a phone.
THEOREM PhonelessOnlyByOwnRequestHolds == Spec => PhonelessOnlyByOwnRequest
<1>1. Inv /\ [Next]_vars =>
        [\A u \in Phoneless' \ Phoneless : u \in sellers /\ HasStaleRequest(u)]_vars
  BY PhonelessStep
<1> QED BY <1>1, Invariance, PTL DEF Spec, PhonelessOnlyByOwnRequest

\* A step that takes the last able administrator away is a change of the list
\* or the request of an administrator who has been suspended meanwhile.
LEMMA LockoutStep ==
  ASSUME Inv, Inv', [Next]_vars, Able # {}, Able' = {}
  PROVE  \/ allowList' # allowList
         \/ \E q \in inflight : RequireRole(q, "admin") /\ q.user \in suspended
<1> USE DEF Inv, TypeOK, AdminsFollowList, Able
<1>1. ASSUME admins \subseteq admins', suspended' = suspended
      PROVE  FALSE
  BY <1>1
<1>2. CASE \E list \in Lists : Restart(list)
  <2>1. CASE allowList' = allowList
    BY <1>1, <1>2, <2>1 DEF Restart
  <2> QED BY <2>1
<1>3. CASE \E v \in Users : \/ \E phone \in BOOLEAN : Register(v, phone)
                            \/ userByID(v)
                            \/ RequireAuth(v)
  BY <1>1, <1>3 DEF Register, userByID, RequireAuth, rows
<1>4. ASSUME NEW q \in inflight, NEW v \in Users, NEW suspend \in BOOLEAN,
             AdminPatchUser(q, v, suspend)
      PROVE  RequireRole(q, "admin") /\ q.user \in suspended
  <2>1. RequireRole(q, "admin") /\ q.user \in admins /\ q.user # v
    BY <1>4 DEF AdminPatchUser, SnapshotsHold
  <2>2. admins' = admins /\ suspended' \subseteq suspended \cup {v}
    BY <1>4 DEF AdminPatchUser
  <2> QED BY <2>1, <2>2
<1>5. CASE \E q \in inflight : \/ Respond(q)
                               \/ \E phone \in BOOLEAN : UpdateMe(q, phone)
                               \/ BecomeSeller(q)
                               \/ \E v \in Users : AdminPatchUserRoles(q, v)
  BY <1>1, <1>5 DEF Respond, UpdateMe, BecomeSeller, AdminPatchUserRoles, GrantSeller,
                    RevokeSeller, rows
<1>6. CASE UNCHANGED vars
  BY <1>1, <1>6 DEF vars, rows
<1> QED BY <1>2, <1>3, <1>4, <1>5, <1>6 DEF Next, Handle

\* Nobody is left to administer only after a change of the list or by the race
\* of two administrators.
THEOREM LockoutOnlyByRaceHolds == Spec => LockoutOnlyByRace
<1>1. Inv /\ Inv' /\ [Next]_vars =>
        [Able # {} /\ Able' = {} =>
            \/ allowList' # allowList
            \/ \E q \in inflight : RequireRole(q, "admin") /\ q.user \in suspended]_vars
  BY LockoutStep
<1> QED BY <1>1, Invariance, PTL DEF Spec, LockoutOnlyByRace

(***************************************************************************)
(* The log.  A row that is appended changes nothing that the earlier rows  *)
(* say, and says what the step that appended it did.                       *)
(***************************************************************************)

\* The rows of a log that grew.
LEMMA AppendedRows ==
  ASSUME NEW log \in Seq(AuditActions), NEW action \in AuditActions,
         NEW grown, grown = Append(log, action),
         NEW last, last = Len(log)
  PROVE  /\ last \in Nat
         /\ Len(grown) = last + 1
         /\ \A n \in 1 .. last : grown[n] = log[n]
         /\ grown[last + 1] = action
OBVIOUS

\* What it says of a suspension up to a row, by the rows before and by the new one.
LEMMA AppendedSuspension ==
  ASSUME NEW log \in Seq(AuditActions), NEW action \in AuditActions,
         NEW grown, grown = Append(log, action),
         NEW last, last = Len(log)
  PROVE  /\ \A n \in 0 .. last : SuspendedAfter(grown, n) <=> SuspendedAfter(log, n)
         /\ SuspendedAfter(grown, last + 1) <=>
               \/ action = "user.suspend"
               \/ SuspendedAfter(log, last) /\ action # "user.unsuspend"
<1>1. /\ last \in Nat /\ grown[last + 1] = action
      /\ \A n \in 1 .. last : grown[n] = log[n]
  BY AppendedRows
<1>2. ASSUME NEW n \in 0 .. last
      PROVE  SuspendedAfter(grown, n) <=> SuspendedAfter(log, n)
  <2>1. \A m \in 1 .. n : /\ grown[m] = log[m]
                          /\ \A k \in m + 1 .. n : grown[k] = log[k]
    BY <1>1
  <2> QED BY <2>1 DEF SuspendedAfter
<1>3. CASE action = "user.suspend"
  <2>1. last + 1 \in 1 .. last + 1 /\ \A k \in (last + 1) + 1 .. last + 1 : FALSE
    BY <1>1
  <2> QED BY <1>1, <1>2, <1>3, <2>1 DEF SuspendedAfter
<1>4. CASE action = "user.unsuspend"
  <2>1. \A m \in 1 .. last + 1 : m = last + 1 \/ last + 1 \in m + 1 .. last + 1
    BY <1>1
  <2>2. ~SuspendedAfter(grown, last + 1)
    BY <1>1, <1>4, <2>1 DEF SuspendedAfter
  <2> QED BY <1>2, <1>4, <2>2
<1>5. CASE action \notin {"user.suspend", "user.unsuspend"}
  <2>1. SuspendedAfter(log, last) => SuspendedAfter(grown, last + 1)
    <3> SUFFICES ASSUME NEW m \in 1 .. last, log[m] = "user.suspend",
                        \A k \in m + 1 .. last : log[k] # "user.unsuspend"
                 PROVE  SuspendedAfter(grown, last + 1)
      BY DEF SuspendedAfter
    <3>1. m \in 1 .. last + 1 /\ grown[m] = "user.suspend"
      BY <1>1
    <3>2. ASSUME NEW k \in m + 1 .. last + 1
          PROVE  grown[k] # "user.unsuspend"
      <4>1. k = last + 1 \/ (k \in m + 1 .. last /\ k \in 1 .. last)
        BY <1>1
      <4> QED BY <1>1, <1>5, <4>1
    <3> QED BY <3>1, <3>2 DEF SuspendedAfter
  <2>2. SuspendedAfter(grown, last + 1) => SuspendedAfter(log, last)
    <3> SUFFICES ASSUME NEW m \in 1 .. last + 1, grown[m] = "user.suspend",
                        \A k \in m + 1 .. last + 1 : grown[k] # "user.unsuspend"
                 PROVE  SuspendedAfter(log, last)
      BY DEF SuspendedAfter
    <3>1. m \in 1 .. last
      BY <1>1, <1>5
    <3>2. ASSUME NEW k \in m + 1 .. last
          PROVE  log[k] # "user.unsuspend"
      <4>1. k \in m + 1 .. last + 1 /\ k \in 1 .. last
        BY <1>1
      <4> QED BY <1>1, <4>1
    <3>3. log[m] = "user.suspend"
      BY <1>1, <3>1
    <3> QED BY <3>1, <3>2, <3>3 DEF SuspendedAfter
  <2> QED BY <1>2, <1>5, <2>1, <2>2
<1> QED BY <1>2, <1>3, <1>4, <1>5

\* The same of the revocations.
LEMMA AppendedRevocation ==
  ASSUME NEW log \in Seq(AuditActions), NEW action \in AuditActions,
         NEW grown, grown = Append(log, action),
         NEW last, last = Len(log),
         NEW m \in 1 .. last
  PROVE  /\ \A n \in 1 .. last + 1 : RevokedBetween(grown, m, n) <=> RevokedBetween(log, m, n)
         /\ RevokedBetween(grown, m, (last + 1) + 1) <=>
               \/ action = "user.role_revoke_seller"
               \/ RevokedBetween(log, m, last + 1)
<1>1. /\ last \in Nat /\ grown[last + 1] = action
      /\ \A n \in 1 .. last : grown[n] = log[n]
  BY AppendedRows
<1>2. ASSUME NEW n \in 1 .. last + 1
      PROVE  RevokedBetween(grown, m, n) <=> RevokedBetween(log, m, n)
  <2>1. \A k \in m + 1 .. n - 1 : grown[k] = log[k]
    BY <1>1
  <2> QED BY <2>1 DEF RevokedBetween
<1>3. \A k \in m + 1 .. ((last + 1) + 1) - 1 : k = last + 1 \/ k \in m + 1 .. (last + 1) - 1
  BY <1>1
<1>4. /\ last + 1 \in m + 1 .. ((last + 1) + 1) - 1
      /\ \A k \in m + 1 .. (last + 1) - 1 : k \in m + 1 .. ((last + 1) + 1) - 1 /\ grown[k] = log[k]
  BY <1>1
<1>5. RevokedBetween(grown, m, (last + 1) + 1) <=>
         \/ action = "user.role_revoke_seller"
         \/ RevokedBetween(log, m, last + 1)
  BY <1>1, <1>3, <1>4 DEF RevokedBetween
<1> QED BY <1>2, <1>5

\* The log still alternates, if the new row is one that may come next.
LEMMA AppendedAlternates ==
  ASSUME NEW log \in Seq(AuditActions), NEW action \in AuditActions,
         NEW grown, grown = Append(log, action),
         NEW last, last = Len(log),
         Alternates(log),
         action = "user.suspend" => ~SuspendedAfter(log, last),
         action = "user.unsuspend" => SuspendedAfter(log, last),
         action = "user.role_grant_seller" =>
            \A m \in 1 .. last : log[m] = "user.role_grant_seller" =>
               RevokedBetween(log, m, last + 1)
  PROVE  Alternates(grown)
<1>1. /\ last \in Nat /\ Len(grown) = last + 1 /\ grown[last + 1] = action
      /\ \A n \in 1 .. last : grown[n] = log[n]
  BY AppendedRows
<1>2. \A n \in 0 .. last : SuspendedAfter(grown, n) <=> SuspendedAfter(log, n)
  BY AppendedSuspension
<1>3. \A m \in 1 .. last : \A n \in 1 .. last + 1 :
         RevokedBetween(grown, m, n) <=> RevokedBetween(log, m, n)
  BY AppendedRevocation
<1>4. SUFFICES ASSUME NEW n \in 1 .. last + 1
               PROVE  /\ grown[n] = "user.suspend" => ~SuspendedAfter(grown, n - 1)
                      /\ grown[n] = "user.unsuspend" => SuspendedAfter(grown, n - 1)
                      /\ grown[n] = "user.role_grant_seller" =>
                            \A m \in 1 .. n - 1 : grown[m] = "user.role_grant_seller" =>
                               RevokedBetween(grown, m, n)
  BY <1>1 DEF Alternates
<1>5. n - 1 \in 0 .. last /\ \A m \in 1 .. n - 1 : m \in 1 .. last /\ grown[m] = log[m]
  BY <1>1
<1>6. /\ SuspendedAfter(grown, n - 1) <=> SuspendedAfter(log, n - 1)
      /\ \A m \in 1 .. n - 1 : RevokedBetween(grown, m, n) <=> RevokedBetween(log, m, n)
  BY <1>2, <1>3, <1>5
<1>7. CASE n \in 1 .. last
  <2>1. /\ log[n] = "user.suspend" => ~SuspendedAfter(log, n - 1)
        /\ log[n] = "user.unsuspend" => SuspendedAfter(log, n - 1)
        /\ log[n] = "user.role_grant_seller" =>
              \A m \in 1 .. n - 1 : log[m] = "user.role_grant_seller" => RevokedBetween(log, m, n)
    BY <1>7 DEF Alternates
  <2> QED BY <1>1, <1>5, <1>6, <1>7, <2>1
<1>8. CASE n = last + 1
  <2>1. n - 1 = last
    BY <1>1, <1>8
  <2> QED BY <1>1, <1>5, <1>6, <1>8, <2>1
<1> QED BY <1>1, <1>7, <1>8

\* What LogExplainsAccount says of one account.
Explained(u) ==
    /\ Alternates(audit[u])
    /\ u \in suspended <=> SuspendedAfter(audit[u], Len(audit[u]))
    /\ \A m \in 1 .. Len(audit[u]) : audit[u][m] = "user.role_grant_seller" =>
          u \in sellers \/ RevokedBetween(audit[u], m, Len(audit[u]) + 1)

\* A log that grew still explains its account, if the new row tells what the
\* step did.
LEMMA AppendedExplained ==
  ASSUME TypeOK, NEW u \in Users, Explained(u),
         NEW action \in AuditActions, audit'[u] = Append(audit[u], action),
         action = "user.suspend" => u \notin suspended,
         action = "user.unsuspend" => u \in suspended,
         action = "user.role_grant_seller" => u \notin sellers,
         u \in suspended' <=> \/ action = "user.suspend"
                              \/ u \in suspended /\ action # "user.unsuspend",
         u \in sellers' <=> \/ action = "user.role_grant_seller"
                            \/ u \in sellers /\ action # "user.role_revoke_seller"
  PROVE  Explained(u)'
<1>1. audit[u] \in Seq(AuditActions)
  BY DEF TypeOK
<1>2. PICK log \in Seq(AuditActions) : log = audit[u]
  BY <1>1
<1>3. PICK grown : grown = audit'[u]
  OBVIOUS
<1>4. PICK last : last = Len(log)
  OBVIOUS
<1>5. grown = Append(log, action)
  BY <1>2, <1>3
<1>6. /\ Alternates(log)
      /\ u \in suspended <=> SuspendedAfter(log, last)
      /\ \A m \in 1 .. last : log[m] = "user.role_grant_seller" =>
            u \in sellers \/ RevokedBetween(log, m, last + 1)
  BY <1>2, <1>4 DEF Explained
<1>7. /\ last \in Nat /\ Len(grown) = last + 1 /\ grown[last + 1] = action
      /\ \A n \in 1 .. last : grown[n] = log[n]
  BY <1>4, <1>5, AppendedRows
<1>8. Alternates(grown)
  BY <1>4, <1>5, <1>6, AppendedAlternates
<1>9. u \in suspended' <=> SuspendedAfter(grown, last + 1)
  <2>1. SuspendedAfter(grown, last + 1) <=>
           \/ action = "user.suspend"
           \/ SuspendedAfter(log, last) /\ action # "user.unsuspend"
    BY <1>4, <1>5, AppendedSuspension
  <2> QED BY <1>6, <2>1
<1>10. ASSUME NEW m \in 1 .. last + 1, grown[m] = "user.role_grant_seller"
       PROVE  u \in sellers' \/ RevokedBetween(grown, m, (last + 1) + 1)
  <2>1. CASE m = last + 1
    BY <1>7, <1>10, <2>1
  <2>2. CASE m \in 1 .. last
    <3>1. RevokedBetween(grown, m, (last + 1) + 1) <=>
             \/ action = "user.role_revoke_seller"
             \/ RevokedBetween(log, m, last + 1)
      BY <1>4, <1>5, <2>2, AppendedRevocation
    <3> QED BY <1>6, <1>7, <1>10, <2>2, <3>1
  <2> QED BY <1>7, <2>1, <2>2
<1> QED BY <1>3, <1>7, <1>8, <1>9, <1>10 DEF Explained

\* A log that stays as it was, with the suspension; the role is not lost.
LEMMA KeptExplained ==
  ASSUME NEW u \in Users, Explained(u), audit'[u] = audit[u],
         u \in suspended' <=> u \in suspended, u \in sellers => u \in sellers'
  PROVE  Explained(u)'
BY DEF Explained

\* No log has a row yet.
LEMMA ExplainedInit == Init => LogExplainsAccount
<1> SUFFICES ASSUME Init, NEW u \in Users PROVE Explained(u)
  BY DEF LogExplainsAccount, Explained
<1>1. audit[u] = <<>> /\ Len(audit[u]) = 0 /\ u \notin suspended
  BY DEF Init
<1>2. \A n \in 1 .. Len(audit[u]) : FALSE
  BY <1>1
<1> QED BY <1>1, <1>2 DEF Explained, Alternates, SuspendedAfter

\* AdminPatchUser writes the row of what it changes, about the account it changes.
LEMMA PatchExplained ==
  ASSUME TypeOK, NEW q \in inflight, NEW u \in Users, NEW suspend \in BOOLEAN,
         AdminPatchUser(q, u, suspend), NEW v \in Users, Explained(v)
  PROVE  Explained(v)'
<1>1. sellers' = sellers
  BY DEF AdminPatchUser
<1>2. CASE suspend = (u \in suspended)
  <2>1. suspended' = suspended /\ audit' = audit
    BY <1>2, ZenonT(30) DEF AdminPatchUser
  <2> QED BY <1>1, <2>1, KeptExplained
<1>3. CASE suspend # (u \in suspended)
  <2>1. /\ suspended' = IF suspend THEN suspended \cup {u} ELSE suspended \ {u}
        /\ audit' = [audit EXCEPT ![u] =
              Append(audit[u], IF suspend THEN "user.suspend" ELSE "user.unsuspend")]
    BY <1>3 DEF AdminPatchUser, auditAction
  <2>2. CASE v # u
    <3>1. audit'[v] = audit[v] /\ (v \in suspended' <=> v \in suspended)
      BY <2>1, <2>2 DEF TypeOK
    <3> QED BY <1>1, <3>1, KeptExplained
  <2>3. CASE v = u /\ suspend
    <3>1. audit'[u] = Append(audit[u], "user.suspend") /\ u \in suspended'
      BY <2>1, <2>3 DEF TypeOK
    <3>2. u \notin suspended
      BY <1>3, <2>3
    <3> QED BY <1>1, <2>3, <3>1, <3>2, AppendedExplained DEF AuditActions
  <2>4. CASE v = u /\ ~suspend
    <3>1. audit'[u] = Append(audit[u], "user.unsuspend") /\ u \notin suspended'
      BY <2>1, <2>4 DEF TypeOK
    <3>2. u \in suspended
      BY <1>3, <2>4
    <3> QED BY <1>1, <2>4, <3>1, <3>2, AppendedExplained DEF AuditActions
  <2> QED BY <2>2, <2>3, <2>4
<1> QED BY <1>2, <1>3

\* So do the grant and the revocation of the seller role.
LEMMA RolesExplained ==
  ASSUME TypeOK, NEW q \in inflight, NEW u \in Users,
         AdminPatchUserRoles(q, u), NEW v \in Users, Explained(v)
  PROVE  Explained(v)'
<1>1. suspended' = suspended
  BY DEF AdminPatchUserRoles, GrantSeller, RevokeSeller
<1>2. CASE v # u
  <2>1. audit'[v] = audit[v] /\ (v \in sellers => v \in sellers')
    BY <1>2 DEF TypeOK, AdminPatchUserRoles, GrantSeller, RevokeSeller, auditAction
  <2> QED BY <1>1, <2>1, KeptExplained
<1>3. CASE v = u /\ GrantSeller(q, u)
  <2>1. /\ audit'[u] = Append(audit[u], "user.role_grant_seller")
        /\ u \notin sellers /\ u \in sellers'
    BY <1>3 DEF TypeOK, GrantSeller, auditAction
  <2> QED BY <1>1, <1>3, <2>1, AppendedExplained DEF AuditActions
<1>4. CASE v = u /\ RevokeSeller(q, u)
  <2>1. /\ audit'[u] = Append(audit[u], "user.role_revoke_seller")
        /\ u \notin sellers'
    BY <1>4 DEF TypeOK, RevokeSeller, auditAction
  <2> QED BY <1>1, <1>4, <2>1, AppendedExplained DEF AuditActions
<1> QED BY <1>2, <1>3, <1>4 DEF AdminPatchUserRoles

\* The other steps write no row, suspend nobody and take no role away.
LEMMA ExplainedStep ==
  ASSUME TypeOK, LogExplainsAccount, [Next]_vars
  PROVE  LogExplainsAccount'
<1> SUFFICES ASSUME NEW v \in Users PROVE Explained(v)'
  BY DEF LogExplainsAccount, Explained
<1>1. Explained(v)
  BY DEF LogExplainsAccount, Explained
<1>2. ASSUME audit' = audit, suspended' = suspended, sellers \subseteq sellers'
      PROVE  Explained(v)'
  BY <1>1, <1>2, KeptExplained
<1>3. ASSUME NEW list \in Lists, Restart(list) PROVE Explained(v)'
  BY <1>2, <1>3 DEF Restart
<1>4. ASSUME NEW u \in Users, NEW phone \in BOOLEAN, Register(u, phone) PROVE Explained(v)'
  BY <1>2, <1>4 DEF Register
<1>5. ASSUME NEW u \in Users, userByID(u) PROVE Explained(v)'
  BY <1>2, <1>5 DEF userByID, rows
<1>6. ASSUME NEW u \in Users, RequireAuth(u) PROVE Explained(v)'
  BY <1>2, <1>6 DEF RequireAuth, rows
<1>7. ASSUME NEW q \in inflight, Respond(q) PROVE Explained(v)'
  BY <1>2, <1>7 DEF Respond, rows
<1>8. ASSUME NEW q \in inflight, NEW phone \in BOOLEAN, UpdateMe(q, phone) PROVE Explained(v)'
  BY <1>2, <1>8 DEF UpdateMe
<1>9. ASSUME NEW q \in inflight, BecomeSeller(q) PROVE Explained(v)'
  BY <1>2, <1>9 DEF BecomeSeller
<1>10. ASSUME NEW q \in inflight, NEW u \in Users, NEW suspend \in BOOLEAN,
              AdminPatchUser(q, u, suspend)
       PROVE  Explained(v)'
  BY <1>1, <1>10, PatchExplained
<1>11. ASSUME NEW q \in inflight, NEW u \in Users, AdminPatchUserRoles(q, u) PROVE Explained(v)'
  BY <1>1, <1>11, RolesExplained
<1>12. CASE UNCHANGED vars
  BY <1>2, <1>12 DEF vars, rows
<1> QED
  BY <1>3, <1>4, <1>5, <1>6, <1>7, <1>8, <1>9, <1>10, <1>11, <1>12 DEF Next, Handle

\* In every reachable state the audit log of an account tells its history:
\* suspensions and their lifting alternate whatever is retried and whoever
\* races (AdminPatchUser writes a row exactly when it changes the suspension, in
\* one transaction), what holds now is what the last row says, and no granted
\* role has gone without a row that revoked it.
THEOREM LogExplainsAccountHolds == Spec => []LogExplainsAccount
<1>1. Init => LogExplainsAccount
  BY ExplainedInit
<1>2. TypeOK /\ LogExplainsAccount /\ [Next]_vars => LogExplainsAccount'
  BY ExplainedStep
<1>3. Spec => []TypeOK
  BY TypeCorrect
<1> QED BY <1>1, <1>2, <1>3, PTL DEF Spec
=============================================================================
