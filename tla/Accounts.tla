------------------------------ MODULE Accounts ------------------------------
(***************************************************************************)
(* Accounts: registration, the contact phone, the roles and suspension,    *)
(* and the administrator role that follows the ADMIN_EMAILS list of the    *)
(* process that runs.                                                      *)
(*                                                                         *)
(* RequireAuth reads the users row and then the roles, in two queries; the *)
(* handler acts on that snapshot while other requests change the tables.   *)
(* What a handler does itself is one statement or one BEGIN IMMEDIATE      *)
(* transaction and one action here.                                        *)
(***************************************************************************)
EXTENDS Integers, FiniteSets, Sequences

CONSTANTS
    Users,          \* accounts, by e-mail address
    Lists,          \* values ADMIN_EMAILS is given from one start to the next
    MaxInflight,    \* bound: distinct request snapshots in flight at once
    MaxAudit        \* bound: audit rows about one account

ASSUME ListsAssumption == Lists # {} /\ Lists \subseteq SUBSET Users

ASSUME BoundsAssumption == MaxInflight \in Nat /\ MaxAudit \in Nat

Roles == {"buyer", "seller", "admin"}

AuditActions == {"user.suspend", "user.unsuspend",
                 "user.role_grant_seller", "user.role_revoke_seller"}

\* A request that passed RequireAuth, with the roles it found.
Request == [user : Users, roles : SUBSET Roles]

VARIABLES
    allowList,      \* ADMIN_EMAILS of the running process
    registered,     \* users rows; no code deletes one
    phones,         \* users.phone # ''
    suspended,      \* users.suspended_at IS NOT NULL
    sellers,        \* user_roles rows with role seller
    admins,         \* user_roles rows with role admin
    audit,          \* admin_audit_log, by target, in the order of the ids
    loading,        \* requests that read the users row and not yet the roles
    inflight        \* snapshots of the requests being handled

rows == <<registered, phones, suspended, sellers, admins, audit>>

vars == <<allowList, rows, loading, inflight>>

Init ==
    /\ allowList \in Lists
    /\ registered = {}
    /\ phones = {}
    /\ suspended = {}
    /\ sellers = {}
    /\ admins = {}
    /\ audit = [u \in Users |-> <<>>]
    /\ loading = {}
    /\ inflight = {}

UserRoles(u) == {"buyer"} \cup (IF u \in sellers THEN {"seller"} ELSE {})
                         \cup (IF u \in admins THEN {"admin"} ELSE {})

RequireRole(q, role) == role \in q.roles

auditAction(action, target) ==
    /\ Len(audit[target]) < MaxAudit
    /\ audit' = [audit EXCEPT ![target] = Append(@, action)]

(***************************************************************************)
(* The process and its requests.                                           *)
(***************************************************************************)

\* Mutant: an empty list is taken for "nothing to do".
SyncAdminRoles_SkipEmpty(list) ==
    admins' = IF list = {} THEN admins ELSE registered \cap list

\* Mutant: listed addresses get the role whether or not they have an account.
SyncAdminRoles_Addresses(list) == admins' = list

\* Every listed account gets the role and every other one loses it.
SyncAdminRoles(list) == admins' = registered \cap list

\* The process ends, requests with it, and starts again, perhaps with another
\* list; the roles are reconciled before it serves.
Restart(list) ==
    /\ allowList' = list
    /\ SyncAdminRoles(list)
    /\ loading' = {}
    /\ inflight' = {}
    /\ UNCHANGED <<registered, phones, suspended, sellers, audit>>

\* The users row of a token's owner; a suspended account is refused on what
\* this query returned.
userByID(u) ==
    /\ u \in registered \ suspended
    /\ loading' = loading \cup {u}
    /\ UNCHANGED <<allowList, rows, inflight>>

\* The roles, in a query of their own; the handler may start.
RequireAuth(u) ==
    /\ u \in loading
    /\ loading' \in {loading, loading \ {u}}    \* another request may be at the same place
    /\ inflight' = inflight \cup {[user |-> u, roles |-> UserRoles(u)]}
    /\ Cardinality(inflight') <= MaxInflight
    /\ UNCHANGED <<allowList, rows>>

\* The last request with this snapshot has been answered.
Respond(q) ==
    /\ inflight' = inflight \ {q}
    /\ UNCHANGED <<allowList, rows, loading>>

(***************************************************************************)
(* The handlers.                                                           *)
(***************************************************************************)

\* An account with a phone is a seller from the start; a listed address is an
\* administrator from the start.  A second registration changes nothing.
Register(u, phone) ==
    /\ u \notin registered
    /\ registered' = registered \cup {u}
    /\ phones' = IF phone THEN phones \cup {u} ELSE phones
    /\ sellers' = IF phone THEN sellers \cup {u} ELSE sellers
    /\ admins' = IF u \in allowList THEN admins \cup {u} ELSE admins
    /\ UNCHANGED <<allowList, suspended, audit, loading, inflight>>

\* The phone is set or cleared; a caller whose snapshot is a seller's keeps one.
UpdateMe(q, phone) ==
    /\ RequireRole(q, "seller") => phone
    /\ phones' = IF phone THEN phones \cup {q.user} ELSE phones \ {q.user}
    /\ UNCHANGED <<allowList, registered, suspended, sellers, admins, audit, loading, inflight>>

\* Mutant: the role is granted and the number is not stored.
BecomeSeller_RoleOnly(q) ==
    /\ sellers' = IF RequireRole(q, "seller") THEN sellers ELSE sellers \cup {q.user}
    /\ UNCHANGED <<allowList, registered, phones, suspended, admins, audit, loading, inflight>>

\* The phone is stored on every call, the role only for a snapshot without it.
BecomeSeller(q) ==
    /\ phones' = phones \cup {q.user}
    /\ sellers' = IF RequireRole(q, "seller") THEN sellers ELSE sellers \cup {q.user}
    /\ UNCHANGED <<allowList, registered, suspended, admins, audit, loading, inflight>>

\* Mutant: an administrator may name itself.
AdminPatchUser_Self(q, u, suspend) ==
    /\ RequireRole(q, "admin")
    /\ u \in registered
    /\ IF suspend = (u \in suspended)
       THEN UNCHANGED <<suspended, audit>>
       ELSE /\ suspended' = IF suspend THEN suspended \cup {u} ELSE suspended \ {u}
            /\ auditAction(IF suspend THEN "user.suspend" ELSE "user.unsuspend", u)
    /\ UNCHANGED <<allowList, registered, phones, sellers, admins, loading, inflight>>

\* Mutant: a repeated call is logged again.
AdminPatchUser_LogsRepeats(q, u, suspend) ==
    /\ RequireRole(q, "admin")
    /\ q.user # u
    /\ u \in registered
    /\ suspended' = IF suspend THEN suspended \cup {u} ELSE suspended \ {u}
    /\ auditAction(IF suspend THEN "user.suspend" ELSE "user.unsuspend", u)
    /\ UNCHANGED <<allowList, registered, phones, sellers, admins, loading, inflight>>

\* Suspend or lift the suspension of somebody else.  What is already so is
\* neither written nor logged.
AdminPatchUser(q, u, suspend) ==
    /\ RequireRole(q, "admin")
    /\ q.user # u
    /\ u \in registered
    /\ IF suspend = (u \in suspended)
       THEN UNCHANGED <<suspended, audit>>
       ELSE /\ suspended' = IF suspend THEN suspended \cup {u} ELSE suspended \ {u}
            /\ auditAction(IF suspend THEN "user.suspend" ELSE "user.unsuspend", u)
    /\ UNCHANGED <<allowList, registered, phones, sellers, admins, loading, inflight>>

\* Only an account with a phone is given the role.
GrantSeller(q, u) ==
    /\ RequireRole(q, "admin")
    /\ u \in phones \ sellers
    /\ sellers' = sellers \cup {u}
    /\ auditAction("user.role_grant_seller", u)
    /\ UNCHANGED <<allowList, registered, phones, suspended, admins, loading, inflight>>

\* Refused while the account has future bookings, which are in Booking; here
\* the refusal is the step that is not taken.
RevokeSeller(q, u) ==
    /\ RequireRole(q, "admin")
    /\ u \in sellers
    /\ sellers' = sellers \ {u}
    /\ auditAction("user.role_revoke_seller", u)
    /\ UNCHANGED <<allowList, registered, phones, suspended, admins, loading, inflight>>

AdminPatchUserRoles(q, u) == GrantSeller(q, u) \/ RevokeSeller(q, u)

Handle(q) ==
    \/ Respond(q)
    \/ \E phone \in BOOLEAN : UpdateMe(q, phone)
    \/ BecomeSeller(q)
    \/ \E u \in Users : \/ \E suspend \in BOOLEAN : AdminPatchUser(q, u, suspend)
                        \/ AdminPatchUserRoles(q, u)

Next ==
    \/ \E list \in Lists : Restart(list)
    \/ \E u \in Users : \/ \E phone \in BOOLEAN : Register(u, phone)
                        \/ userByID(u)
                        \/ RequireAuth(u)
    \/ \E q \in inflight : Handle(q)

Spec == Init /\ [][Next]_vars

(***************************************************************************)
(* Properties.                                                             *)
(***************************************************************************)

\* Every table holds rows of its own shape, about registered accounts.
TypeOK ==
    /\ allowList \in Lists
    /\ registered \subseteq Users
    /\ phones \subseteq registered
    /\ suspended \subseteq registered
    /\ sellers \subseteq registered
    /\ admins \subseteq registered
    /\ audit \in [Users -> Seq(AuditActions)]
    /\ loading \subseteq registered
    /\ inflight \subseteq [user : registered, roles : SUBSET Roles]

\* The two writers of the admin role (Register and SyncAdminRoles) together
\* make the list of the running process its single source, in every state in
\* which it serves: also for accounts registered after the start, under an
\* older list, or while suspended.
AdminsFollowList == admins = registered \cap allowList

\* What the first n rows of a log about an account say of its suspension.
SuspendedAfter(log, n) ==
    \E m \in 1 .. n : /\ log[m] = "user.suspend"
                      /\ \A k \in m + 1 .. n : log[k] # "user.unsuspend"

\* The role is revoked between two of the rows.
RevokedBetween(log, m, n) == \E k \in m + 1 .. n - 1 : log[k] = "user.role_revoke_seller"

\* Suspensions and their lifting alternate; a granted role is not granted again
\* before a row says that it was revoked.
Alternates(log) ==
    \A n \in 1 .. Len(log) :
        /\ log[n] = "user.suspend" => ~SuspendedAfter(log, n - 1)
        /\ log[n] = "user.unsuspend" => SuspendedAfter(log, n - 1)
        /\ log[n] = "user.role_grant_seller" =>
              \A m \in 1 .. n - 1 : log[m] = "user.role_grant_seller" => RevokedBetween(log, m, n)

\* The log tells the history of a suspension: the last row says what holds now,
\* and retries leave no trace.  A granted role is in force until a row says that
\* it was revoked.
LogExplainsAccount ==
    \A u \in Users :
        LET log == audit[u]
        IN /\ Alternates(log)
           /\ u \in suspended <=> SuspendedAfter(log, Len(log))
           /\ \A m \in 1 .. Len(log) : log[m] = "user.role_grant_seller" =>
                 u \in sellers \/ RevokedBetween(log, m, Len(log) + 1)

Phoneless == sellers \ phones

\* A request of the account from before it was a seller is in flight.
HasStaleRequest(u) == \E q \in inflight : q.user = u /\ "seller" \notin q.roles

\* A seller is without a phone only by its own doing: the step that makes it so
\* is a request of its own which was let in before the account became a seller
\* (UpdateMe trusts the snapshot).  Neither registration, nor BecomeSeller, nor
\* an administrator's grant makes one, in whatever order they run.
PhonelessOnlyByOwnRequest ==
    [][\A u \in Phoneless' \ Phoneless : u \in sellers /\ HasStaleRequest(u)]_vars

\* The accounts that can lift a suspension.
Able == admins \ suspended

\* The last account that can administer is lost in two ways only: the process
\* starts with another list, or by a request of an administrator that was let
\* in and then suspended itself (AdminPatchUser looks at the actor's id, not at
\* its suspension).  No single administrator, and no order of calls that each
\* begin after the last one ended, gets there.
LockoutOnlyByRace ==
    [][Able # {} /\ Able' = {} =>
          \/ allowList' # allowList
          \/ \E q \in inflight : RequireRole(q, "admin") /\ q.user \in suspended]_vars

\* Documented of the refusal to suspend oneself: the platform is never left
\* with nobody able to undo a suspension.
SomebodyCanAdminister == admins # {} => Able # {}
=============================================================================
