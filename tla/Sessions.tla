------------------------------ MODULE Sessions ------------------------------
(***************************************************************************)
(* The sessions of one account: access and refresh tokens, their rotation, *)
(* logout, password changes and the replay alarm.                          *)
(*                                                                         *)
(* No handler of this part holds a transaction over its reads and writes:  *)
(* each statement commits by itself, so each is a step and what a request  *)
(* has read is kept in its record until it is used.  A request may vanish  *)
(* at any step (Vanish): its client leaves, a statement fails or the       *)
(* server restarts.  Suspension, which only keeps requests out, is not     *)
(* modelled.                                                               *)
(*                                                                         *)
(* Time is in seconds, the grain of the iat and exp claims and of the      *)
(* token_valid_after column.  The wall clock may be stepped back (NTP).    *)
(***************************************************************************)
EXTENDS Integers, FiniteSets

CONSTANTS
    Pairs,          \* ids of token pairs; the jtis of pair p are <<p, kind>>
    Requests,       \* requests being handled at a time
    AccessTTL,      \* auth.go accessTokenTTL (15 min in the code)
    RefreshTTL,     \* auth.go refreshTokenTTL (7 days in the code)
    MaxNow,         \* bound: the clock reads 1..MaxNow
    MaxBack,        \* bound: how far the clock is ever behind its highest reading
    MaxLag,         \* bound: seconds a computed stamp waits for the database
    MaxChanges,     \* bound: password changes
    None            \* no pair

ASSUME TimesAssumption ==
    /\ AccessTTL \in Nat \ {0} /\ RefreshTTL \in Nat \ {0} /\ MaxNow \in Nat \ {0}
    /\ MaxBack \in Nat /\ MaxLag \in Nat /\ MaxChanges \in Nat

Kinds == {"access", "refresh"}

Tokens == Pairs \X Kinds

\* iat, the password its session was opened with (they are numbered), and the
\* pair whose refresh token was swapped for it.
Pair == [iat : 1 .. MaxNow, password : 0 .. MaxChanges, parent : Pairs \cup {None}]

ASSUME NoneAssumption == None \notin Pairs \cup Pair

Ops == {"idle",
        "login",        \* Login has checked the password
        "parsed",       \* RequireAuth has parsed the access token
        "unrevoked",    \* RequireAuth has not found its jti in revoked_tokens
        "admitted",     \* RequireAuth has read the user row and called UpdatePassword
        "change",       \* UpdatePassword is about to write
        "claim",        \* RotateRefresh has read the user row
        "sign",         \* RotateRefresh has consumed the token
        "replay"}       \* RotateRefresh has found it consumed

VARIABLES
    now,            \* the wall clock
    latest,         \* history: its highest reading
    password,       \* users.password_hash, numbered by change
    validAfter,     \* users.token_valid_after, 0 for NULL
    pairs,          \* the pairs signed so far
    revoked,        \* revoked_tokens
    requests,       \* the requests being handled, with what they have read
    spent,          \* history: tokens ever inserted into revoked_tokens
    strongest       \* history: the highest stamp written

vars == <<now, latest, password, validAfter, pairs, revoked, requests, spent, strongest>>

Idle == [op |-> "idle", pair |-> None, password |-> 0, stamp |-> 0, lag |-> 0]

Init ==
    /\ now = 1 /\ latest = 1
    /\ password = 0
    /\ validAfter = 0
    /\ pairs = [p \in Pairs |-> None]
    /\ revoked = {}
    /\ requests = [r \in Requests |-> Idle]
    /\ spent = {} /\ strongest = 0

(***************************************************************************)
(* Tokens.                                                                 *)
(***************************************************************************)

TTL(kind) == IF kind = "access" THEN AccessTTL ELSE RefreshTTL

Exp(token) == pairs[token[1]].iat + TTL(token[2])

\* What the JWT library accepts: issued by this server and not expired.
Parses(token) == pairs[token[1]] # None /\ now < Exp(token)

tokenSuperseded(p) == pairs[p].iat < validAfter

\* SignToken and SignRefreshToken, within one second.
Sign(p, pw, parent) ==
    /\ pairs[p] = None
    /\ pairs' = [pairs EXCEPT ![p] = [iat |-> now, password |-> pw, parent |-> parent]]

At(r, op) == requests[r].op = op

Goto(r, op) == requests' = [requests EXCEPT ![r].op = op]

Start(r, op, p, pw) ==
    requests' = [requests EXCEPT ![r] =
        [op |-> op, pair |-> p, password |-> pw, stamp |-> 0, lag |-> 0]]

Finish(r) == requests' = [requests EXCEPT ![r] = Idle]

Stamping(r) == requests[r].op \in {"change", "replay"}

Spend(token) == revoked' = revoked \cup {token} /\ spent' = spent \cup {token}

Stamp(stamp) ==
    /\ validAfter' = stamp
    /\ strongest' = IF stamp > strongest THEN stamp ELSE strongest

(***************************************************************************)
(* Time and failures.                                                      *)
(***************************************************************************)

Tick ==
    /\ now < MaxNow
    /\ \A r \in Requests : Stamping(r) => requests[r].lag < MaxLag
    /\ now' = now + 1
    /\ latest' = IF now' > latest THEN now' ELSE latest
    /\ requests' = [r \in Requests |->
           IF Stamping(r) THEN [requests[r] EXCEPT !.lag = @ + 1] ELSE requests[r]]
    /\ UNCHANGED <<password, validAfter, pairs, revoked, spent, strongest>>

StepBack ==
    /\ now > 1 /\ latest - now < MaxBack
    /\ now' = now - 1
    /\ UNCHANGED <<latest, password, validAfter, pairs, revoked, requests, spent, strongest>>

\* The request ends here, answered or not; what it has written stays written.
Vanish(r) ==
    /\ ~At(r, "idle")
    /\ Finish(r)
    /\ UNCHANGED <<now, latest, password, validAfter, pairs, revoked, spent, strongest>>

\* Mutant: a row is dropped in the second in which its token expires.
GCRevoked_Inclusive ==
    /\ revoked' = {t \in revoked : Exp(t) > now}
    /\ revoked' # revoked
    /\ UNCHANGED <<now, latest, password, validAfter, pairs, requests, spent, strongest>>

\* The background job: DELETE ... WHERE expires_at < now.
GCRevoked ==
    /\ revoked' = {t \in revoked : Exp(t) >= now}
    /\ revoked' # revoked
    /\ UNCHANGED <<now, latest, password, validAfter, pairs, requests, spent, strongest>>

(***************************************************************************)
(* Login, logout and RequireAuth.                                          *)
(***************************************************************************)

\* The row is read and the password it holds is the one presented.
Login(r) ==
    /\ At(r, "idle")
    /\ Start(r, "login", None, password)
    /\ UNCHANGED <<now, latest, password, validAfter, pairs, revoked, spent, strongest>>

LoginSign(r, p) ==
    /\ At(r, "login")
    /\ Sign(p, requests[r].password, None)
    /\ Finish(r)
    /\ UNCHANGED <<now, latest, password, validAfter, revoked, spent, strongest>>

\* RevokeFromRequest only parses the token: no user row, INSERT OR IGNORE.
Logout(p) ==
    /\ Parses(<<p, "access">>)
    /\ Spend(<<p, "access">>)
    /\ UNCHANGED <<now, latest, password, validAfter, pairs, requests, strongest>>

RequireAuth(r, p) ==
    /\ At(r, "idle")
    /\ Parses(<<p, "access">>)
    /\ Start(r, "parsed", p, 0)
    /\ UNCHANGED <<now, latest, password, validAfter, pairs, revoked, spent, strongest>>

IsRevoked(r) ==
    /\ At(r, "parsed")
    /\ <<requests[r].pair, "access">> \notin revoked
    /\ Goto(r, "unrevoked")
    /\ UNCHANGED <<now, latest, password, validAfter, pairs, revoked, spent, strongest>>

\* The user row is read and the handler runs.  Only UpdatePassword is followed
\* further: its client presents the password the row held at this step.
userByID(r) ==
    /\ At(r, "unrevoked")
    /\ ~tokenSuperseded(requests[r].pair)
    /\ password < MaxChanges
    /\ Goto(r, "admitted")
    /\ UNCHANGED <<now, latest, password, validAfter, pairs, revoked, spent, strongest>>

(***************************************************************************)
(* UpdatePassword: the stamp is computed, then written with the new hash,  *)
(* whatever hash and stamp the row holds by then.                          *)
(***************************************************************************)

UpdatePassword(r) ==
    /\ At(r, "admitted")
    /\ requests' = [requests EXCEPT ![r].op = "change", ![r].stamp = now]
    /\ UNCHANGED <<now, latest, password, validAfter, pairs, revoked, spent, strongest>>

WritePassword(r) ==
    /\ At(r, "change")
    /\ password < MaxChanges
    /\ password' = password + 1
    /\ Stamp(requests[r].stamp)
    /\ Finish(r)
    /\ UNCHANGED <<now, latest, pairs, revoked, spent>>

(***************************************************************************)
(* RotateRefresh.                                                          *)
(***************************************************************************)

Refresh(r, p) ==
    /\ At(r, "idle")
    /\ Parses(<<p, "refresh">>)
    /\ ~tokenSuperseded(p)
    /\ Start(r, "claim", p, 0)
    /\ UNCHANGED <<now, latest, password, validAfter, pairs, revoked, spent, strongest>>

\* Mutant: INSERT OR IGNORE, as in Revoke, so a duplicate jti is no error.
claimJTI_Ignore(r) ==
    /\ At(r, "claim")
    /\ Spend(<<requests[r].pair, "refresh">>)
    /\ Goto(r, "sign")
    /\ UNCHANGED <<now, latest, password, validAfter, pairs, strongest>>

\* One INSERT: of several presentations the primary key lets one through.
claimJTI(r) ==
    /\ At(r, "claim")
    /\ <<requests[r].pair, "refresh">> \notin revoked
    /\ Spend(<<requests[r].pair, "refresh">>)
    /\ Goto(r, "sign")
    /\ UNCHANGED <<now, latest, password, validAfter, pairs, strongest>>

RefreshSign(r, p) ==
    /\ At(r, "sign")
    /\ Sign(p, pairs[requests[r].pair].password, requests[r].pair)
    /\ Finish(r)
    /\ UNCHANGED <<now, latest, password, validAfter, revoked, spent, strongest>>

\* Mutant: the stamp is the expiry of the replayed token.
ReplayStamp_Expiry(p) == pairs[p].iat + RefreshTTL

\* Mutant: the stamp only covers the replayed token, not the present.
ReplayStamp_TokenOnly(p) == pairs[p].iat + 1

\* The present, or the second after the replayed token's if the clock is behind.
ReplayStamp(p) == IF pairs[p].iat + 1 > now THEN pairs[p].iat + 1 ELSE now

Replay(r) ==
    /\ At(r, "claim")
    /\ <<requests[r].pair, "refresh">> \in revoked
    /\ requests' = [requests EXCEPT ![r].op = "replay",
                                    ![r].stamp = ReplayStamp(requests[r].pair)]
    /\ UNCHANGED <<now, latest, password, validAfter, pairs, revoked, spent, strongest>>

InvalidateUserTokens(r) ==
    /\ At(r, "replay")
    /\ Stamp(requests[r].stamp)
    /\ Finish(r)
    /\ UNCHANGED <<now, latest, password, pairs, revoked, spent>>

RequestStep(r) ==
    \/ Vanish(r)
    \/ Login(r)
    \/ IsRevoked(r)
    \/ userByID(r)
    \/ UpdatePassword(r)
    \/ WritePassword(r)
    \/ claimJTI(r)
    \/ Replay(r)
    \/ InvalidateUserTokens(r)
    \/ \E p \in Pairs : \/ LoginSign(r, p)
                        \/ RequireAuth(r, p)
                        \/ Refresh(r, p)
                        \/ RefreshSign(r, p)

Next ==
    \/ Tick
    \/ StepBack
    \/ GCRevoked
    \/ \E p \in Pairs : Logout(p)
    \/ \E r \in Requests : RequestStep(r)

Spec == Init /\ [][Next]_vars

(***************************************************************************)
(* Properties.                                                             *)
(***************************************************************************)

\* The columns and the requests have their types; a request past parsing
\* names a pair that was signed.
TypeOK ==
    /\ now \in 1 .. MaxNow /\ latest \in 1 .. MaxNow
    /\ password \in 0 .. MaxChanges
    /\ validAfter \in 0 .. MaxNow + 1 /\ strongest \in 0 .. MaxNow + 1
    /\ pairs \in [Pairs -> Pair \cup {None}]
    /\ revoked \subseteq Tokens /\ spent \subseteq Tokens
    /\ requests \in [Requests -> [op : Ops, pair : Pairs \cup {None}, password : 0 .. MaxChanges,
                                  stamp : 0 .. MaxNow + 1, lag : 0 .. MaxLag]]
    /\ \A r \in Requests : requests[r].pair # None => pairs[requests[r].pair] # None

Children(p) == {k \in Pairs : pairs[k] # None /\ pairs[k].parent = p}

\* Single use: as long as no clock reading has passed its expiry, a refresh
\* token is swapped for at most one pair, however often and however
\* concurrently it is presented, and whatever GCRevoked deletes.
RotatedOnce ==
    \A p \in Pairs : pairs[p] # None /\ latest <= Exp(<<p, "refresh">>)
                         => Cardinality(Children(p)) <= 1

\* The token a step of a request has found not to be in revoked_tokens.
Clears(r, op, next) == At(r, op) /\ requests'[r].op = next

\* A token that was logged out or rotated passes a later look at revoked_tokens
\* only if a clock reading has passed its expiry, also if the clock has been
\* stepped back since: the garbage collector forgets no token too early.
SpentStaysSpent ==
    [][\A r \in Requests :
        LET Late(kind) == LET token == <<requests[r].pair, kind>>
                          IN token \in spent => latest > Exp(token)
        IN /\ Clears(r, "parsed", "unrevoked") => Late("access")
           /\ Clears(r, "claim", "sign") => Late("refresh")]_vars

\* How much a stamp can be undone: by one that waited MaxLag seconds or was
\* computed on a clock MaxBack seconds behind (not both: a clock that is behind
\* catches up while the stamp waits), and a replay's may be a second ahead.
Slack == (IF MaxLag > MaxBack THEN MaxLag ELSE MaxBack) + 1

\* A revocation lasts: a token superseded by any stamp so far by more than the
\* slack is superseded still, although stamps are written in any order and a
\* later write may lower the column.
RevocationLasts ==
    \A p \in Pairs : pairs[p] # None /\ ~tokenSuperseded(p) => pairs[p].iat >= strongest - Slack

\* The comment on tokenSuperseded: an old token that survives a password
\* change lives out, at worst, the rest of its 15 minutes.
OldTokensExpire ==
    \A token \in Tokens :
        LET p == token[1] IN
        /\ Parses(token) /\ ~tokenSuperseded(p) /\ pairs[p].password < password
        => now < pairs[p].iat + AccessTTL

\* Documented of POST /auth/refresh: a reuse invalidates every other token and
\* one has to log in again.  So a pair that is swapped for a superseded token
\* is itself superseded, but for the second of the stamp, which the comment on
\* tokenSuperseded lets live.
DeadTokenYieldsDeadPair ==
    [][\A p \in Pairs :
        LET parent == pairs'[p].parent IN
        /\ pairs[p] = None /\ pairs'[p] # None /\ parent # None
        /\ tokenSuperseded(parent)
        => pairs'[p].iat <= validAfter]_vars
=============================================================================
