--------------------------- MODULE SessionsProofs ---------------------------
(***************************************************************************)
(* Theorems about Sessions, for any pairs, requests, lifetimes and bounds  *)
(* of which TimesAssumption and NoneAssumption hold.                       *)
(*                                                                         *)
(* Single use rests on the row of revoked_tokens that claimJTI inserts:    *)
(* it is there as long as no clock reading has passed the expiry (Kept),   *)
(* so the request that inserted it, or the pair it signed, stays alone     *)
(* (Single).  A revocation lasts since a stamp is never far behind the     *)
(* clock's highest reading when it is written, nor ahead of it (Stamps).   *)
(***************************************************************************)
EXTENDS Sessions, FiniteSetTheorems, TLAPS

Request == [op : Ops, pair : Pairs \cup {None}, password : 0 .. MaxChanges,
            stamp : 0 .. MaxNow + 1, lag : 0 .. MaxLag]

\* Where a request has a pair.
Carried == \A r \in Requests :
    requests[r].op \notin {"idle", "login"} => requests[r].pair # None

\* The clock is not far behind its highest reading, and nothing is signed later.
Clock ==
    /\ now <= latest /\ latest <= now + MaxBack
    /\ \A p \in Pairs : pairs[p] # None => pairs[p].iat <= latest

\* What was spent, or swapped for a pair, had been signed.
Signed ==
    /\ \A t \in spent : pairs[t[1]] # None
    /\ \A k \in Pairs : pairs[k] # None /\ pairs[k].parent # None => pairs[pairs[k].parent] # None

\* A token that was spent is still in revoked_tokens while it may be valid.
Kept == \A t \in spent : latest <= Exp(t) => t \in revoked

\* A request that is about to sign a pair for p.
Signing(r, p) == At(r, "sign") /\ requests[r].pair = p

IsChild(k, p) == pairs[k] # None /\ pairs[k].parent = p

\* Whoever spent the refresh token of p, or the pair it signed, is alone.
Single == \A p \in Pairs : pairs[p] # None /\ latest <= Exp(<<p, "refresh">>) =>
    /\ \A r \in Requests : Signing(r, p) =>
          /\ <<p, "refresh">> \in revoked
          /\ \A k \in Pairs : ~IsChild(k, p)
          /\ \A s \in Requests : Signing(s, p) => s = r
    /\ \A k \in Pairs : IsChild(k, p) => <<p, "refresh">> \in revoked
    /\ \A k, l \in Pairs : IsChild(k, p) /\ IsChild(l, p) => k = l

\* A stamp is at most a second ahead of the clock's highest reading.  It is
\* behind the clock by what it has waited, and behind the highest reading by
\* that or by what the clock was, whichever is more.
Stamps ==
    /\ \A r \in Requests : Stamping(r) =>
          /\ now <= requests[r].stamp + requests[r].lag
          /\ \/ latest <= requests[r].stamp + MaxBack
             \/ latest <= requests[r].stamp + requests[r].lag
          /\ requests[r].stamp <= latest + 1
    /\ strongest <= latest + 1
    /\ strongest <= validAfter + Slack

Inv == TypeOK /\ Carried /\ Clock /\ Signed /\ Kept /\ Single /\ Stamps

LEMMA InitInv == Init => Inv
<1> SUFFICES ASSUME Init
             PROVE  Inv
  OBVIOUS
<1> USE TimesAssumption, NoneAssumption DEF Init, Idle
<1>1. TypeOK
  BY DEF TypeOK, Ops
<1>2. Carried /\ Clock /\ Signed /\ Kept
  BY DEF Carried, Clock, Signed, Kept
<1>3. Single
  BY DEF Single
<1>4. Stamps
  BY DEF Stamps, Stamping, Slack
<1> QED BY <1>1, <1>2, <1>3, <1>4 DEF Inv

\* Lifetimes and expiries are numbers of seconds.
LEMMA Expiry ==
  ASSUME TypeOK, NEW t \in Tokens, pairs[t[1]] # None
  PROVE  Exp(t) \in Nat /\ pairs[t[1]].iat \in Nat /\ Exp(t) = pairs[t[1]].iat + TTL(t[2])
  BY TimesAssumption DEF TypeOK, Tokens, Exp, TTL, Pair, Kinds

\* A new pair is well formed and hides none.
LEMMA SignTypes ==
  ASSUME TypeOK, NEW p \in Pairs, NEW pw \in 0 .. MaxChanges, NEW parent \in Pairs \cup {None},
         Sign(p, pw, parent)
  PROVE  /\ pairs' \in [Pairs -> Pair \cup {None}]
         /\ pairs'[p] # None /\ pairs'[p].parent = parent /\ pairs'[p].iat = now
         /\ \A q \in Pairs : q # p => pairs'[q] = pairs[q]
         /\ \A q \in Pairs : pairs[q] # None => pairs'[q] = pairs[q]
<1> DEFINE new == [iat |-> now, password |-> pw, parent |-> parent]
<1>1. new \in Pair
  BY DEF TypeOK, Pair
<1>2. new # None
  BY <1>1, NoneAssumption
<1> QED BY <1>1, <1>2 DEF Sign, TypeOK

(***************************************************************************)
(* Types.                                                                  *)
(***************************************************************************)

\* The type of requests, and the pair a request names, apart from the rest.
RequestsOK ==
    /\ requests \in [Requests -> Request]
    /\ \A r \in Requests : requests[r].pair # None => pairs[requests[r].pair] # None
    /\ Carried

\* The request goes on, keeping what it has read, or forgets it all.
LEMMA RequestGoes ==
  ASSUME TypeOK, Carried, NEW r \in Requests, pairs' = pairs,
         \/ \E op \in Ops : /\ requests[r].op \notin {"idle", "login"} \/ op \in {"idle", "login"}
                            /\ Goto(r, op)
         \/ Finish(r)
  PROVE  RequestsOK'
<1> USE DEF TypeOK, Request, RequestsOK, Carried
<1>1. CASE \E op \in Ops : /\ requests[r].op \notin {"idle", "login"} \/ op \in {"idle", "login"}
                           /\ Goto(r, op)
  BY <1>1 DEF Goto
<1>2. CASE Finish(r)
  BY <1>2, TimesAssumption DEF Finish, Idle, Ops
<1> QED BY <1>1, <1>2

\* A request starts, with a pair that was signed or with none.
LEMMA RequestStarts ==
  ASSUME TypeOK, Carried, NEW r \in Requests, NEW op \in Ops, NEW p \in Pairs \cup {None},
         NEW pw \in 0 .. MaxChanges, Start(r, op, p, pw), pairs' = pairs,
         p # None => pairs[p] # None, op \notin {"idle", "login"} => p # None
  PROVE  RequestsOK'
<1> DEFINE new == [op |-> op, pair |-> p, password |-> pw, stamp |-> 0, lag |-> 0]
<1>1. new \in Request /\ new.pair = p /\ new.op = op
  BY TimesAssumption DEF Request
<1>2. requests \in [Requests -> Request] /\ requests' = [requests EXCEPT ![r] = new]
  BY DEF TypeOK, Request, Start
<1> HIDE DEF new
<1>3. requests' \in [Requests -> Request]
  BY <1>1, <1>2
<1>4. ASSUME NEW s \in Requests
      PROVE  /\ requests'[s].pair # None => pairs'[requests'[s].pair] # None
             /\ requests'[s].op \notin {"idle", "login"} => requests'[s].pair # None
  <2>1. CASE s = r
    BY <1>1, <1>2, <2>1
  <2>2. CASE s # r
    BY <1>2, <2>2 DEF TypeOK, Carried
  <2> QED BY <2>1, <2>2
<1> QED BY <1>3, <1>4 DEF RequestsOK, Carried

\* A request signs a pair and ends.
LEMMA RequestSigns ==
  ASSUME TypeOK, Carried, NEW r \in Requests, NEW p \in Pairs, NEW pw \in 0 .. MaxChanges,
         NEW parent \in Pairs \cup {None}, Sign(p, pw, parent), Finish(r)
  PROVE  RequestsOK'
<1>1. \A q \in Pairs : pairs[q] # None => pairs'[q] # None
  BY SignTypes
<1>2. Idle \in Request /\ Idle.pair = None /\ Idle.op = "idle"
  BY TimesAssumption DEF Idle, Request, Ops
<1>3. requests' = [requests EXCEPT ![r] = Idle]
  BY DEF Finish
<1>4. requests \in [Requests -> Request]
  BY DEF TypeOK, Request
<1>5. requests' \in [Requests -> Request]
  BY <1>2, <1>3, <1>4
<1>6. ASSUME NEW s \in Requests
      PROVE  /\ requests'[s].pair # None => pairs'[requests'[s].pair] # None
             /\ requests'[s].op \notin {"idle", "login"} => requests'[s].pair # None
  <2>1. CASE s = r
    BY <1>2, <1>3, <1>4, <2>1
  <2>2. CASE s # r
    <3>1. requests'[s] = requests[s] /\ requests[s].pair \in Pairs \cup {None}
      BY <1>3, <1>4, <2>2 DEF Request
    <3>2. requests[s].pair # None => pairs[requests[s].pair] # None
      BY DEF TypeOK
    <3>3. requests[s].op \notin {"idle", "login"} => requests[s].pair # None
      BY DEF Carried
    <3> QED BY <1>1, <3>1, <3>2, <3>3
  <2> QED BY <2>1, <2>2
<1> QED BY <1>5, <1>6 DEF RequestsOK, Carried

LEMMA StepRequests ==
  ASSUME TypeOK, Carried, [Next]_vars
  PROVE  RequestsOK'
<1>1. CASE UNCHANGED <<pairs, requests>>
  BY <1>1 DEF TypeOK, Request, RequestsOK, Carried
<1>2. CASE StepBack \/ GCRevoked \/ (\E p \in Pairs : Logout(p)) \/ UNCHANGED vars
  BY <1>1, <1>2 DEF StepBack, GCRevoked, Logout, vars
<1>3. CASE Tick
  <2>1. pairs' = pairs /\ \A r \in Requests :
            requests'[r] = IF Stamping(r) THEN [requests[r] EXCEPT !.lag = @ + 1] ELSE requests[r]
    BY <1>3 DEF Tick
  <2>2. \A r \in Requests : Stamping(r) => requests[r].lag + 1 \in 0 .. MaxLag
    BY <1>3, TimesAssumption DEF Tick, TypeOK
  <2>3. ASSUME NEW r \in Requests
        PROVE  /\ requests'[r] \in Request /\ requests'[r].pair = requests[r].pair
               /\ requests'[r].op = requests[r].op
    BY <2>1, <2>2 DEF TypeOK, Request
  <2>4. requests' \in [Requests -> Request]
    BY <1>3, <2>3 DEF Tick
  <2> QED BY <2>1, <2>3, <2>4 DEF TypeOK, RequestsOK, Carried
<1>4. ASSUME NEW r \in Requests, RequestStep(r)
      PROVE  RequestsOK'
  <2>1. CASE Vanish(r) \/ WritePassword(r) \/ InvalidateUserTokens(r)
    BY <2>1, RequestGoes DEF Vanish, WritePassword, InvalidateUserTokens
  <2>2. CASE Login(r)
    BY <2>2, RequestStarts DEF Login, Ops, TypeOK
  <2>3. CASE IsRevoked(r) \/ userByID(r) \/ claimJTI(r)
    <3>1. \E op \in Ops : requests[r].op \notin {"idle", "login"} /\ Goto(r, op)
      BY <2>3 DEF IsRevoked, userByID, claimJTI, At, Ops
    <3>2. pairs' = pairs
      BY <2>3 DEF IsRevoked, userByID, claimJTI
    <3> QED BY <3>1, <3>2, RequestGoes
  <2>4. CASE UpdatePassword(r) \/ Replay(r)
    <3>1. PICK stamp \in 0 .. MaxNow + 1, op \in {"change", "replay"} :
                 requests' = [requests EXCEPT ![r].op = op, ![r].stamp = stamp]
      <4>1. CASE UpdatePassword(r)
        <5>1. requests' = [requests EXCEPT ![r].op = "change", ![r].stamp = now]
          BY <4>1 DEF UpdatePassword
        <5>2. now \in 0 .. MaxNow + 1
          BY TimesAssumption DEF TypeOK
        <5> QED BY <5>1, <5>2
      <4>2. CASE Replay(r)
        <5>1. requests[r].pair \in Pairs /\ pairs[requests[r].pair] \in Pair
          BY <4>2 DEF Replay, At, Carried, TypeOK
        <5>2. ReplayStamp(requests[r].pair) \in 0 .. MaxNow + 1
          BY <5>1, TimesAssumption DEF ReplayStamp, TypeOK, Pair
        <5> QED BY <4>2, <5>2 DEF Replay
      <4> QED BY <2>4, <4>1, <4>2
    <3>2. pairs' = pairs /\ requests[r].op \notin {"idle", "login"}
      BY <2>4 DEF UpdatePassword, Replay, At
    <3>3. requests'[r] = [requests[r] EXCEPT !.op = op, !.stamp = stamp]
      BY <3>1 DEF TypeOK
    <3>4. requests[r] \in Request /\ op \in Ops
      BY DEF TypeOK, Request, Ops
    <3>5. requests'[r] \in Request /\ requests'[r].pair = requests[r].pair
      BY <3>3, <3>4 DEF Request
    <3>6. \A s \in Requests : /\ requests'[s] \in Request /\ requests'[s].pair = requests[s].pair
                              /\ requests'[s].op # requests[s].op => s = r
      <4>1. requests \in [Requests -> Request]
        BY DEF TypeOK, Request
      <4>2. \A s \in Requests \ {r} : requests'[s] = requests[s]
        BY <3>1, <4>1
      <4> QED BY <3>5, <4>1, <4>2
    <3>7. requests' \in [Requests -> Request]
      BY <3>1, <3>6 DEF TypeOK
    <3> QED BY <3>2, <3>6, <3>7 DEF TypeOK, RequestsOK, Carried
  <2>5. ASSUME NEW p \in Pairs, RequireAuth(r, p) \/ Refresh(r, p)
        PROVE  RequestsOK'
    <3>1. pairs' = pairs /\ pairs[p] # None /\ 0 \in 0 .. MaxChanges
      BY <2>5, TimesAssumption DEF RequireAuth, Refresh, Parses
    <3>2. Start(r, "parsed", p, 0) \/ Start(r, "claim", p, 0)
      BY <2>5 DEF RequireAuth, Refresh
    <3>3. p # None
      BY NoneAssumption
    <3>4. CASE Start(r, "parsed", p, 0)
      BY <3>1, <3>3, <3>4, RequestStarts DEF Ops
    <3>5. CASE Start(r, "claim", p, 0)
      BY <3>1, <3>3, <3>5, RequestStarts DEF Ops
    <3> QED BY <3>2, <3>4, <3>5
  <2>6. ASSUME NEW p \in Pairs, LoginSign(r, p) \/ RefreshSign(r, p)
        PROVE  RequestsOK'
    <3>1. CASE LoginSign(r, p)
      BY <3>1, RequestSigns DEF LoginSign, TypeOK
    <3>2. CASE RefreshSign(r, p)
      <4>1. requests[r].pair \in Pairs /\ pairs[requests[r].pair] \in Pair
        BY <3>2 DEF RefreshSign, At, Carried, TypeOK
      <4>2. pairs[requests[r].pair].password \in 0 .. MaxChanges
        BY <4>1 DEF Pair
      <4> QED BY <3>2, <4>1, <4>2, RequestSigns DEF RefreshSign
    <3> QED BY <2>6, <3>1, <3>2
  <2> QED BY <1>4, <2>1, <2>2, <2>3, <2>4, <2>5, <2>6 DEF RequestStep
<1> QED BY <1>2, <1>3, <1>4 DEF Next

\* What is stored, and the clock: all but the requests.
data == <<now, latest, password, validAfter, pairs, revoked, spent, strongest>>

\* The steps of requests that only read.
Reads(r) ==
    \/ Vanish(r) \/ Login(r) \/ IsRevoked(r) \/ userByID(r) \/ UpdatePassword(r) \/ Replay(r)
    \/ \E p \in Pairs : RequireAuth(r, p) \/ Refresh(r, p)

LEMMA ReadsKeepData ==
  ASSUME NEW r \in Requests, Reads(r)
  PROVE  UNCHANGED data
  BY DEF Reads, Vanish, Login, IsRevoked, userByID, UpdatePassword, Replay, RequireAuth, Refresh, data

\* The cases of a step, by what it does to what is stored.
LEMMA Cases ==
  ASSUME [Next]_vars
  PROVE  \/ Tick \/ StepBack \/ GCRevoked
         \/ \E p \in Pairs : Logout(p)
         \/ \E r \in Requests : \/ claimJTI(r) \/ WritePassword(r) \/ InvalidateUserTokens(r)
                                \/ \E p \in Pairs : LoginSign(r, p) \/ RefreshSign(r, p)
         \/ UNCHANGED data
<1>1. CASE UNCHANGED vars
  BY <1>1 DEF vars, data
<1>2. ASSUME NEW r \in Requests, Reads(r)
      PROVE  UNCHANGED data
  BY <1>2, ReadsKeepData
<1> QED BY <1>1, <1>2 DEF Next, RequestStep, Reads

\* The pair of a request past parsing was signed.
LEMMA PairOf ==
  ASSUME TypeOK, Carried, NEW r \in Requests, requests[r].op \notin {"idle", "login"}
  PROVE  requests[r].pair \in Pairs /\ pairs[requests[r].pair] \in Pair /\ pairs[requests[r].pair] # None
  BY DEF TypeOK, Carried

\* A request signs a pair from a login or for the pair whose token it spent.
LEMMA SignCases ==
  ASSUME TypeOK, Carried, NEW r \in Requests, NEW p \in Pairs, LoginSign(r, p) \/ RefreshSign(r, p)
  PROVE  /\ \E pw \in 0 .. MaxChanges, parent \in Pairs \cup {None} :
               /\ Sign(p, pw, parent)
               /\ parent # None => Signing(r, parent) /\ pairs[parent] # None
         /\ Finish(r)
         /\ UNCHANGED <<now, latest, password, validAfter, revoked, spent, strongest>>
<1>1. CASE LoginSign(r, p)
  <2>1. requests[r].password \in 0 .. MaxChanges
    BY DEF TypeOK
  <2> QED BY <1>1, <2>1 DEF LoginSign
<1>2. CASE RefreshSign(r, p)
  <2>1. requests[r].pair \in Pairs /\ pairs[requests[r].pair] \in Pair /\ pairs[requests[r].pair] # None
    BY <1>2, PairOf DEF RefreshSign, At
  <2>2. pairs[requests[r].pair].password \in 0 .. MaxChanges
    BY <2>1 DEF Pair
  <2> QED BY <1>2, <2>1, <2>2 DEF RefreshSign, Signing
<1> QED BY <1>1, <1>2

LEMMA StepTypes ==
  ASSUME TypeOK, Carried, [Next]_vars
  PROVE  TypeOK' /\ Carried'
<1> DEFINE DataOK ==
      /\ now \in 1 .. MaxNow /\ latest \in 1 .. MaxNow /\ password \in 0 .. MaxChanges
      /\ validAfter \in 0 .. MaxNow + 1 /\ strongest \in 0 .. MaxNow + 1
      /\ pairs \in [Pairs -> Pair \cup {None}]
      /\ revoked \subseteq Tokens /\ spent \subseteq Tokens
<1>1. DataOK
  BY DEF TypeOK
<1> SUFFICES DataOK'
  BY StepRequests DEF RequestsOK, TypeOK, Request
<1>2. CASE Tick \/ StepBack
  BY <1>1, <1>2, TimesAssumption DEF Tick, StepBack
<1>3. CASE GCRevoked
  BY <1>1, <1>3 DEF GCRevoked
<1>4. CASE \E p \in Pairs : Logout(p)
  BY <1>1, <1>4 DEF Logout, Spend, Tokens, Kinds
<1>5. ASSUME NEW r \in Requests, claimJTI(r)
      PROVE  DataOK'
  <2>1. requests[r].pair \in Pairs
    BY <1>5, PairOf DEF claimJTI, At
  <2> QED BY <1>1, <1>5, <2>1 DEF claimJTI, Spend, Tokens, Kinds
<1>6. ASSUME NEW r \in Requests, WritePassword(r) \/ InvalidateUserTokens(r)
      PROVE  DataOK'
  <2>1. requests[r].stamp \in 0 .. MaxNow + 1
    BY DEF TypeOK
  <2>2. Stamp(requests[r].stamp) /\ UNCHANGED <<now, latest, pairs, revoked, spent>>
        /\ password' \in 0 .. MaxChanges
    BY <1>1, <1>6, TimesAssumption DEF WritePassword, InvalidateUserTokens
  <2> QED BY <1>1, <2>1, <2>2 DEF Stamp
<1>7. ASSUME NEW r \in Requests, NEW p \in Pairs, LoginSign(r, p) \/ RefreshSign(r, p)
      PROVE  DataOK'
  BY <1>1, <1>7, SignCases, SignTypes
<1>8. CASE UNCHANGED data
  BY <1>1, <1>8 DEF data
<1> QED BY <1>2, <1>3, <1>4, <1>5, <1>6, <1>7, <1>8, Cases

(***************************************************************************)
(* Time, stamps and what was spent.                                        *)
(***************************************************************************)

LEMMA StepClock ==
  ASSUME TypeOK, Carried, Clock, [Next]_vars
  PROVE  Clock' /\ latest <= latest'
<1> USE TimesAssumption DEF TypeOK, Clock
<1>1. CASE Tick
  <2>1. \A p \in Pairs : pairs[p] # None => pairs[p].iat \in Int
    BY DEF Pair
  <2> QED BY <1>1, <2>1 DEF Tick
<1>2. CASE StepBack
  BY <1>2 DEF StepBack
<1>3. ASSUME NEW r \in Requests, NEW p \in Pairs, LoginSign(r, p) \/ RefreshSign(r, p)
      PROVE  Clock' /\ latest <= latest'
  <2>1. /\ UNCHANGED <<now, latest>> /\ pairs'[p].iat = now
        /\ \A q \in Pairs : q # p => pairs'[q] = pairs[q]
    BY <1>3, SignCases, SignTypes
  <2> QED BY <2>1
<1>4. CASE UNCHANGED <<now, latest, pairs>>
  BY <1>4
<1>5. CASE GCRevoked \/ (\E p \in Pairs : Logout(p)) \/ UNCHANGED data
           \/ \E r \in Requests : claimJTI(r) \/ WritePassword(r) \/ InvalidateUserTokens(r)
  BY <1>4, <1>5 DEF GCRevoked, Logout, claimJTI, WritePassword, InvalidateUserTokens, data
<1> QED BY <1>1, <1>2, <1>3, <1>5, Cases

\* A stamp is computed now, waits and is written.
LEMMA StepStamps ==
  ASSUME TypeOK, TypeOK', Carried, Clock, Clock', Stamps, [Next]_vars
  PROVE  Stamps'
<1>1. /\ now \in Nat /\ latest \in Nat /\ now' \in Nat /\ latest' \in Nat
      /\ strongest \in Nat /\ validAfter \in Nat /\ MaxBack \in Nat /\ MaxLag \in Nat
      /\ \A r \in Requests : requests[r].stamp \in Nat /\ requests[r].lag \in 0 .. MaxLag
  BY TimesAssumption DEF TypeOK
<1>2. latest <= latest'
  BY StepClock
<1> DEFINE Waits(r) == Stamping(r) => /\ now <= requests[r].stamp + requests[r].lag
                                      /\ \/ latest <= requests[r].stamp + MaxBack
                                         \/ latest <= requests[r].stamp + requests[r].lag
                                      /\ requests[r].stamp <= latest + 1
           Written == strongest <= latest + 1 /\ strongest <= validAfter + Slack
<1>3. \A r \in Requests : Waits(r)
  BY DEF Stamps
<1>4. Written
  BY DEF Stamps
<1> SUFFICES (\A r \in Requests : Waits(r)') /\ Written'
  BY DEF Stamps
<1>5. CASE Tick
  <2>1. /\ now' = now + 1 /\ (latest' = latest \/ latest' = now')
        /\ UNCHANGED <<strongest, validAfter>>
    BY <1>1, <1>5 DEF Tick
  <2>2. ASSUME NEW r \in Requests
        PROVE  Waits(r)'
    <3>1. requests'[r] = IF Stamping(r) THEN [requests[r] EXCEPT !.lag = @ + 1] ELSE requests[r]
      BY <1>5 DEF Tick
    <3>2. CASE Stamping(r)
      <4>1. requests'[r].stamp = requests[r].stamp /\ requests'[r].lag = requests[r].lag + 1
        BY <3>1, <3>2 DEF TypeOK
      <4> QED BY <1>1, <1>2, <1>3, <2>1, <3>2, <4>1
    <3>3. CASE ~Stamping(r)
      BY <3>1, <3>3 DEF Stamping
    <3> QED BY <3>2, <3>3
  <2>3. PICK highest \in Nat : highest = latest'
    BY <1>1
  <2>4. strongest <= latest + 1 /\ latest <= highest
    BY <1>2, <1>4, <2>3
  <2>5. strongest <= highest + 1
    BY <1>1, <2>4
  <2>6. Written'
    BY <1>4, <2>1, <2>3, <2>5 DEF Slack
  <2> QED BY <2>2, <2>6
<1>6. CASE now' <= now /\ UNCHANGED <<latest, strongest, validAfter, requests>>
  BY <1>1, <1>3, <1>4, <1>6 DEF Stamping, Slack
<1>7. CASE StepBack \/ GCRevoked \/ (\E p \in Pairs : Logout(p)) \/ UNCHANGED vars
  <2>1. CASE StepBack
    BY <1>1, <1>6, <2>1 DEF StepBack
  <2>2. CASE GCRevoked \/ (\E p \in Pairs : Logout(p)) \/ UNCHANGED vars
    <3>1. UNCHANGED <<now, latest, strongest, validAfter, requests>>
      BY <2>2 DEF GCRevoked, Logout, vars
    <3>2. now' <= now
      BY <1>1, <3>1
    <3> QED BY <1>6, <3>1, <3>2
  <2> QED BY <1>7, <2>1, <2>2
<1>8. ASSUME NEW r \in Requests, RequestStep(r)
      PROVE  (\A s \in Requests : Waits(s)') /\ Written'
  <2>1. ASSUME UNCHANGED <<now, latest, strongest, validAfter>>,
               ~Stamping(r)', \A s \in Requests \ {r} : requests'[s] = requests[s]
        PROVE  (\A s \in Requests : Waits(s)') /\ Written'
    BY <1>3, <1>4, <2>1 DEF Stamping, Slack
  <2>2. CASE Vanish(r) \/ Login(r) \/ IsRevoked(r) \/ userByID(r) \/ claimJTI(r)
             \/ \E p \in Pairs : LoginSign(r, p) \/ RequireAuth(r, p) \/ Refresh(r, p) \/ RefreshSign(r, p)
    <3>1. \/ Finish(r)
          \/ \E op \in Ops : op \notin {"change", "replay"} /\ Goto(r, op)
          \/ \E op \in Ops, p \in Pairs \cup {None} : \E pw : op \notin {"change", "replay"} /\ Start(r, op, p, pw)
      BY <2>2 DEF Vanish, Login, IsRevoked, userByID, claimJTI, LoginSign, RequireAuth, Refresh, RefreshSign, Ops
    <3>2. ~Stamping(r)' /\ \A s \in Requests \ {r} : requests'[s] = requests[s]
      BY <3>1 DEF Finish, Goto, Start, Idle, Stamping, TypeOK
    <3>3. UNCHANGED <<now, latest, strongest, validAfter>>
      BY <2>2 DEF Vanish, Login, IsRevoked, userByID, claimJTI, LoginSign, RequireAuth, Refresh, RefreshSign
    <3> QED BY <2>1, <3>2, <3>3
  <2>3. CASE UpdatePassword(r) \/ Replay(r)
    <3>1. PICK stamp \in Nat : /\ requests'[r].stamp = stamp /\ now <= stamp /\ stamp <= latest + 1
                               /\ \A s \in Requests \ {r} : requests'[s] = requests[s]
      <4>1. CASE UpdatePassword(r)
        <5>1. now \in Nat /\ now <= now /\ now <= latest + 1
          BY <1>1 DEF Clock
        <5>2. requests'[r].stamp = now /\ \A s \in Requests \ {r} : requests'[s] = requests[s]
          BY <4>1 DEF UpdatePassword, TypeOK
        <5> QED BY <5>1, <5>2
      <4>2. CASE Replay(r)
        <5>1. requests[r].pair \in Pairs /\ pairs[requests[r].pair] \in Pair /\ pairs[requests[r].pair] # None
          BY <4>2, PairOf DEF Replay, At
        <5> DEFINE stamp == ReplayStamp(requests[r].pair)
        <5>2. stamp \in Nat /\ now <= stamp /\ stamp <= latest + 1
          BY <1>1, <5>1 DEF ReplayStamp, Clock, Pair
        <5>3. requests'[r].stamp = stamp /\ \A s \in Requests \ {r} : requests'[s] = requests[s]
          BY <4>2 DEF Replay, TypeOK
        <5> QED BY <5>2, <5>3
      <4> QED BY <2>3, <4>1, <4>2
    <3>2. UNCHANGED <<now, latest, strongest, validAfter>>
      BY <2>3 DEF UpdatePassword, Replay
    <3>3. requests'[r].lag \in Nat
      BY TimesAssumption DEF TypeOK
    <3>4. Waits(r)'
      BY <1>1, <3>1, <3>2, <3>3 DEF Clock
    <3>5. \A s \in Requests \ {r} : Waits(s)'
      BY <1>3, <3>1, <3>2 DEF Stamping
    <3> QED BY <1>4, <3>2, <3>4, <3>5 DEF Slack
  <2>4. CASE WritePassword(r) \/ InvalidateUserTokens(r)
    <3>1. /\ Finish(r) /\ Stamp(requests[r].stamp) /\ Stamping(r) /\ UNCHANGED <<now, latest>>
      BY <2>4 DEF WritePassword, InvalidateUserTokens, At, Stamping
    <3>2. \A s \in Requests : Waits(s)'
      BY <1>3, <3>1 DEF Finish, Idle, Stamping, TypeOK
    <3>3. /\ latest <= requests[r].stamp + MaxBack \/ latest <= requests[r].stamp + MaxLag
          /\ requests[r].stamp <= latest + 1
      BY <1>1, <1>3, <3>1
    <3>4. Written'
      BY <1>1, <1>4, <3>1, <3>3 DEF Stamp, Slack
    <3> QED BY <3>2, <3>4
  <2> QED BY <1>8, <2>2, <2>3, <2>4 DEF RequestStep
<1> QED BY <1>5, <1>7, <1>8 DEF Next

\* What is spent or swapped was signed, and is remembered as long as it counts.
LEMMA StepSigned ==
  ASSUME TypeOK, Carried, Signed, Kept, Clock, TypeOK', Clock', [Next]_vars
  PROVE  Signed' /\ Kept'
<1>1. latest <= latest' /\ latest \in Nat /\ latest' \in Nat
  BY StepClock DEF TypeOK
<1>2. \A t \in spent : t \in Tokens /\ t[1] \in Pairs /\ pairs[t[1]] # None
  BY DEF TypeOK, Tokens, Signed
<1>3. \A t \in spent : Exp(t) \in Nat
  BY <1>2, Expiry
<1>4. CASE pairs' = pairs /\ spent' = spent /\ (revoked' = revoked \/ GCRevoked)
  <2>1. Signed'
    BY <1>4 DEF Signed
  <2>2. ASSUME NEW t \in spent, latest' <= Exp(t)
        PROVE  t \in revoked'
    <3>1. latest <= Exp(t) /\ t \in revoked
      BY <1>1, <1>3, <2>2 DEF Kept
    <3>2. CASE GCRevoked
      <4>1. now <= Exp(t)
        BY <1>1, <1>3, <3>1 DEF Clock, TypeOK
      <4>2. now \in Nat /\ Exp(t) \in Nat /\ revoked' = {x \in revoked : Exp(x) >= now}
        BY <1>3, <3>2 DEF GCRevoked, TypeOK
      <4>3. Exp(t) >= now
        BY <4>1, <4>2
      <4> QED BY <3>1, <4>2, <4>3
    <3> QED BY <1>4, <3>1, <3>2
  <2>3. Kept'
    BY <1>4, <2>2 DEF Kept, Exp
  <2> QED BY <2>1, <2>3
<1>5. ASSUME NEW token \in Tokens, pairs[token[1]] # None, Spend(token), pairs' = pairs
      PROVE  Signed' /\ Kept'
  <2>1. Signed'
    BY <1>5 DEF Signed, Spend
  <2>2. ASSUME NEW t \in spent', latest' <= Exp(t)
        PROVE  t \in revoked'
    <3>1. CASE t = token
      BY <1>5, <3>1 DEF Spend
    <3>2. CASE t \in spent
      BY <1>1, <1>3, <1>5, <2>2, <3>2 DEF Kept, Spend
    <3> QED BY <1>5, <3>1, <3>2 DEF Spend
  <2>3. Kept'
    BY <1>5, <2>2 DEF Kept, Exp
  <2> QED BY <2>1, <2>3
<1>6. ASSUME NEW p \in Pairs, Logout(p)
      PROVE  Signed' /\ Kept'
  <2>1. <<p, "access">> \in Tokens /\ pairs[p] # None
    BY <1>6 DEF Logout, Parses, Tokens, Kinds
  <2> QED BY <1>5, <1>6, <2>1 DEF Logout
<1>7. ASSUME NEW r \in Requests, claimJTI(r)
      PROVE  Signed' /\ Kept'
  <2>1. requests[r].pair \in Pairs /\ pairs[requests[r].pair] # None
    BY <1>7, PairOf DEF claimJTI, At
  <2>2. <<requests[r].pair, "refresh">> \in Tokens
    BY <2>1 DEF Tokens, Kinds
  <2> QED BY <1>5, <1>7, <2>1, <2>2 DEF claimJTI
<1>8. ASSUME NEW r \in Requests, NEW p \in Pairs, LoginSign(r, p) \/ RefreshSign(r, p)
      PROVE  Signed' /\ Kept'
  <2>1. PICK pw \in 0 .. MaxChanges, parent \in Pairs \cup {None} :
               Sign(p, pw, parent) /\ (parent # None => pairs[parent] # None)
    BY <1>8, SignCases
  <2>2. UNCHANGED <<latest, revoked, spent>>
    BY <1>8, SignCases
  <2>3. /\ pairs'[p].parent = parent /\ \A q \in Pairs : q # p => pairs'[q] = pairs[q]
        /\ \A q \in Pairs : pairs[q] # None => pairs'[q] = pairs[q]
    BY <2>1, SignTypes
  <2>4. \A t \in spent : pairs'[t[1]] = pairs[t[1]]
    BY <1>2, <2>3
  <2>5. Kept'
    BY <2>2, <2>4 DEF Kept, Exp
  <2>6. ASSUME NEW k \in Pairs, pairs'[k] # None, pairs'[k].parent # None
        PROVE  pairs'[pairs'[k].parent] # None
    <3>1. CASE k = p
      BY <2>1, <2>3, <2>6, <3>1
    <3>2. CASE k # p
      <4>1. pairs'[k] = pairs[k] /\ pairs[k] \in Pair
        BY <2>3, <2>6, <3>2 DEF TypeOK
      <4>2. pairs[k].parent \in Pairs /\ pairs[pairs[k].parent] # None
        BY <2>6, <4>1 DEF Signed, Pair
      <4> QED BY <2>3, <4>1, <4>2
    <3> QED BY <3>1, <3>2
  <2>7. Signed'
    BY <1>2, <2>2, <2>4, <2>6 DEF Signed
  <2> QED BY <2>5, <2>7
<1>9. CASE Tick \/ StepBack \/ GCRevoked \/ UNCHANGED data
           \/ \E r \in Requests : WritePassword(r) \/ InvalidateUserTokens(r)
  BY <1>4, <1>9 DEF Tick, StepBack, GCRevoked, WritePassword, InvalidateUserTokens, data
<1> QED BY <1>6, <1>7, <1>8, <1>9, Cases

(***************************************************************************)
(* Single use.                                                             *)
(***************************************************************************)

\* Single, of one pair.
Alone(p) ==
    /\ \A r \in Requests : Signing(r, p) =>
          /\ <<p, "refresh">> \in revoked
          /\ \A k \in Pairs : ~IsChild(k, p)
          /\ \A s \in Requests : Signing(s, p) => s = r
    /\ \A k \in Pairs : IsChild(k, p) => <<p, "refresh">> \in revoked
    /\ \A k, l \in Pairs : IsChild(k, p) /\ IsChild(l, p) => k = l

\* An expiry stays where it is, so what is not expired was not.
LEMMA StillValid ==
  ASSUME TypeOK, TypeOK', Carried, Clock, Single, [Next]_vars,
         NEW p \in Pairs, pairs[p] # None, pairs'[p] = pairs[p], latest' <= Exp(<<p, "refresh">>)'
  PROVE  latest <= Exp(<<p, "refresh">>) /\ Alone(p)
<1>1. <<p, "refresh">> \in Tokens
  BY DEF Tokens, Kinds
<1>2. Exp(<<p, "refresh">>) \in Nat /\ Exp(<<p, "refresh">>)' = Exp(<<p, "refresh">>)
  BY <1>1, Expiry DEF Exp
<1>3. latest <= latest' /\ latest \in Nat /\ latest' \in Nat
  BY StepClock DEF TypeOK
<1>4. latest <= Exp(<<p, "refresh">>)
  BY <1>2, <1>3
<1> QED BY <1>4 DEF Single, Alone

\* A step after which nobody new is about to sign, no pair is new and no token
\* that counts is forgotten.
LEMMA SingleKept ==
  ASSUME TypeOK, TypeOK', Carried, Clock, Single, [Next]_vars, pairs' = pairs,
         \A r \in Requests, p \in Pairs : Signing(r, p)' => Signing(r, p),
         revoked \subseteq revoked' \/ GCRevoked
  PROVE  Single'
<1> SUFFICES ASSUME NEW p \in Pairs, pairs[p] # None, latest' <= Exp(<<p, "refresh">>)'
             PROVE  Alone(p)'
  BY DEF Single, Alone
<1>1. latest <= Exp(<<p, "refresh">>) /\ Alone(p)
  BY StillValid
<1>2. <<p, "refresh">> \in revoked => <<p, "refresh">> \in revoked'
  <2>1. CASE revoked \subseteq revoked'
    BY <2>1
  <2>2. CASE GCRevoked
    <3>1. <<p, "refresh">> \in Tokens
      BY DEF Tokens, Kinds
    <3>2. Exp(<<p, "refresh">>) \in Nat
      BY <3>1, Expiry
    <3>3. Exp(<<p, "refresh">>) >= now
      BY <1>1, <3>2 DEF Clock, TypeOK
    <3> QED BY <2>2, <3>3 DEF GCRevoked
  <2> QED BY <2>1, <2>2
<1>3. \A k \in Pairs : IsChild(k, p)' <=> IsChild(k, p)
  BY DEF IsChild
<1> QED BY <1>1, <1>2, <1>3 DEF Alone

\* The one request that finds the token unspent is alone with it.
LEMMA SingleClaim ==
  ASSUME TypeOK, TypeOK', Carried, Clock, Single, [Next]_vars, NEW r \in Requests, claimJTI(r)
  PROVE  Single'
<1> DEFINE q == requests[r].pair
<1>1. q \in Pairs /\ pairs[q] # None
  BY PairOf DEF claimJTI, At
<1>2. /\ <<q, "refresh">> \notin revoked /\ revoked' = revoked \cup {<<q, "refresh">>}
      /\ pairs' = pairs /\ requests' = [requests EXCEPT ![r].op = "sign"]
  BY DEF claimJTI, Spend, Goto
<1>3. ASSUME NEW s \in Requests, NEW p \in Pairs
      PROVE  Signing(s, p)' <=> Signing(s, p) \/ (s = r /\ p = q)
  <2>1. CASE s = r
    <3>1. requests'[r].op = "sign" /\ requests'[r].pair = q /\ requests[r].op # "sign"
      BY <1>2 DEF TypeOK, claimJTI, At
    <3> QED BY <2>1, <3>1 DEF Signing, At
  <2>2. CASE s # r
    BY <1>2, <2>2 DEF Signing, At, TypeOK
  <2> QED BY <2>1, <2>2
<1> SUFFICES ASSUME NEW p \in Pairs, pairs[p] # None, latest' <= Exp(<<p, "refresh">>)'
             PROVE  Alone(p)'
  BY <1>2 DEF Single, Alone
<1>4. Alone(p)
  BY <1>2, StillValid
<1>5. \A k \in Pairs : IsChild(k, p)' <=> IsChild(k, p)
  BY <1>2 DEF IsChild
<1>6. CASE p # q
  BY <1>2, <1>3, <1>4, <1>5, <1>6 DEF Alone
<1>7. CASE p = q
  <2>1. (\A s \in Requests : ~Signing(s, p)) /\ (\A k \in Pairs : ~IsChild(k, p))
    BY <1>2, <1>4, <1>7 DEF Alone
  <2>2. <<p, "refresh">> \in revoked' /\ \A k \in Pairs : ~IsChild(k, p)'
    BY <1>2, <1>5, <1>7, <2>1
  <2>3. \A s \in Requests : Signing(s, p)' => s = r
    BY <1>3, <2>1
  <2> QED BY <2>2, <2>3 DEF Alone
<1> QED BY <1>6, <1>7

\* The pair it signs takes its place.
LEMMA SingleSign ==
  ASSUME TypeOK, TypeOK', Carried, Clock, Single, Signed, [Next]_vars,
         NEW r \in Requests, NEW p \in Pairs, LoginSign(r, p) \/ RefreshSign(r, p)
  PROVE  Single'
<1>1. PICK pw \in 0 .. MaxChanges, parent \in Pairs \cup {None} :
             Sign(p, pw, parent) /\ (parent # None => Signing(r, parent) /\ pairs[parent] # None)
  BY SignCases
<1>2. UNCHANGED <<latest, revoked>> /\ Finish(r)
  BY SignCases
<1>3. /\ pairs[p] = None /\ pairs'[p] # None /\ pairs'[p].parent = parent
      /\ \A k \in Pairs : k # p => pairs'[k] = pairs[k]
  BY <1>1, SignTypes DEF Sign
<1>4. parent # p
  BY <1>1, <1>3, NoneAssumption
<1>5. \A s \in Requests, x \in Pairs : Signing(s, x)' => s # r /\ Signing(s, x)
  BY <1>2 DEF Finish, Idle, Signing, At, TypeOK
<1>6. \A k, x \in Pairs : IsChild(k, x)' <=> \/ k = p /\ x = parent
                                             \/ k # p /\ IsChild(k, x)
  BY <1>3 DEF IsChild
<1> SUFFICES ASSUME NEW x \in Pairs, pairs'[x] # None, latest' <= Exp(<<x, "refresh">>)'
             PROVE  Alone(x)'
  BY DEF Single, Alone
<1>7. CASE x = p
  <2>1. \A k \in Pairs : ~IsChild(k, p)
    BY <1>3, NoneAssumption DEF IsChild, Signed
  <2>2. \A s \in Requests : ~Signing(s, p)
    BY <1>3, NoneAssumption DEF Signing, TypeOK
  <2> QED BY <1>4, <1>5, <1>6, <1>7, <2>1, <2>2 DEF Alone
<1>8. CASE x # p
  <2>1. Alone(x)
    BY <1>3, <1>8, StillValid
  <2>2. CASE x = parent
    <3>1. /\ <<x, "refresh">> \in revoked /\ \A k \in Pairs : ~IsChild(k, x)
          /\ \A s \in Requests : Signing(s, x) => s = r
      BY <1>1, <2>1, <2>2, NoneAssumption DEF Alone
    <3> QED BY <1>2, <1>5, <1>6, <3>1 DEF Alone
  <2>3. CASE x # parent
    <3>1. \A k \in Pairs : IsChild(k, x)' => IsChild(k, x)
      BY <1>6, <2>3
    <3> QED BY <1>2, <1>5, <2>1, <3>1 DEF Alone
  <2> QED BY <2>2, <2>3
<1> QED BY <1>7, <1>8

\* Where a step of a request takes it, and that it takes no other anywhere.
LEMMA RequestMoves ==
  ASSUME TypeOK, NEW r \in Requests, RequestStep(r)
  PROVE  /\ \A s \in Requests \ {r} : requests'[s] = requests[s]
         /\ requests'[r].op = "unrevoked" => IsRevoked(r)
         /\ requests'[r].op = "sign" => claimJTI(r)
<1> DEFINE Moves(ops) == /\ \A s \in Requests \ {r} : requests'[s] = requests[s]
                         /\ requests'[r].op \in ops
<1>1. requests \in [Requests -> Request]
  BY DEF TypeOK, Request
<1>2. CASE Vanish(r) \/ WritePassword(r) \/ InvalidateUserTokens(r)
           \/ \E p \in Pairs : LoginSign(r, p) \/ RefreshSign(r, p)
  <2>1. Finish(r)
    BY <1>2 DEF Vanish, WritePassword, InvalidateUserTokens, LoginSign, RefreshSign
  <2>2. Moves({"idle"})
    BY <1>1, <2>1 DEF Finish, Idle
  <2> QED BY <2>2
<1>3. CASE IsRevoked(r)
  <2>1. Moves({"unrevoked"})
    BY <1>1, <1>3 DEF IsRevoked, Goto, Request
  <2> QED BY <1>3, <2>1
<1>4. CASE claimJTI(r)
  <2>1. Moves({"sign"})
    BY <1>1, <1>4 DEF claimJTI, Goto, Request
  <2> QED BY <1>4, <2>1
<1>5. CASE userByID(r)
  <2>1. Moves({"admitted"})
    BY <1>1, <1>5 DEF userByID, Goto, Request
  <2> QED BY <2>1
<1>6. CASE UpdatePassword(r)
  <2>1. Moves({"change"})
    BY <1>1, <1>6 DEF UpdatePassword, Request
  <2> QED BY <2>1
<1>7. CASE Replay(r)
  <2>1. Moves({"replay"})
    BY <1>1, <1>7 DEF Replay, Request
  <2> QED BY <2>1
<1>8. CASE Login(r) \/ \E p \in Pairs : RequireAuth(r, p) \/ Refresh(r, p)
  <2>1. PICK op \in {"login", "parsed", "claim"}, p \in Pairs \cup {None} : \E pw : Start(r, op, p, pw)
    BY <1>8 DEF Login, RequireAuth, Refresh
  <2>2. Moves({op})
    BY <1>1, <2>1 DEF Start
  <2> QED BY <2>1, <2>2
<1> QED BY <1>2, <1>3, <1>4, <1>5, <1>6, <1>7, <1>8 DEF RequestStep

LEMMA StepSingle ==
  ASSUME Inv, TypeOK', [Next]_vars
  PROVE  Single'
<1>1. TypeOK /\ Carried /\ Clock /\ Signed /\ Single
  BY DEF Inv
<1>3. CASE StepBack \/ GCRevoked \/ (\E p \in Pairs : Logout(p)) \/ UNCHANGED vars
  <2>1. requests' = requests /\ pairs' = pairs /\ (revoked \subseteq revoked' \/ GCRevoked)
    BY <1>3 DEF StepBack, GCRevoked, Logout, Spend, vars
  <2> QED BY <1>1, <2>1, SingleKept DEF Signing, At
<1>4. CASE Tick
  <2>1. \A r \in Requests : requests'[r].op = requests[r].op /\ requests'[r].pair = requests[r].pair
    BY <1>1, <1>4 DEF Tick, TypeOK
  <2> QED BY <1>1, <1>4, <2>1, SingleKept DEF Tick, Signing, At
<1>5. ASSUME NEW r \in Requests, RequestStep(r)
      PROVE  Single'
  <2>1. CASE claimJTI(r)
    BY <1>1, <2>1, SingleClaim
  <2>2. CASE \E p \in Pairs : LoginSign(r, p) \/ RefreshSign(r, p)
    BY <1>1, <2>2, SingleSign
  <2>3. CASE Reads(r) \/ WritePassword(r) \/ InvalidateUserTokens(r)
    <3>1. pairs' = pairs /\ revoked' = revoked
      BY <2>3, ReadsKeepData DEF data, WritePassword, InvalidateUserTokens
    <3>2. requests'[r].op # "sign" /\ \A s \in Requests \ {r} : requests'[s] = requests[s]
      <4>1. ~claimJTI(r)
        BY <2>3, <3>1 DEF Reads, At, Vanish, Login, IsRevoked, userByID, UpdatePassword, Replay,
                          RequireAuth, Refresh, WritePassword, InvalidateUserTokens, claimJTI, Spend
      <4> QED BY <1>1, <1>5, <4>1, RequestMoves
    <3>3. \A s \in Requests, p \in Pairs : Signing(s, p)' => Signing(s, p)
      BY <3>2 DEF Signing, At
    <3> QED BY <1>1, <3>1, <3>3, SingleKept
  <2> QED BY <1>5, <2>1, <2>2, <2>3 DEF RequestStep, Reads
<1> QED BY <1>3, <1>4, <1>5 DEF Next

\* Every reachable state satisfies the inductive invariant.
THEOREM Invariance == Spec => []Inv
<1>1. Inv /\ [Next]_vars => Inv'
  BY StepTypes, StepClock, StepStamps, StepSigned, StepSingle DEF Inv
<1> QED BY <1>1, InitInv, PTL DEF Spec

\* Sessions are well typed, and requests name pairs that were signed.
THEOREM TypeCorrect == Spec => []TypeOK
  BY Invariance, PTL DEF Inv

\* While it may be valid, a refresh token is swapped for at most one pair.
THEOREM RotatedOnceHolds == Spec => []RotatedOnce
<1>1. Inv => RotatedOnce
  <2> SUFFICES ASSUME Inv, NEW p \in Pairs, pairs[p] # None, latest <= Exp(<<p, "refresh">>)
               PROVE  Cardinality(Children(p)) <= 1
    BY DEF RotatedOnce
  <2>1. \A k, l \in Children(p) : k = l
    BY DEF Inv, Single, Children, IsChild
  <2>2. CASE Children(p) = {}
    BY <2>2, FS_EmptySet
  <2>3. ASSUME NEW k \in Children(p)
        PROVE  Cardinality(Children(p)) <= 1
    <3>1. Children(p) = {k}
      BY <2>1, <2>3
    <3> QED BY <3>1, FS_Singleton
  <2> QED BY <2>2, <2>3
<1> QED BY <1>1, Invariance, PTL

\* A password change or a replay alarm is undone by at most the named slack.
THEOREM RevocationLastsHolds == Spec => []RevocationLasts
<1>1. Inv => RevocationLasts
  <2> SUFFICES ASSUME Inv, NEW p \in Pairs, pairs[p] # None, ~tokenSuperseded(p)
               PROVE  pairs[p].iat >= strongest - Slack
    BY DEF RevocationLasts
  <2>1. pairs[p].iat \in Nat /\ validAfter \in Nat /\ strongest \in Nat /\ Slack \in Nat
    BY TimesAssumption DEF Inv, TypeOK, Pair, Slack
  <2>2. pairs[p].iat >= validAfter /\ strongest <= validAfter + Slack
    BY <2>1 DEF tokenSuperseded, Inv, Stamps
  <2> QED BY <2>1, <2>2
<1> QED BY <1>1, Invariance, PTL

\* A token that was logged out or rotated is not taken for unspent while it
\* may be valid.
THEOREM SpentStaysSpentHolds == Spec => SpentStaysSpent
<1> DEFINE Late(r, kind) == LET token == <<requests[r].pair, kind>>
                            IN token \in spent => latest > Exp(token)
           Act == \A r \in Requests : /\ Clears(r, "parsed", "unrevoked") => Late(r, "access")
                                      /\ Clears(r, "claim", "sign") => Late(r, "refresh")
<1>1. Inv /\ [Next]_vars => [Act]_vars
  <2> SUFFICES ASSUME Inv, Next, NEW r \in Requests
               PROVE  /\ Clears(r, "parsed", "unrevoked") => Late(r, "access")
                      /\ Clears(r, "claim", "sign") => Late(r, "refresh")
    OBVIOUS
  <2>1. TypeOK
    BY DEF Inv
  <2>2. /\ Clears(r, "parsed", "unrevoked") => IsRevoked(r)
        /\ Clears(r, "claim", "sign") => claimJTI(r)
    <3>1. CASE StepBack \/ GCRevoked \/ (\E p \in Pairs : Logout(p))
      BY <3>1 DEF Clears, At, StepBack, GCRevoked, Logout
    <3>2. CASE Tick
      BY <2>1, <3>2 DEF Clears, At, Tick, TypeOK
    <3>3. ASSUME NEW s \in Requests, RequestStep(s)
          PROVE  /\ Clears(r, "parsed", "unrevoked") => IsRevoked(r)
                 /\ Clears(r, "claim", "sign") => claimJTI(r)
      <4>1. CASE s = r
        BY <2>1, <3>3, <4>1, RequestMoves DEF Clears
      <4>2. CASE s # r
        BY <2>1, <3>3, <4>2, RequestMoves DEF Clears, At
      <4> QED BY <4>1, <4>2
    <3> QED BY <3>1, <3>2, <3>3 DEF Next
  <2>3. ASSUME NEW kind \in Kinds, <<requests[r].pair, kind>> \notin revoked
        PROVE  Late(r, kind)
    <3> SUFFICES ASSUME <<requests[r].pair, kind>> \in spent
                 PROVE  latest > Exp(<<requests[r].pair, kind>>)
      OBVIOUS
    <3> DEFINE token == <<requests[r].pair, kind>>
    <3>1. ~(latest <= Exp(token)) /\ latest \in Nat
      BY <2>3 DEF Inv, Kept, TypeOK
    <3>2. token \in Tokens /\ pairs[token[1]] # None
      BY <2>1 DEF TypeOK, Inv, Signed
    <3>3. Exp(token) \in Nat
      BY <2>1, <3>2, Expiry
    <3> QED BY <3>1, <3>3
  <2> QED BY <2>2, <2>3 DEF IsRevoked, claimJTI, Kinds
<1> QED BY <1>1, Invariance, PTL DEF Spec, SpentStaysSpent
=============================================================================
