----------------------------- MODULE RateLimit -----------------------------
(***************************************************************************)
(* The rate limiter: a token bucket for each client address, made when the *)
(* address first appears, refilled lazily, and dropped once it has been    *)
(* idle for TTL.  The address is read from the forwarding headers when the *)
(* peer is a trusted proxy.                                                *)
(*                                                                         *)
(* Dropping idle buckets and drawing on one are two critical sections of a *)
(* request; others, and time, come between them.  A tick of the clock is   *)
(* the time in which a bucket regains one unit, a token is Cost units (2   *)
(* ticks of a second for the strict limiter, 1 of half a second for the    *)
(* standard one).                                                          *)
(***************************************************************************)
EXTENDS Integers, FiniteSets, Sequences

CONSTANTS
    Clients,        \* client addresses
    Proxies,        \* trusted addresses: loopback and TRUSTED_PROXIES
    Blank,          \* an empty item, or an absent X-Real-IP
    Injected,       \* X-Forwarded-For chains a client may send itself
    Hops,           \* chains of trusted proxies behind the first one
    Cost,           \* units in a token
    Capacity,       \* units in a full bucket: burst tokens
    TTL,            \* ratelimit.go tokenTTL, in ticks
    GCEvery,        \* ratelimit.go gcEvery, in ticks
    MaxPending,     \* bound: requests between their two critical sections
    MaxRefused,     \* bound: refusals counted in a window, by client
    MaxNow          \* bound: last tick

\* An idle bucket is full before it may be dropped: 10 minutes against the 60
\* and 30 seconds in which the two limiters' buckets fill.
ASSUME LimitsAssumption ==
    /\ Cost \in Nat \ {0} /\ Capacity \in Nat /\ Cost <= Capacity
    /\ TTL \in Nat /\ GCEvery \in Nat /\ Capacity <= TTL
    /\ MaxPending \in Nat /\ MaxRefused \in Nat /\ MaxNow \in Nat

ASSUME AddressesAssumption ==
    /\ Clients \cap Proxies = {}
    /\ Blank \notin Clients \cup Proxies
    /\ Injected \subseteq Seq(Clients \cup Proxies \cup {Blank})
    /\ Hops \subseteq Seq(Proxies)

Addresses == Clients \cup Proxies

\* A bucket: its units at the tick they were last reckoned, and when it was
\* last asked for.
Entry == [tokens : 0 .. Capacity, at : 0 .. MaxNow, last : 0 .. MaxNow]

NoBucket == [tokens |-> Capacity, at |-> -1, last |-> -1]

VARIABLES
    now,            \* time.Now(), monotonic
    limits,         \* Limiter.limits
    lastGC,         \* Limiter.lastGC
    pending,        \* requests past maybeGC, by true client and key
    opened,         \* history: the tick at which counting began
    served,         \* history: units taken since then, by true client
    refused         \* history: requests refused since then, by true client

vars == <<now, limits, lastGC, pending, opened, served, refused>>

ZeroOf == [k \in Clients |-> 0]

Init ==
    /\ now = 0
    /\ limits = [k \in Addresses |-> NoBucket]
    /\ lastGC = 0
    /\ pending = {}
    /\ opened = 0
    /\ served = ZeroOf
    /\ refused = ZeroOf

(***************************************************************************)
(* The client's address.                                                   *)
(***************************************************************************)

\* How a request of client k reaches the server: directly, with any headers;
\* through proxies, the first of which appends the address it saw and the
\* others theirs; or through one that sets X-Real-IP and lets no X-Forwarded-For
\* of the client through.
Arrivals(k) ==
    {[peer |-> k, xff |-> chain, realIP |-> a] : chain \in Injected, a \in Addresses \cup {Blank}}
    \cup {[peer |-> p, xff |-> (chain \o <<k>>) \o hops, realIP |-> a] :
             p \in Proxies, chain \in Injected, hops \in Hops, a \in Addresses \cup {Blank}}
    \cup {[peer |-> p, xff |-> <<>>, realIP |-> k] : p \in Proxies}

isTrustedProxy(a) == a \in Proxies

\* The items of a chain that name somebody and not a trusted proxy.
Named(xff) == {i \in 1 .. Len(xff) : xff[i] # Blank /\ ~isTrustedProxy(xff[i])}

\* Mutant: the chain is read from the left.
clientIP_LeftToRight(r) ==
    IF ~isTrustedProxy(r.peer) THEN r.peer
    ELSE IF Named(r.xff) # {}
         THEN r.xff[CHOOSE i \in Named(r.xff) : \A j \in Named(r.xff) : i <= j]
    ELSE IF r.realIP # Blank THEN r.realIP
    ELSE r.peer

\* Mutant: headers are never looked at.
clientIP_PeerOnly(r) == r.peer

\* Headers count only from a trusted peer, and then from right to left.
clientIP(r) ==
    IF ~isTrustedProxy(r.peer) THEN r.peer
    ELSE IF Named(r.xff) # {}
         THEN r.xff[CHOOSE i \in Named(r.xff) : \A j \in Named(r.xff) : j <= i]
    ELSE IF r.realIP # Blank THEN r.realIP
    ELSE r.peer

(***************************************************************************)
(* The buckets.                                                            *)
(***************************************************************************)

\* rate.Limiter: units regained since the last reckoning, up to the capacity.
Refilled(e) ==
    LET tokens == e.tokens + (now - e.at)
    IN IF e = NoBucket \/ tokens > Capacity THEN Capacity ELSE tokens

\* Buckets that nobody has asked for in more than TTL are dropped.
gc == limits' = [k \in Addresses |-> IF now - limits[k].last > TTL THEN NoBucket ELSE limits[k]]

\* The first critical section of a request: at most once in GCEvery.
maybeGC(k, key) ==
    /\ IF now - lastGC > GCEvery
       THEN gc /\ lastGC' = now
       ELSE UNCHANGED <<limits, lastGC>>
    /\ pending' = pending \cup {[client |-> k, key |-> key]}
    /\ Cardinality(pending') <= MaxPending
    /\ UNCHANGED <<now, opened, served, refused>>

\* Mutant: a bucket remembers its first request only.
Allow_KeepsLast(q) ==
    LET e == limits[q.key]
        tokens == Refilled(e)
        last == IF e = NoBucket THEN now ELSE e.last
    IN /\ pending' \in {pending, pending \ {q}}
       /\ IF tokens >= Cost
          THEN /\ limits' = [limits EXCEPT ![q.key] = [tokens |-> tokens - Cost, at |-> now, last |-> last]]
               /\ served' = [served EXCEPT ![q.client] = @ + Cost]
               /\ UNCHANGED refused
          ELSE /\ limits' = [limits EXCEPT ![q.key] = [tokens |-> tokens, at |-> now, last |-> last]]
               /\ refused' = [refused EXCEPT ![q.client] = @ + 1]
               /\ refused'[q.client] <= MaxRefused
               /\ UNCHANGED served
       /\ UNCHANGED <<now, lastGC, opened>>

\* The second one: a token is taken if there is one, and the bucket, made full
\* if there was none, counts as asked for in either case.
Allow(q) ==
    LET tokens == Refilled(limits[q.key])
        Asked(left) == limits' = [limits EXCEPT ![q.key] = [tokens |-> left, at |-> now, last |-> now]]
    IN /\ pending' \in {pending, pending \ {q}}     \* another request may be at the same place
       /\ \/ /\ tokens >= Cost
             /\ Asked(tokens - Cost)
             /\ served' = [served EXCEPT ![q.client] = @ + Cost]
             /\ UNCHANGED refused
          \/ /\ tokens < Cost
             /\ refused[q.client] < MaxRefused
             /\ Asked(tokens)
             /\ refused' = [refused EXCEPT ![q.client] = @ + 1]
             /\ UNCHANGED served
       /\ UNCHANGED <<now, lastGC, opened>>

Tick ==
    /\ now < MaxNow
    /\ now' = now + 1
    /\ UNCHANGED <<limits, lastGC, pending, opened, served, refused>>

\* A window of observation begins; no code, only the count of what follows.
Observe ==
    /\ opened' = now
    /\ served' = ZeroOf
    /\ refused' = ZeroOf
    /\ UNCHANGED <<now, limits, lastGC, pending>>

Next ==
    \/ Tick
    \/ Observe
    \/ \E k \in Clients : \E key \in {clientIP(r) : r \in Arrivals(k)} : maybeGC(k, key)
    \/ \E q \in pending : Allow(q)

Spec == Init /\ [][Next]_vars

(***************************************************************************)
(* Properties.                                                             *)
(***************************************************************************)

\* Buckets are well formed, and there are none but of clients: no proxy is
\* ever charged for those behind it.
TypeOK ==
    /\ now \in 0 .. MaxNow
    /\ limits \in [Addresses -> Entry \cup {NoBucket}]
    /\ \A k \in Addresses : limits[k].at <= now /\ limits[k].last <= now
    /\ \A k \in Proxies : limits[k] = NoBucket
    /\ lastGC \in 0 .. now
    /\ pending \subseteq [client : Clients, key : Clients]
    /\ opened \in 0 .. now
    /\ served \in [Clients -> Nat]
    /\ refused \in [Clients -> 0 .. MaxRefused]

\* In no stretch of time, wherever it begins and whatever the collection does
\* in it, is a client served more than the burst and what the stretch refills.
WindowBound == \A k \in Clients : served[k] <= Capacity + (now - opened)

\* The units a client has as of now.
Level == [k \in Clients |-> Refilled(limits[k])]

Ideal == INSTANCE Budget WITH level <- Level

\* Lazy refill, collection, the pause between the two critical sections and
\* the headers a client invents are not to be seen: the limiter serves and
\* refuses exactly as one budget for each client would that is never dropped.
ImplementsBudget == Ideal!Spec
=============================================================================
