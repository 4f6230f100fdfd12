-------------------------- MODULE RateLimitProofs --------------------------
(***************************************************************************)
(* Theorems about RateLimit, for any clients, proxies, forwarding chains   *)
(* and limits of which LimitsAssumption and AddressesAssumption hold.      *)
(*                                                                         *)
(* The argument: a key is the true client (ClientKey); a bucket that may   *)
(* be dropped is full, since the time to live is at least the time it      *)
(* takes to fill (DroppedIsFull); so each step leaves every level as the   *)
(* budget without collection has it (the StepLevel lemmas).                *)
(***************************************************************************)
EXTENDS RateLimit, SequenceTheorems, TLAPS

\* A bucket is reckoned whenever it is asked for, never in the future.
Reckoned == \A k \in Addresses : limits[k].at = limits[k].last

\* A request draws on the bucket of the client that sent it.
KeysTrue == \A q \in pending : q.key = q.client

\* What a client was served and what it has left never exceed a full bucket
\* and the units of the time since counting began.
Conserved == \A k \in Clients : served[k] + Level[k] <= Capacity + (now - opened)

Inv == TypeOK /\ Reckoned /\ KeysTrue /\ Conserved

(***************************************************************************)
(* The key.                                                                *)
(***************************************************************************)

\* The last item of a chain that is no proxy is the address that the first
\* proxy saw, whatever the client wrote before it.
LEMMA LastNamed ==
  ASSUME NEW k \in Clients, NEW chain \in Injected, NEW hops \in Hops
  PROVE  LET xff == (chain \o <<k>>) \o hops
         IN /\ Len(chain) + 1 \in Named(xff)
            /\ xff[Len(chain) + 1] = k
            /\ \A i \in Named(xff) : i <= Len(chain) + 1
<1> DEFINE S == Clients \cup Proxies \cup {Blank}
           xff == (chain \o <<k>>) \o hops
<1>1. chain \in Seq(S) /\ <<k>> \in Seq(S) /\ Len(<<k>>) = 1
  BY AddressesAssumption
<1>2. hops \in Seq(Proxies) /\ hops \in Seq(S)
  BY AddressesAssumption, SeqMonotonic
<1>3. /\ chain \o <<k>> \in Seq(S)
      /\ Len(chain \o <<k>>) = Len(chain) + 1
      /\ (chain \o <<k>>)[Len(chain) + 1] = k
  BY <1>1
<1>4. /\ Len(xff) = Len(chain) + 1 + Len(hops)
      /\ \A i \in 1 .. Len(xff) : xff[i] = IF i <= Len(chain) + 1 THEN (chain \o <<k>>)[i]
                                           ELSE hops[i - (Len(chain) + 1)]
  <2> DEFINE front == chain \o <<k>>
  <2>1. /\ Len(front \o hops) = Len(front) + Len(hops)
        /\ \A i \in 1 .. Len(front) + Len(hops) :
              (front \o hops)[i] = IF i <= Len(front) THEN front[i] ELSE hops[i - Len(front)]
    BY <1>2, <1>3, ConcatProperties
  <2> QED BY <2>1, <1>3
<1>5. Len(chain) \in Nat /\ Len(hops) \in Nat
  BY <1>1, <1>2
<1>6. xff[Len(chain) + 1] = k /\ Len(chain) + 1 \in 1 .. Len(xff)
  BY <1>3, <1>4, <1>5
<1>7. \A i \in 1 .. Len(xff) : i > Len(chain) + 1 => xff[i] \in Proxies
  <2> SUFFICES ASSUME NEW i \in 1 .. Len(xff), i > Len(chain) + 1
               PROVE  xff[i] \in Proxies
    OBVIOUS
  <2>1. xff[i] = hops[i - (Len(chain) + 1)] /\ i - (Len(chain) + 1) \in 1 .. Len(hops)
    BY <1>4, <1>5
  <2> QED BY <2>1, <1>2, ElementOfSeq
<1> HIDE DEF xff
<1>8. \A i \in Named(xff) : i <= Len(chain) + 1
  BY <1>5, <1>7 DEF Named, isTrustedProxy
<1>9. Len(chain) + 1 \in Named(xff)
  BY <1>6, AddressesAssumption DEF Named, isTrustedProxy
<1> QED BY <1>6, <1>8, <1>9 DEF xff

\* However a request of a client arrives, its key is the client's address.
THEOREM ClientKey ==
  ASSUME NEW k \in Clients, NEW r \in Arrivals(k)
  PROVE  clientIP(r) = k
<1>1. CASE r \in {[peer |-> k, xff |-> chain, realIP |-> a] :
                     chain \in Injected, a \in Addresses \cup {Blank}}
  BY <1>1, AddressesAssumption DEF clientIP, isTrustedProxy
<1>2. CASE r \in {[peer |-> p, xff |-> (chain \o <<k>>) \o hops, realIP |-> a] :
                     p \in Proxies, chain \in Injected, hops \in Hops, a \in Addresses \cup {Blank}}
  <2>1. PICK p \in Proxies, chain \in Injected, hops \in Hops, a \in Addresses \cup {Blank} :
               r = [peer |-> p, xff |-> (chain \o <<k>>) \o hops, realIP |-> a]
    BY <1>2
  <2> DEFINE last == CHOOSE i \in Named(r.xff) : \A j \in Named(r.xff) : j <= i
             n == Len(chain) + 1
  <2>2. n \in Named(r.xff) /\ r.xff[n] = k /\ \A i \in Named(r.xff) : i <= n
    BY <2>1, LastNamed
  <2>3. last \in Named(r.xff) /\ n <= last /\ last <= n
    BY <2>2
  <2>4. n \in Int /\ last \in Int
    BY <2>2, <2>3 DEF Named
  <2>5. last = n
    BY <2>3, <2>4
  <2> QED BY <2>1, <2>2, <2>5 DEF clientIP, isTrustedProxy
<1>3. CASE r \in {[peer |-> p, xff |-> <<>>, realIP |-> k] : p \in Proxies}
  <2>1. r.peer \in Proxies /\ r.xff = <<>> /\ r.realIP = k
    BY <1>3
  <2>2. Named(r.xff) = {}
    BY <2>1 DEF Named
  <2> QED BY <2>1, <2>2, AddressesAssumption DEF clientIP, isTrustedProxy
<1> QED BY <1>1, <1>2, <1>3 DEF Arrivals

(***************************************************************************)
(* The buckets.                                                            *)
(***************************************************************************)

\* What a bucket holds is between nothing and its capacity.
LEMMA RefilledBounds ==
  ASSUME TypeOK, NEW k \in Addresses
  PROVE  Refilled(limits[k]) \in 0 .. Capacity
  BY LimitsAssumption DEF TypeOK, Refilled, Entry, NoBucket

\* A bucket idle for longer than TTL is as full as a new one.
LEMMA DroppedIsFull ==
  ASSUME TypeOK, Reckoned, NEW k \in Addresses, now - limits[k].last > TTL
  PROVE  Refilled(limits[k]) = Capacity
<1>1. CASE limits[k] = NoBucket
  BY <1>1 DEF Refilled
<1>2. CASE limits[k] \in Entry
  BY <1>2, LimitsAssumption DEF Refilled, Entry, Reckoned, TypeOK
<1> QED BY <1>1, <1>2 DEF TypeOK

\* The collection changes no level.
LEMMA StepLevelGC ==
  ASSUME TypeOK, Reckoned, NEW k \in Clients, NEW key \in Addresses, maybeGC(k, key)
  PROVE  Level' = Level
<1>1. now' = now
  BY DEF maybeGC
<1>2. ASSUME NEW a \in Clients
      PROVE  Refilled(limits[a])' = Refilled(limits[a])
  <2>1. a \in Addresses
    BY DEF Addresses
  <2>2. CASE limits'[a] = limits[a]
    BY <1>1, <2>2 DEF Refilled
  <2>3. CASE limits'[a] = NoBucket /\ now - limits[a].last > TTL
    BY <1>1, <2>1, <2>3, DroppedIsFull DEF Refilled
  <2>4. \/ limits'[a] = limits[a]
        \/ limits'[a] = NoBucket /\ now - limits[a].last > TTL
    BY <2>1 DEF maybeGC, gc
  <2> QED BY <2>2, <2>3, <2>4
<1> QED BY <1>2 DEF Level

\* A tick adds a unit to every level below the capacity.
LEMMA StepLevelTick ==
  ASSUME TypeOK, Tick
  PROVE  Level' = [k \in Clients |-> IF Level[k] < Capacity THEN Level[k] + 1 ELSE Capacity]
<1>1. now' = now + 1 /\ limits' = limits /\ now \in Nat
  BY LimitsAssumption DEF Tick, TypeOK
<1>2. ASSUME NEW k \in Clients
      PROVE  Refilled(limits[k])' = IF Refilled(limits[k]) < Capacity
                                    THEN Refilled(limits[k]) + 1 ELSE Capacity
  <2>1. limits[k] = NoBucket \/ limits[k] \in Entry
    BY DEF TypeOK, Addresses
  <2>2. CASE limits[k] = NoBucket
    BY <1>1, <2>2, LimitsAssumption DEF Refilled
  <2>3. CASE limits[k] # NoBucket /\ limits[k] \in Entry
    <3>1. limits[k].tokens \in Nat /\ limits[k].at \in Nat /\ limits'[k] = limits[k]
      BY <1>1, <2>3 DEF Entry
    <3> QED BY <1>1, <2>3, <3>1, LimitsAssumption DEF Refilled
  <2> QED BY <2>1, <2>2, <2>3
<1> QED BY <1>2 DEF Level

\* A served request costs its client the units of a token and nobody else
\* anything; a refused one costs nothing.
LEMMA StepLevelAllow ==
  ASSUME TypeOK, KeysTrue, NEW q \in pending, Allow(q)
  PROVE  \/ /\ Level[q.client] >= Cost
            /\ Level' = [Level EXCEPT ![q.client] = @ - Cost]
            /\ served' = [served EXCEPT ![q.client] = @ + Cost]
            /\ refused' = refused
         \/ /\ Level[q.client] < Cost
            /\ Level' = Level
            /\ refused' = [refused EXCEPT ![q.client] = @ + 1]
            /\ served' = served
<1> DEFINE k == q.client
           tokens == Refilled(limits[k])
           Asked(left) == limits' = [limits EXCEPT ![k] = [tokens |-> left, at |-> now, last |-> now]]
<1>1. q.key = k /\ k \in Clients /\ k \in Addresses
  BY DEF KeysTrue, TypeOK, Addresses
<1>2. tokens \in 0 .. Capacity /\ Level[k] = tokens
  BY <1>1, RefilledBounds DEF Level
<1>3. now' = now /\ now \in Nat /\ limits \in [Addresses -> Entry \cup {NoBucket}]
  BY LimitsAssumption DEF Allow, TypeOK
<1>4. ASSUME NEW left \in 0 .. Capacity, Asked(left)
      PROVE  Level' = [Level EXCEPT ![k] = left]
  <2>1. Refilled(limits[k])' = left
    <3>1. limits'[k] = [tokens |-> left, at |-> now', last |-> now']
      BY <1>1, <1>3, <1>4
    <3> QED BY <1>3, <3>1, LimitsAssumption DEF Refilled, NoBucket
  <2>2. \A a \in Clients : a # k => Refilled(limits[a])' = Refilled(limits[a])
    BY <1>3, <1>4 DEF Refilled, Addresses
  <2> QED BY <2>1, <2>2, <1>1 DEF Level
<1>5. CASE tokens >= Cost /\ Asked(tokens - Cost)
  <2>1. tokens - Cost \in 0 .. Capacity
    BY <1>2, <1>5, LimitsAssumption
  <2>2. served' = [served EXCEPT ![k] = @ + Cost] /\ refused' = refused
    BY <1>1, <1>2, <1>5, LimitsAssumption DEF Allow
  <2>3. Level' = [Level EXCEPT ![k] = @ - Cost]
    BY <1>1, <1>2, <1>4, <1>5, <2>1 DEF Level
  <2> QED BY <1>2, <1>5, <2>2, <2>3
<1>6. CASE tokens < Cost /\ Asked(tokens)
  <2>1. refused' = [refused EXCEPT ![k] = @ + 1] /\ served' = served
    BY <1>1, <1>2, <1>6, LimitsAssumption DEF Allow
  <2>2. Level' = Level
    BY <1>1, <1>2, <1>4, <1>6 DEF Level
  <2> QED BY <1>2, <1>6, <2>1, <2>2
<1> QED BY <1>1, <1>5, <1>6 DEF Allow

(***************************************************************************)
(* The invariant.                                                          *)
(***************************************************************************)

\* The limiter starts with no bucket and nothing counted.
LEMMA InitInv == Init => Inv
<1> SUFFICES ASSUME Init
             PROVE  Inv
  OBVIOUS
<1>1. TypeOK
  <2>1. NoBucket.at = -1 /\ NoBucket.last = -1
    BY DEF NoBucket
  <2>2. \A k \in Addresses : limits[k] = NoBucket
    BY DEF Init
  <2>3. \A k \in Addresses : limits[k].at <= now /\ limits[k].last <= now
    BY <2>1, <2>2 DEF Init
  <2>4. limits \in [Addresses -> Entry \cup {NoBucket}] /\ Proxies \subseteq Addresses
    BY DEF Init, Addresses
  <2>5. served \in [Clients -> Nat] /\ refused \in [Clients -> 0 .. MaxRefused]
    BY LimitsAssumption DEF Init, ZeroOf
  <2>6. /\ now \in 0 .. MaxNow /\ lastGC \in 0 .. now /\ opened \in 0 .. now
        /\ pending \subseteq [client : Clients, key : Clients]
    BY LimitsAssumption DEF Init
  <2> QED BY <2>2, <2>3, <2>4, <2>5, <2>6 DEF TypeOK
<1>2. Reckoned /\ KeysTrue
  BY DEF Init, Reckoned, KeysTrue, NoBucket
<1>3. Level = [k \in Clients |-> Capacity]
  BY DEF Init, Level, Refilled, Addresses
<1>4. Conserved
  BY <1>3, LimitsAssumption DEF Init, Conserved, ZeroOf
<1> QED BY <1>1, <1>2, <1>4 DEF Inv

\* Types, reckonings and keys.
LEMMA StepTypes ==
  ASSUME TypeOK, Reckoned, KeysTrue, [Next]_vars
  PROVE  TypeOK' /\ Reckoned' /\ KeysTrue'
<1> USE DEF TypeOK, Reckoned, KeysTrue
<1>1. CASE Tick
  <2>1. UNCHANGED <<limits, lastGC, pending, opened, served, refused>>
    BY <1>1 DEF Tick
  <2>2. now \in Nat /\ now' = now + 1 /\ now' \in 0 .. MaxNow
    BY <1>1, LimitsAssumption DEF Tick
  <2>3. lastGC' \in 0 .. now' /\ opened' \in 0 .. now'
    BY <2>1, <2>2
  <2>4. \A a \in Addresses : limits'[a].at <= now' /\ limits'[a].last <= now'
    <3> SUFFICES ASSUME NEW a \in Addresses
                 PROVE  limits[a].at <= now + 1 /\ limits[a].last <= now + 1
      BY <2>1, <2>2
    <3>1. limits[a] \in Entry \cup {NoBucket} /\ limits[a].at <= now /\ limits[a].last <= now
      OBVIOUS
    <3>2. limits[a].at \in Int /\ limits[a].last \in Int
      BY <3>1 DEF Entry, NoBucket
    <3> QED BY <2>2, <3>1, <3>2
  <2> QED BY <2>1, <2>2, <2>3, <2>4
<1>2. CASE Observe
  BY <1>2, LimitsAssumption DEF Observe, ZeroOf
<1>3. ASSUME NEW k \in Clients, NEW r \in Arrivals(k), maybeGC(k, clientIP(r))
      PROVE  TypeOK' /\ Reckoned' /\ KeysTrue'
  <2>1. pending' = pending \cup {[client |-> k, key |-> k]}
    BY <1>3, ClientKey DEF maybeGC
  <2>2. UNCHANGED <<now, opened, served, refused>> /\ lastGC' \in 0 .. now
    BY <1>3, LimitsAssumption DEF maybeGC
  <2>3. /\ limits' \in [Addresses -> Entry \cup {NoBucket}]
        /\ \A a \in Addresses : limits'[a] = limits[a] \/ limits'[a] = NoBucket
    BY <1>3 DEF maybeGC, gc
  <2>4. NoBucket.at = -1 /\ NoBucket.last = -1 /\ now \in Nat
    BY LimitsAssumption DEF NoBucket
  <2>5. \A a \in Addresses : limits'[a].at <= now /\ limits'[a].last <= now
                              /\ limits'[a].at = limits'[a].last
    BY <2>3, <2>4
  <2>6. \A a \in Proxies : limits'[a] = NoBucket
    BY <2>3 DEF Addresses
  <2> QED BY <2>1, <2>2, <2>3, <2>5, <2>6
<1>4. ASSUME NEW q \in pending, Allow(q)
      PROVE  TypeOK' /\ Reckoned' /\ KeysTrue'
  <2>1. q.client \in Clients /\ q.key \in Clients /\ q.key \in Addresses
    BY DEF Addresses
  <2>2. PICK left \in 0 .. Capacity :
               limits' = [limits EXCEPT ![q.key] = [tokens |-> left, at |-> now, last |-> now]]
    <3>1. Refilled(limits[q.key]) \in 0 .. Capacity
      BY <2>1, RefilledBounds
    <3> QED BY <1>4, <3>1, LimitsAssumption DEF Allow
  <2>3. limits' \in [Addresses -> Entry \cup {NoBucket}]
    BY <2>1, <2>2 DEF Entry
  <2>4. UNCHANGED <<now, lastGC, opened>> /\ pending' \subseteq pending
    BY <1>4 DEF Allow
  <2>5. \A a \in Addresses : limits'[a].at <= now /\ limits'[a].last <= now
                              /\ limits'[a].at = limits'[a].last
    BY <2>1, <2>2, LimitsAssumption
  <2>6. \A a \in Proxies : limits'[a] = NoBucket
    BY <2>1, <2>2, AddressesAssumption DEF Addresses
  <2>7. served' \in [Clients -> Nat] /\ refused' \in [Clients -> 0 .. MaxRefused]
    BY <1>4, <2>1, LimitsAssumption DEF Allow
  <2> QED BY <2>3, <2>4, <2>5, <2>6, <2>7
<1>5. CASE UNCHANGED vars
  BY <1>5 DEF vars
<1> QED BY <1>1, <1>2, <1>3, <1>4, <1>5 DEF Next

\* Levels are whole numbers of units, before a step and after it.
LEMMA LevelType ==
  ASSUME TypeOK
  PROVE  Level \in [Clients -> 0 .. Capacity]
  BY RefilledBounds DEF Level, Addresses

LEMMA LevelTypeNext ==
  ASSUME TypeOK'
  PROVE  Level' \in [Clients -> 0 .. Capacity]
<1>1. ASSUME NEW k \in Clients
      PROVE  Refilled(limits[k])' \in 0 .. Capacity
  <2>1. limits'[k] \in Entry \cup {NoBucket} /\ limits'[k].at <= now' /\ now' \in Nat
    BY LimitsAssumption DEF TypeOK, Addresses
  <2> QED BY <2>1, LimitsAssumption DEF Refilled, Entry, NoBucket
<1> QED BY <1>1 DEF Level

\* What is taken from a level is counted, and a level regains no more than time.
LEMMA StepConserved ==
  ASSUME Inv, TypeOK', [Next]_vars
  PROVE  Conserved'
<1> USE DEF Conserved
<1>1. TypeOK /\ Reckoned /\ KeysTrue /\ Conserved
  BY DEF Inv
<1>2. Level \in [Clients -> 0 .. Capacity] /\ Level' \in [Clients -> 0 .. Capacity]
  BY <1>1, LevelType, LevelTypeNext
<1>3. /\ served \in [Clients -> Nat] /\ now \in Nat /\ opened \in Nat
      /\ Capacity \in Nat /\ Cost \in Nat
  BY <1>1, LimitsAssumption DEF TypeOK
<1>4. CASE Tick
  <2>1. now' = now + 1 /\ UNCHANGED <<served, opened>>
    BY <1>4 DEF Tick
  <2>2. \A k \in Clients : Level'[k] <= Level[k] + 1
    BY <1>1, <1>2, <1>3, <1>4, StepLevelTick
  <2> QED BY <1>1, <1>2, <1>3, <2>1, <2>2
<1>5. CASE Observe
  <2>1. now' = now /\ opened' = now /\ \A k \in Clients : served'[k] = 0
    BY <1>5 DEF Observe, ZeroOf
  <2> QED BY <1>2, <1>3, <2>1
<1>6. ASSUME NEW k \in Clients, NEW r \in Arrivals(k), maybeGC(k, clientIP(r))
      PROVE  Conserved'
  <2>1. clientIP(r) \in Addresses
    BY ClientKey DEF Addresses
  <2>2. Level' = Level /\ UNCHANGED <<now, served, opened>>
    BY <1>1, <1>6, <2>1, StepLevelGC DEF maybeGC
  <2> QED BY <1>1, <2>2
<1>7. ASSUME NEW q \in pending, Allow(q)
      PROVE  Conserved'
  <2>1. q.client \in Clients /\ UNCHANGED <<now, opened>>
    BY <1>1, <1>7 DEF TypeOK, Allow
  <2>2. \A k \in Clients : served'[k] + Level'[k] = served[k] + Level[k]
    BY <1>1, <1>2, <1>3, <1>7, <2>1, StepLevelAllow
  <2> QED BY <1>1, <1>2, <1>3, <2>1, <2>2
<1>8. CASE UNCHANGED vars
  <2>1. Level' = Level
    BY <1>8 DEF vars, Level, Refilled
  <2> QED BY <1>1, <1>8, <2>1 DEF vars
<1> QED BY <1>4, <1>5, <1>6, <1>7, <1>8 DEF Next

\* Every reachable state satisfies the inductive invariant.
THEOREM Invariance == Spec => []Inv
<1>1. Inv /\ [Next]_vars => Inv'
  BY StepTypes, StepConserved DEF Inv
<1> QED BY <1>1, InitInv, PTL DEF Spec

\* Buckets are well formed and there are none but of clients.
THEOREM TypeCorrect == Spec => []TypeOK
  BY Invariance, PTL DEF Inv

\* No client is ever served more than a full bucket and the refill of the time.
THEOREM WindowBoundHolds == Spec => []WindowBound
<1>1. Inv => WindowBound
  <2> SUFFICES ASSUME Inv, NEW k \in Clients
               PROVE  served[k] <= Capacity + (now - opened)
    BY DEF WindowBound
  <2>1. Level[k] \in Nat /\ served[k] \in Nat /\ now \in Nat /\ opened \in Nat /\ Capacity \in Nat
    BY LevelType, LimitsAssumption DEF Inv, TypeOK
  <2> QED BY <2>1 DEF Inv, Conserved
<1> QED BY <1>1, Invariance, PTL

(***************************************************************************)
(* The refinement.                                                         *)
(***************************************************************************)

\* The limiter is, for every client, the budget that is never dropped.
THEOREM ImplementsBudgetHolds == Spec => ImplementsBudget
<1>1. Init => Ideal!Init
  <2> SUFFICES ASSUME Init
               PROVE  Ideal!Init
    OBVIOUS
  <2>1. Level = [k \in Clients |-> Capacity]
    BY DEF Init, Level, Refilled, Addresses
  <2> QED BY <2>1 DEF Init, Ideal!Init, ZeroOf, Ideal!ZeroOf
<1>2. Inv /\ [Next]_vars => [Ideal!Next]_(Ideal!vars)
  <2> SUFFICES ASSUME Inv, [Next]_vars
               PROVE  [Ideal!Next]_(Ideal!vars)
    OBVIOUS
  <2>1. TypeOK /\ Reckoned /\ KeysTrue
    BY DEF Inv
  <2>2. CASE Tick
    BY <2>1, <2>2, StepLevelTick DEF Tick, Ideal!Next, Ideal!Tick
  <2>3. CASE Observe
    <3>1. Level' = Level
      BY <2>3 DEF Observe, Level, Refilled
    <3> QED BY <2>3, <3>1 DEF Observe, ZeroOf, Ideal!Next, Ideal!Observe, Ideal!ZeroOf
  <2>4. ASSUME NEW k \in Clients, NEW r \in Arrivals(k), maybeGC(k, clientIP(r))
        PROVE  UNCHANGED Ideal!vars
    <3>1. clientIP(r) \in Addresses
      BY ClientKey DEF Addresses
    <3> QED BY <2>1, <2>4, <3>1, StepLevelGC DEF maybeGC, Ideal!vars
  <2>5. ASSUME NEW q \in pending, Allow(q)
        PROVE  Ideal!Next
    <3>1. q.client \in Clients
      BY <2>1 DEF TypeOK
    <3> QED BY <2>1, <2>5, <3>1, StepLevelAllow DEF Ideal!Next, Ideal!Serve, Ideal!Refuse
  <2>6. CASE UNCHANGED vars
    <3>1. Level' = Level
      BY <2>6 DEF vars, Level, Refilled
    <3> QED BY <2>6, <3>1 DEF vars, Ideal!vars
  <2> QED BY <2>2, <2>3, <2>4, <2>5, <2>6 DEF Next
<1> QED BY <1>1, <1>2, Invariance, PTL DEF Spec, ImplementsBudget, Ideal!Spec
=============================================================================
