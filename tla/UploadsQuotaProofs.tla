------------------------- MODULE UploadsQuotaProofs -------------------------
(***************************************************************************)
(* The type invariant and OvershootBounded of Uploads, for any uploads,    *)
(* files and limits.                                                       *)
(*                                                                         *)
(* The quota is about a sum over the directory, which is defined by        *)
(* recursion over sets.  What is needed of it (that it is a number, and    *)
(* that one file more adds its size, in whatever order the sum is taken)   *)
(* is proved by picking a smallest counterexample: the ordering of the     *)
(* numbers and of the finite sets are well-founded.                        *)
(***************************************************************************)
EXTENDS UploadsProofs, FiniteSetTheorems

(***************************************************************************)
(* Sums over finite sets.                                                  *)
(***************************************************************************)

LessThan == {ss \in Nat \X Nat : ss[1] < ss[2]}

\* Induction over the numbers, about a set of them.
LEMMA AllNumbers ==
  ASSUME NEW T \in SUBSET Nat, 0 \in T, \A n \in T : n + 1 \in T
  PROVE  T = Nat
<1>1. SUFFICES ASSUME Nat \ T # {} PROVE FALSE
  OBVIOUS
<1>2. IsWellFoundedOn(LessThan, Nat)
  BY NatLessThanWellFounded DEF OpToRel, LessThan
<1>3. PICK m \in Nat \ T : \A n \in Nat \ T : <<n, m>> \notin LessThan
  BY <1>1, <1>2, WFMin
<1>4. m # 0 /\ m - 1 \in Nat /\ m - 1 < m
  BY <1>3
<1>5. <<m - 1, m>> \in LessThan
  BY <1>3, <1>4 DEF LessThan
<1>6. m - 1 \in T
  BY <1>3, <1>4, <1>5
<1> QED BY <1>3, <1>4, <1>6

\* Induction over the subsets of a finite set.
LEMMA AllSubsets ==
  ASSUME NEW S, IsFiniteSet(S), NEW T \in SUBSET (SUBSET S),
         \A s \in SUBSET S : (\A t \in SUBSET s : t # s => t \in T) => s \in T
  PROVE  T = SUBSET S
<1>1. SUFFICES ASSUME (SUBSET S) \ T # {} PROVE FALSE
  OBVIOUS
<1>2. IsWellFoundedOn(StrictSubsetOrdering(S), SUBSET S)
  BY FS_StrictSubsetOrderingWellFounded, FS_FiniteSubsetsOfFinite
<1> DEFINE C == (SUBSET S) \ T
<1>3. PICK s \in C : \A t \in C : <<t, s>> \notin StrictSubsetOrdering(S)
  <2>1. C \subseteq SUBSET S /\ C # {}
    BY <1>1
  <2> HIDE DEF C
  <2> QED BY <1>2, <2>1, WFMin
<1>4. ASSUME NEW t \in SUBSET s, t # s PROVE t \in T
  <2>1. t \in SUBSET S /\ s \in SUBSET S
    BY <1>3
  <2>2. <<t, s>> \in StrictSubsetOrdering(S)
    BY <2>1, <1>4 DEF StrictSubsetOrdering
  <2> QED BY <1>3, <2>1, <2>2
<1> QED BY <1>3, <1>4

\* The element the sum takes first.
Pick(s) == CHOOSE x \in s : TRUE

\* The sum of the weights of a set, by what is left when one element is taken.
Plus(h, w, s) == IF s = {} THEN 0 ELSE w[Pick(s)] + h[s \ {Pick(s)}]

\* h is the function of the recursion over a family of sets.
Solves(h, w, F) == h = [s \in F |-> Plus(h, w, s)]

\* h holds the sums over a set and its subsets.
Sums(h, w, S) == \A s \in SUBSET S : h[s] = Plus(h, w, s)

Agree(w, v, S) == \A x \in S : w[x] = v[x]

\* A set that is not empty has an element that is taken first.
LEMMA Picked == \A s : s # {} => Pick(s) \in s
  BY DEF Pick

\* A solution of the recursion has its value at every set of the family.
LEMMA SolvesAt ==
  ASSUME NEW h, NEW w, NEW F, Solves(h, w, F), NEW s \in F
  PROVE  h[s] = Plus(h, w, s)
<1>1. h = [t \in F |-> Plus(h, w, t)]
  BY DEF Solves
<1> QED BY <1>1

\* The recursion has a solution, over the sets of up to n elements for every n.
LEMMA SolutionsExist ==
  ASSUME NEW S, IsFiniteSet(S), NEW w
  PROVE  \E h : Solves(h, w, SUBSET S)
<1> DEFINE Small(n) == {s \in SUBSET S : Cardinality(s) <= n}
           T == {n \in Nat : \E h : Solves(h, w, Small(n))}
<1>1. \A s \in SUBSET S : IsFiniteSet(s) /\ Cardinality(s) \in Nat
                          /\ Cardinality(s) <= Cardinality(S)
  BY FS_Subset, FS_CardinalityType
<1>2. \A s \in SUBSET S : \A n \in Nat :
         s # {} /\ Cardinality(s) <= n + 1 => s \ {Pick(s)} \in Small(n)
  <2> SUFFICES ASSUME NEW s \in SUBSET S, NEW n \in Nat, s # {}, Cardinality(s) <= n + 1
               PROVE  s \ {Pick(s)} \in Small(n)
    OBVIOUS
  <2>1. Cardinality(s \ {Pick(s)}) = Cardinality(s) - 1
    BY <1>1, Picked, FS_RemoveElement
  <2> QED BY <1>1, <2>1
<1>3. 0 \in T
  <2> DEFINE h == [s \in Small(0) |-> 0]
  <2>1. \A s \in Small(0) : s = {}
    BY <1>1, FS_EmptySet
  <2>2. Solves(h, w, Small(0))
    BY <2>1 DEF Solves, Plus
  <2> QED BY <2>2
<1>4. ASSUME NEW n \in T PROVE n + 1 \in T
  <2>1. PICK g : Solves(g, w, Small(n))
    OBVIOUS
  <2> DEFINE h == [s \in Small(n + 1) |-> Plus(g, w, s)]
  <2>2. \A s \in Small(n) : s \in Small(n + 1)
    BY <1>1
  <2>3. ASSUME NEW s \in Small(n + 1)
        PROVE  Plus(h, w, s) = Plus(g, w, s)
    <3>1. CASE s = {}
      BY <3>1 DEF Plus
    <3>2. CASE s # {}
      <4>1. s \ {Pick(s)} \in Small(n)
        BY <1>2, <3>2
      <4>2. g[s \ {Pick(s)}] = Plus(g, w, s \ {Pick(s)})
        BY <2>1, <4>1, SolvesAt
      <4>3. h[s \ {Pick(s)}] = Plus(g, w, s \ {Pick(s)})
        BY <2>2, <4>1
      <4> QED BY <4>2, <4>3 DEF Plus
    <3> QED BY <3>1, <3>2
  <2>4. Solves(h, w, Small(n + 1))
    BY <2>3 DEF Solves
  <2>5. \E k : Solves(k, w, Small(n + 1))
    BY <2>4
  <2>6. n + 1 \in Nat
    OBVIOUS
  <2> HIDE DEF h, Small
  <2> QED BY <2>5, <2>6
<1>5. T = Nat
  BY <1>3, <1>4, AllNumbers
<1>6. Cardinality(S) \in Nat /\ Small(Cardinality(S)) = SUBSET S
  BY <1>1, FS_CardinalityType
<1>7. PICK h : Solves(h, w, Small(Cardinality(S)))
  BY <1>5, <1>6
<1> QED BY <1>6, <1>7

\* Every finite set has sums.
LEMMA SumsExist ==
  ASSUME NEW S, IsFiniteSet(S), NEW w
  PROVE  \E h : Sums(h, w, S)
<1>1. PICK h : Solves(h, w, SUBSET S)
  BY SolutionsExist
<1> QED BY <1>1, SolvesAt DEF Sums

\* The sums over a set hold those over its subsets.
LEMMA SumsWithin ==
  ASSUME NEW S, NEW h, NEW w, Sums(h, w, S), NEW R \in SUBSET S
  PROVE  Sums(h, w, R)
BY DEF Sums

\* Where the weights agree, so do the sums.
LEMMA SumsAgree ==
  ASSUME NEW S, IsFiniteSet(S), NEW w, NEW v, Agree(w, v, S),
         NEW h, Sums(h, w, S), NEW g, Sums(g, v, S)
  PROVE  h[S] = g[S]
<1> DEFINE T == {s \in SUBSET S : h[s] = g[s]}
<1>1. ASSUME NEW s \in SUBSET S, \A t \in SUBSET s : t # s => t \in T
      PROVE  s \in T
  <2>1. h[s] = Plus(h, w, s) /\ g[s] = Plus(g, v, s)
    BY DEF Sums
  <2>2. CASE s = {}
    BY <2>1, <2>2 DEF Plus
  <2>3. CASE s # {}
    <3>1. Pick(s) \in s /\ Pick(s) \in S
      BY <2>3, Picked
    <3>2. s \ {Pick(s)} \in T
      BY <1>1, <3>1
    <3> QED BY <2>1, <3>1, <3>2 DEF Plus, Agree
  <2> QED BY <2>2, <2>3
<1>2. T = SUBSET S
  <2>1. T \in SUBSET (SUBSET S)
    OBVIOUS
  <2> HIDE DEF T
  <2> QED BY <1>1, <2>1, AllSubsets
<1> QED BY <1>2

\* The sum of numbers is a number.
LEMMA SumsType ==
  ASSUME NEW S, IsFiniteSet(S), NEW w, \A x \in S : w[x] \in Nat, NEW h, Sums(h, w, S)
  PROVE  \A s \in SUBSET S : h[s] \in Nat
<1> DEFINE T == {s \in SUBSET S : h[s] \in Nat}
<1>1. ASSUME NEW s \in SUBSET S, \A t \in SUBSET s : t # s => t \in T
      PROVE  s \in T
  <2>1. h[s] = Plus(h, w, s)
    BY DEF Sums
  <2>2. CASE s = {}
    BY <2>1, <2>2 DEF Plus
  <2>3. CASE s # {}
    <3>1. Pick(s) \in s /\ Pick(s) \in S
      BY <2>3, Picked
    <3>2. s \ {Pick(s)} \in T /\ w[Pick(s)] \in Nat
      BY <1>1, <3>1
    <3> QED BY <2>1, <2>3, <3>2 DEF Plus
  <2> QED BY <2>2, <2>3
<1>2. T = SUBSET S
  <2>1. T \in SUBSET (SUBSET S)
    OBVIOUS
  <2> HIDE DEF T
  <2> QED BY <1>1, <2>1, AllSubsets
<1> QED BY <1>2

\* Any element may be taken first.
LEMMA SumsTake ==
  ASSUME NEW S, IsFiniteSet(S), NEW w, \A x \in S : w[x] \in Nat, NEW h, Sums(h, w, S)
  PROVE  \A y \in S : h[S] = w[y] + h[S \ {y}]
<1> DEFINE T == {s \in SUBSET S : \A y \in s : h[s] = w[y] + h[s \ {y}]}
<1>0. \A s \in SUBSET S : h[s] \in Nat
  BY SumsType
<1>1. ASSUME NEW s \in SUBSET S, \A t \in SUBSET s : t # s => t \in T
      PROVE  s \in T
  <2> SUFFICES ASSUME NEW y \in s
               PROVE  h[s] = w[y] + h[s \ {y}]
    OBVIOUS
  <2>1. PICK x \in s : x = Pick(s)
    BY Picked
  <2>2. h[s] = w[x] + h[s \ {x}]
    BY <2>1 DEF Sums, Plus
  <2>3. CASE x = y
    BY <2>2, <2>3
  <2>4. CASE x # y
    <3>1. s \ {x} \in T /\ s \ {y} \in T
      BY <1>1
    <3>2. y \in s \ {x} /\ x \in s \ {y}
      BY <2>4
    <3>3. h[s \ {x}] = w[y] + h[(s \ {x}) \ {y}]
      BY <3>1, <3>2
    <3>4. h[s \ {y}] = w[x] + h[(s \ {y}) \ {x}]
      BY <3>1, <3>2
    <3>5. (s \ {x}) \ {y} = (s \ {y}) \ {x} /\ (s \ {x}) \ {y} \in SUBSET S
      OBVIOUS
    <3>6. w[x] \in Nat /\ w[y] \in Nat /\ h[(s \ {x}) \ {y}] \in Nat
      BY <1>0, <3>5
    <3>7. h[s] = w[x] + (w[y] + h[(s \ {x}) \ {y}]) /\ h[s \ {y}] = w[x] + h[(s \ {x}) \ {y}]
      BY <2>2, <3>3, <3>4, <3>5
    <3> QED BY <3>6, <3>7
  <2> QED BY <2>3, <2>4
<1>2. T = SUBSET S
  <2>1. T \in SUBSET (SUBSET S)
    OBVIOUS
  <2> HIDE DEF T
  <2> QED BY <1>1, <2>1, AllSubsets
<1> QED BY <1>2

(***************************************************************************)
(* The sum over the directory.                                             *)
(***************************************************************************)

Directories == [Files -> File \cup {Absent, Removed}]

StoredIn(d) == {f \in Files : d[f] \in File}

UsageOf(d) == MapThenSumSet(LAMBDA f : d[f].size, StoredIn(d))

\* The usage of the model is the one of its files, before and after a step.
LEMMA UsageOfFiles ==
  /\ dirUsageBytes = UsageOf(files)
  /\ dirUsageBytes' = UsageOf(files')
  BY DEF dirUsageBytes, UsageOf, Stored, StoredIn, MapThenSumSet, MapThenFoldSet

SizeIn(d) == [f \in Files |-> d[f].size]

\* The sum is over finitely many numbers.
LEMMA FiniteStored ==
  ASSUME NEW d
  PROVE  IsFiniteSet(StoredIn(d)) /\ \A f \in StoredIn(d) : SizeIn(d)[f] \in Nat
<1>1. IsFiniteSet(StoredIn(d))
  BY FinitenessAssumption, FS_Subset DEF StoredIn
<1>2. \A f \in StoredIn(d) : SizeIn(d)[f] \in Nat
  BY LimitsAssumption DEF StoredIn, SizeIn, File
<1> QED BY <1>1, <1>2

\* The sum as it is defined is the one that the lemmas are about.
LEMMA UsageIsSum ==
  ASSUME NEW d, NEW h, Sums(h, SizeIn(d), StoredIn(d))
  PROVE  UsageOf(d) = h[StoredIn(d)]
<1> DEFINE S == StoredIn(d)
           Eq(k) == k = [s \in SUBSET S |->
                           IF s = {} THEN 0
                           ELSE LET x == CHOOSE x \in s : TRUE IN d[x].size + k[s \ {x}]]
<1>1. UsageOf(d) = (CHOOSE k : Eq(k))[S]
  BY DEF UsageOf, MapThenSumSet, MapThenFoldSet
<1>2. IsFiniteSet(S)
  BY FiniteStored
<1>3. ASSUME NEW k PROVE Eq(k) <=> Solves(k, SizeIn(d), SUBSET S)
  <2>1. ASSUME NEW s \in SUBSET S
        PROVE  Plus(k, SizeIn(d), s) =
                  IF s = {} THEN 0
                  ELSE LET x == CHOOSE x \in s : TRUE IN d[x].size + k[s \ {x}]
    <3>1. s # {} => SizeIn(d)[Pick(s)] = d[Pick(s)].size
      BY Picked DEF SizeIn, StoredIn
    <3> QED BY <3>1 DEF Plus, Pick
  <2> QED BY <2>1 DEF Solves
<1>4. \E k : Eq(k)
  <2>1. PICK l : Solves(l, SizeIn(d), SUBSET S)
    BY <1>2, SolutionsExist
  <2> HIDE DEF Eq
  <2> QED BY <1>3, <2>1
<1>5. Eq(CHOOSE k : Eq(k))
  BY <1>4
<1>6. PICK g : g = (CHOOSE k : Eq(k))
  OBVIOUS
<1>7. Solves(g, SizeIn(d), SUBSET S)
  <2> HIDE DEF Eq
  <2> QED BY <1>3, <1>5, <1>6
<1>8. Sums(g, SizeIn(d), S)
  BY <1>7, SolvesAt DEF Sums
<1>9. g[S] = h[S]
  BY <1>2, <1>8, SumsAgree DEF Agree
<1> QED BY <1>1, <1>6, <1>9

\* The usage is a number of bytes.
LEMMA UsageType ==
  ASSUME NEW d
  PROVE  UsageOf(d) \in Nat
<1>1. PICK h : Sums(h, SizeIn(d), StoredIn(d))
  BY FiniteStored, SumsExist
<1>2. h[StoredIn(d)] \in Nat
  BY <1>1, FiniteStored, SumsType
<1> QED BY <1>1, <1>2, UsageIsSum

\* What e holds, d holds as well.
Keeps(d, e) == StoredIn(e) \subseteq StoredIn(d) /\ \A f \in StoredIn(e) : e[f] = d[f]

\* What the directory keeps, it keeps at its size.
LEMMA UsageKept ==
  ASSUME NEW d, NEW e, Keeps(d, e), NEW h, Sums(h, SizeIn(d), StoredIn(d))
  PROVE  UsageOf(e) = h[StoredIn(e)]
<1>1. Sums(h, SizeIn(d), StoredIn(e))
  BY SumsWithin DEF Keeps
<1>2. Agree(SizeIn(d), SizeIn(e), StoredIn(e))
  BY DEF Agree, Keeps, SizeIn, StoredIn
<1>3. PICK g : Sums(g, SizeIn(e), StoredIn(e))
  BY FiniteStored, SumsExist
<1>4. h[StoredIn(e)] = g[StoredIn(e)]
  BY <1>1, <1>2, <1>3, FiniteStored, SumsAgree
<1> QED BY <1>3, <1>4, UsageIsSum

\* A file less is its size less.
LEMMA UsageWithout ==
  ASSUME NEW d, NEW e, NEW f \in StoredIn(d), StoredIn(e) = StoredIn(d) \ {f}, Keeps(d, e)
  PROVE  UsageOf(d) = UsageOf(e) + d[f].size
<1>1. PICK h : Sums(h, SizeIn(d), StoredIn(d))
  BY FiniteStored, SumsExist
<1>2. UsageOf(d) = h[StoredIn(d)] /\ UsageOf(e) = h[StoredIn(e)]
  BY <1>1, UsageIsSum, UsageKept
<1>3. h[StoredIn(d)] = SizeIn(d)[f] + h[StoredIn(d) \ {f}]
  BY <1>1, FiniteStored, SumsTake
<1>4. SizeIn(d)[f] = d[f].size /\ SizeIn(d)[f] \in Nat /\ UsageOf(e) \in Nat
  BY FiniteStored, UsageType DEF SizeIn, StoredIn
<1> QED BY <1>2, <1>3, <1>4

\* A file that is written adds its size.
LEMMA UsageAdds ==
  ASSUME NEW d \in Directories, NEW f \in Files, d[f] \notin File, NEW new \in File,
         NEW e, e = [d EXCEPT ![f] = new]
  PROVE  UsageOf(e) = UsageOf(d) + new.size
<1>1. e[f] = new /\ \A g \in Files \ {f} : e[g] = d[g]
  BY DEF Directories
<1>2. f \in StoredIn(e) /\ StoredIn(d) = StoredIn(e) \ {f} /\ Keeps(e, d)
  BY <1>1 DEF Keeps, StoredIn
<1>3. UsageOf(e) = UsageOf(d) + e[f].size
  BY <1>2, UsageWithout
<1> QED BY <1>1, <1>3

\* A file that is removed, if it was there, takes no room any more.
LEMMA UsageDrops ==
  ASSUME NEW d \in Directories, NEW f, NEW e, e = [d EXCEPT ![f] = Removed]
  PROVE  UsageOf(e) <= UsageOf(d)
<1>1. \A g \in Files : e[g] = IF g = f THEN Removed ELSE d[g]
  BY DEF Directories
<1>2. StoredIn(e) = StoredIn(d) \ {f} /\ Keeps(d, e)
  BY <1>1, NamesDiffer DEF Keeps, StoredIn
<1>3. UsageOf(d) \in Nat /\ UsageOf(e) \in Nat
  BY UsageType
<1>4. CASE f \in StoredIn(d)
  <2>1. UsageOf(d) = UsageOf(e) + d[f].size
    BY <1>2, <1>4, UsageWithout
  <2>2. d[f].size \in Nat
    BY <1>4, LimitsAssumption DEF StoredIn, File
  <2> QED BY <1>3, <2>1, <2>2
<1>5. CASE f \notin StoredIn(d)
  <2>1. PICK h : Sums(h, SizeIn(d), StoredIn(d))
    BY FiniteStored, SumsExist
  <2>2. StoredIn(e) = StoredIn(d)
    BY <1>2, <1>5
  <2>3. UsageOf(d) = h[StoredIn(d)]
    BY <2>1, UsageIsSum
  <2>4. UsageOf(e) = h[StoredIn(e)]
    BY <1>2, <2>1, UsageKept
  <2> QED BY <1>3, <2>2, <2>3, <2>4
<1> QED BY <1>4, <1>5

(***************************************************************************)
(* The places of the uploads.                                              *)
(***************************************************************************)

\* What an upload holds at its place.  Two that are being written have two
\* names: the second was drawn when the first was in use.
Placed ==
    /\ \A u \in Uploads : /\ image[u] \in IF pc[u] = "idle" THEN {0} ELSE 1 .. MaxStored
                          /\ name[u] \in IF pc[u] = "close" THEN Stored ELSE {Absent}
    /\ \A u, v \in Uploads :
          u # v /\ pc[u] = "close" /\ pc[v] = "close" => name[u] # name[v]

\* The queue lists the uploads that wait, each once.
Queued ==
    /\ queue \in Seq(Uploads)
    /\ \A i \in 1 .. Len(queue) : pc[queue[i]] = "wait"
    /\ \A i, j \in 1 .. Len(queue) : queue[i] = queue[j] => i = j
    /\ \A u \in At("wait") : \E i \in 1 .. Len(queue) : queue[i] = u

\* A slot is taken by each upload that decodes.
Slotted == slots = Cardinality(At("decode")) /\ slots <= Slots

PlaceInv == Inv /\ Placed /\ Queued /\ Slotted

\* One upload goes to another place with a size and a name that fit there.
LEMMA OneMoves ==
  ASSUME Values, Placed, NEW u \in Uploads, NEW l \in Places, NEW size, NEW f,
         pc' = [pc EXCEPT ![u] = l], image' = [image EXCEPT ![u] = size],
         name' = [name EXCEPT ![u] = f],
         size \in IF l = "idle" THEN {0} ELSE 1 .. MaxStored,
         f \in IF l = "close" THEN Stored' ELSE {Absent},
         \A v \in Uploads \ {u} :
            pc[v] = "close" => name[v] \in Stored' /\ (l = "close" => name[v] # f)
  PROVE  Placed'
<1>1. /\ pc'[u] = l /\ image'[u] = size /\ name'[u] = f
      /\ \A v \in Uploads \ {u} : pc'[v] = pc[v] /\ image'[v] = image[v] /\ name'[v] = name[v]
  BY DEF Values
<1>2. ASSUME NEW v \in Uploads
      PROVE  /\ image'[v] \in IF pc'[v] = "idle" THEN {0} ELSE 1 .. MaxStored
             /\ name'[v] \in IF pc'[v] = "close" THEN Stored' ELSE {Absent}
  <2>1. CASE v = u
    BY <1>1, <2>1
  <2>2. CASE v # u
    <3>1. /\ image[v] \in IF pc[v] = "idle" THEN {0} ELSE 1 .. MaxStored
          /\ name[v] \in IF pc[v] = "close" THEN Stored ELSE {Absent}
      BY DEF Placed
    <3> QED BY <1>1, <2>2, <3>1
  <2> QED BY <2>1, <2>2
<1>3. ASSUME NEW v \in Uploads, NEW w \in Uploads, v # w, pc'[v] = "close", pc'[w] = "close"
      PROVE  name'[v] # name'[w]
  BY <1>1, <1>3 DEF Placed
<1> QED BY <1>2, <1>3 DEF Placed

\* No upload moves and none loses its file.
LEMMA NoneMoves ==
  ASSUME Placed, UNCHANGED <<pc, image, name>>,
         \A v \in Uploads : pc[v] = "close" => name[v] \in Stored'
  PROVE  Placed'
<1>1. ASSUME NEW v \in Uploads
      PROVE  /\ image[v] \in IF pc[v] = "idle" THEN {0} ELSE 1 .. MaxStored
             /\ name[v] \in IF pc[v] = "close" THEN Stored' ELSE {Absent}
  BY DEF Placed
<1> QED BY <1>1 DEF Placed

\* Files that are being written are there, and too new to be swept.
LEMMA WritingStored ==
  ASSUME Inv, Placed, NEW v \in Uploads, pc[v] = "close"
  PROVE  /\ name[v] \in Stored /\ name[v] \in Files /\ files[name[v]] # Absent
         /\ sweep.at = "remove" => name[v] \notin sweep.todo
<1>1. name[v] \in Stored /\ name[v] \in Files /\ files[name[v]] \in File
  BY DEF Placed, Stored
<1>2. name[v] # Absent /\ files[name[v]] # Absent
  BY <1>1, NamesDiffer
<1>3. Age(name[v]) <= 1
  BY <1>1, <1>2 DEF Inv, Unanswered
<1>4. Age(name[v]) \in Int
  BY <1>1, StoredDay DEF Inv, Values
<1>5. sweep.at = "remove" => name[v] \notin sweep.todo
  BY <1>3, <1>4, LimitsAssumption DEF Inv, SweepSpares
<1> QED BY <1>1, <1>2, <1>5

\* What the steps of an upload leave in its place and in the others.
LEMMA PlacedUpload ==
  ASSUME Inv, Placed, NEW u \in Uploads,
         \/ \E size \in Sizes, webp \in BOOLEAN : UploadFile(u, size, webp)
         \/ GiveUp(u) \/ UploadStep(u)
  PROVE  Placed'
<1> USE DEF Goto, Finish, Places
<1>0. Values /\ image = [image EXCEPT ![u] = image[u]] /\ name = [name EXCEPT ![u] = name[u]]
  BY DEF Inv, Values
<1>1. \A v \in Uploads : pc[v] = "close" => name[v] \in Stored
  BY WritingStored
<1>2. /\ image[u] \in IF pc[u] = "idle" THEN {0} ELSE 1 .. MaxStored
      /\ name[u] \in IF pc[u] = "close" THEN Stored ELSE {Absent}
  BY DEF Placed
<1>3. CASE \E size \in Sizes, webp \in BOOLEAN : UploadFile(u, size, webp)
  <2>1. PICK size \in Sizes, webp \in BOOLEAN : UploadFile(u, size, webp)
    BY <1>3
  <2>2. PICK l \in {"write", "wait"} : pc' = [pc EXCEPT ![u] = l]
    BY <2>1 DEF UploadFile
  <2>3. /\ size \in 1 .. MaxStored /\ image' = [image EXCEPT ![u] = size]
        /\ name' = [name EXCEPT ![u] = name[u]] /\ name[u] = Absent
        /\ Stored' = Stored
    BY <1>0, <1>2, <2>1, LimitsAssumption DEF UploadFile, Stored
  <2> QED BY <1>0, <1>1, <2>2, <2>3, OneMoves
<1>4. CASE GiveUp(u) \/ DecodeFails(u) \/ CreateFails(u) \/ Close(u)
  <2>1. /\ pc' = [pc EXCEPT ![u] = "idle"] /\ image' = [image EXCEPT ![u] = 0]
        /\ name' = [name EXCEPT ![u] = Absent] /\ files' = files
    BY <1>4 DEF GiveUp, DecodeFails, CreateFails, Close
  <2>2. Stored' = Stored
    BY <2>1 DEF Stored
  <2> QED BY <1>0, <1>1, <2>1, <2>2, OneMoves
<1>5. CASE Decode(u)
  <2>1. PICK size \in 1 .. MaxStored : image' = [image EXCEPT ![u] = size]
    BY <1>5 DEF Decode
  <2>2. /\ pc' = [pc EXCEPT ![u] = "write"] /\ name' = [name EXCEPT ![u] = name[u]]
        /\ name[u] = Absent /\ Stored' = Stored
    BY <1>0, <1>2, <1>5 DEF Decode, Stored
  <2> QED BY <1>0, <1>1, <2>1, <2>2, OneMoves
<1>6. CASE Write(u)
  <2>1. PICK f \in Files :
           /\ files[f] = Absent /\ files' = [files EXCEPT ![f] = [size |-> image[u], day |-> today]]
           /\ name' = [name EXCEPT ![u] = f] /\ image' = [image EXCEPT ![u] = image[u]]
           /\ pc[u] = "write" /\ pc' = [pc EXCEPT ![u] = "close"]
    BY <1>0, <1>6 DEF Write
  <2>2. [size |-> image[u], day |-> today] \in File /\ image[u] \in 1 .. MaxStored
    BY <1>0, <1>2, <2>1 DEF Values, File
  <2>3. f \in Stored' /\ \A g \in Files : g # f /\ g \in Stored => g \in Stored'
    BY <1>0, <2>1, <2>2 DEF Values, Stored
  <2>4. \A v \in Uploads : pc[v] = "close" => name[v] \in Files /\ name[v] # f
    BY <2>1, WritingStored
  <2>5. \A v \in Uploads \ {u} : pc[v] = "close" => name[v] \in Stored' /\ name[v] # f
    BY <1>1, <2>3, <2>4
  <2>6. /\ pc' = [pc EXCEPT ![u] = "close"] /\ image' = [image EXCEPT ![u] = image[u]]
        /\ name' = [name EXCEPT ![u] = f] /\ image[u] \in 1 .. MaxStored /\ f \in Stored'
    BY <2>1, <2>2, <2>3
  <2>7. PICK l \in Places : l = "close"
    OBVIOUS
  <2>8. /\ pc' = [pc EXCEPT ![u] = l] /\ image[u] \in IF l = "idle" THEN {0} ELSE 1 .. MaxStored
        /\ f \in IF l = "close" THEN Stored' ELSE {Absent}
    BY <2>6, <2>7
  <2>9. \A v \in Uploads \ {u} :
           pc[v] = "close" => name[v] \in Stored' /\ (l = "close" => name[v] # f)
    BY <2>5
  <2> HIDE DEF Goto, Finish, Places
  <2> QED BY <1>0, <2>6, <2>8, <2>9, OneMoves
<1>7. CASE WriteFails(u)
  <2>1. /\ pc' = [pc EXCEPT ![u] = "idle"] /\ image' = [image EXCEPT ![u] = 0]
        /\ name' = [name EXCEPT ![u] = Absent] /\ pc[u] = "close"
        /\ files' = [files EXCEPT ![name[u]] = Removed]
    BY <1>7 DEF WriteFails
  <2>2. \A v \in Uploads \ {u} : pc[v] = "close" => name[v] # name[u]
    BY <2>1 DEF Placed
  <2>3. \A g \in Files : g # name[u] /\ g \in Stored => g \in Stored'
    BY <1>0, <2>1 DEF Values, Stored
  <2>4. \A v \in Uploads \ {u} : pc[v] = "close" => name[v] \in Stored'
    BY <1>1, <2>2, <2>3 DEF Stored
  <2> QED BY <1>0, <2>1, <2>4, OneMoves
<1> QED BY <1>3, <1>4, <1>5, <1>6, <1>7 DEF UploadStep

\* Other steps move the first of the queue, remove old files or end every upload.
LEMMA PlacedOther ==
  ASSUME Inv, Placed, Queued,
         \/ AcquireSlot
         \/ \E r \in Rows : Detach(r) \/ \E f \in Files : Attach(r, f)
         \/ SweepQuery \/ SweepList \/ SweepRemove \/ SweepEnds
         \/ NextDay \/ Crash \/ UNCHANGED vars
  PROVE  Placed'
<1>0. Values
  BY DEF Inv
<1>1. \A v \in Uploads : pc[v] = "close" => name[v] \in Stored
  BY WritingStored
<1>2. CASE AcquireSlot
  <2>1. PICK u \in Uploads : u = Head(queue) /\ pc[u] = "wait"
    BY <1>2 DEF AcquireSlot, Queued
  <2>2. /\ pc' = [pc EXCEPT ![u] = "decode"] /\ Stored' = Stored
        /\ image' = [image EXCEPT ![u] = image[u]] /\ name' = [name EXCEPT ![u] = name[u]]
    BY <1>0, <1>2, <2>1 DEF AcquireSlot, Goto, Values, Stored
  <2>3. image[u] \in 1 .. MaxStored /\ name[u] = Absent
    BY <2>1 DEF Placed
  <2>4. "decode" \in Places
    BY DEF Places
  <2> QED BY <1>0, <1>1, <2>2, <2>3, <2>4, OneMoves
<1>3. CASE \/ \E r \in Rows : Detach(r) \/ \E f \in Files : Attach(r, f)
           \/ SweepQuery \/ SweepList \/ SweepEnds \/ NextDay \/ UNCHANGED vars
  <2>1. UNCHANGED <<files, pc, image, name>>
    BY <1>3 DEF Detach, Attach, SweepQuery, SweepList, SweepEnds, NextDay, vars, uploadVars
  <2>2. Stored' = Stored
    BY <2>1 DEF Stored
  <2> QED BY <1>1, <2>1, <2>2, NoneMoves
<1>4. CASE SweepRemove
  <2>1. PICK f \in sweep.todo : files' = [files EXCEPT ![f] = Removed]
    BY <1>4 DEF SweepRemove
  <2>2. UNCHANGED <<pc, image, name>> /\ sweep.at = "remove"
    BY <1>4 DEF SweepRemove, uploadVars
  <2>3. \A g \in Files : g # f /\ g \in Stored => g \in Stored'
    BY <1>0, <2>1 DEF Values, Stored
  <2>4. \A v \in Uploads : pc[v] = "close" => name[v] \in Stored'
    BY <1>1, <2>1, <2>2, <2>3, WritingStored
  <2> QED BY <2>2, <2>4, NoneMoves
<1>5. CASE Crash
  BY <1>5 DEF Crash, Placed
<1> QED BY <1>2, <1>3, <1>4, <1>5

\* The uploads that wait stay in the queue as it is.
LEMMA QueueKept ==
  ASSUME Queued, queue' = queue, \A v \in Uploads : pc'[v] = "wait" <=> pc[v] = "wait"
  PROVE  Queued'
<1>1. \A i \in 1 .. Len(queue) : queue[i] \in Uploads
  BY DEF Queued
<1> QED BY <1>1 DEF Queued, At

\* An upload joins the queue at its end and leaves it when its client is gone.
LEMMA QueuedUpload ==
  ASSUME Values, Queued, NEW u \in Uploads,
         \/ \E size \in Sizes, webp \in BOOLEAN : UploadFile(u, size, webp)
         \/ GiveUp(u) \/ UploadStep(u)
  PROVE  Queued'
<1> USE DEF Goto, Finish
<1>1. CASE UploadStep(u)
  <2>1. PICK l \in {"write", "idle", "close"} : pc' = [pc EXCEPT ![u] = l]
    BY <1>1 DEF UploadStep, Decode, DecodeFails, Write, CreateFails, Close, WriteFails
  <2>2. queue' = queue /\ pc[u] # "wait"
    BY <1>1 DEF UploadStep, Decode, DecodeFails, Write, CreateFails, Close, WriteFails
  <2> QED BY <2>1, <2>2, QueueKept DEF Values
<1>2. CASE \E size \in Sizes, webp \in BOOLEAN : UploadFile(u, size, webp)
  <2>1. pc[u] = "idle"
    BY <1>2 DEF UploadFile
  <2>2. CASE pc' = [pc EXCEPT ![u] = "write"] /\ queue' = queue
    BY <2>1, <2>2, QueueKept DEF Values
  <2>3. CASE pc' = [pc EXCEPT ![u] = "wait"] /\ queue' = Append(queue, u)
    <3>1. /\ queue \in Seq(Uploads) /\ queue' \in Seq(Uploads) /\ Len(queue) \in Nat
          /\ Len(queue') = Len(queue) + 1 /\ queue'[Len(queue) + 1] = u
          /\ \A i \in 1 .. Len(queue) : queue'[i] = queue[i] /\ queue[i] \in Uploads
      BY <2>3 DEF Queued
    <3>2. \A i \in 1 .. Len(queue) : queue[i] # u
      BY <2>1 DEF Queued
    <3>3. \A i \in 1 .. Len(queue') : i = Len(queue) + 1 \/ i \in 1 .. Len(queue)
      BY <3>1
    <3>4. pc'[u] = "wait" /\ \A v \in Uploads \ {u} : pc'[v] = pc[v]
      BY <2>3 DEF Values
    <3>5. \A i \in 1 .. Len(queue') : pc'[queue'[i]] = "wait"
      BY <3>1, <3>2, <3>3, <3>4 DEF Queued
    <3>6. \A i, j \in 1 .. Len(queue') : queue'[i] = queue'[j] => i = j
      BY <3>1, <3>2, <3>3 DEF Queued
    <3>7. ASSUME NEW v \in Uploads, pc'[v] = "wait"
          PROVE  \E i \in 1 .. Len(queue') : queue'[i] = v
      <4>1. CASE v = u
        <5>1. Len(queue) + 1 \in 1 .. Len(queue')
          BY <3>1
        <5> QED BY <3>1, <4>1, <5>1
      <4>2. CASE v # u
        <5>1. PICK i \in 1 .. Len(queue) : queue[i] = v
          BY <3>4, <3>7, <4>2 DEF Queued, At
        <5>2. i \in 1 .. Len(queue')
          BY <3>1
        <5> QED BY <3>1, <5>1, <5>2
      <4> QED BY <4>1, <4>2
    <3> QED BY <3>1, <3>5, <3>6, <3>7 DEF Queued, At
  <2> QED BY <1>2, <2>2, <2>3 DEF UploadFile
<1>3. CASE GiveUp(u)
  <2>1. PICK k \in 1 .. Len(queue) : queue[k] = u /\ queue' = RemoveAt(queue, k)
    BY <1>3 DEF GiveUp
  <2>2. pc' = [pc EXCEPT ![u] = "idle"]
    BY <1>3 DEF GiveUp
  <2>3. queue \in Seq(Uploads) /\ Len(queue) \in Nat
    BY DEF Queued
  <2>4. queue' = SubSeq(queue, 1, k - 1) \o SubSeq(queue, k + 1, Len(queue))
    BY <2>1 DEF RemoveAt
  <2>5. /\ queue' \in Seq(Uploads) /\ Len(queue') = Len(queue) - 1
        /\ \A i \in 1 .. Len(queue') : queue'[i] = IF i < k THEN queue[i] ELSE queue[i + 1]
    <3>1. /\ SubSeq(queue, 1, k - 1) \in Seq(Uploads) /\ Len(SubSeq(queue, 1, k - 1)) = k - 1
          /\ \A i \in 1 .. k - 1 : SubSeq(queue, 1, k - 1)[i] = queue[i]
      BY <2>3
    <3>2. /\ SubSeq(queue, k + 1, Len(queue)) \in Seq(Uploads)
          /\ Len(SubSeq(queue, k + 1, Len(queue))) = Len(queue) - k
          /\ \A i \in 1 .. Len(queue) - k : SubSeq(queue, k + 1, Len(queue))[i] = queue[k + i]
      BY <2>3
    <3>3. PICK front \in Seq(Uploads) : front = SubSeq(queue, 1, k - 1)
      BY <3>1
    <3>4. PICK back \in Seq(Uploads) : back = SubSeq(queue, k + 1, Len(queue))
      BY <3>2
    <3>5. /\ front \o back \in Seq(Uploads) /\ Len(front \o back) = Len(queue) - 1
      <4>1. Len(front) = k - 1 /\ Len(back) = Len(queue) - k
        BY <3>1, <3>2, <3>3, <3>4
      <4>2. front \o back \in Seq(Uploads) /\ Len(front \o back) = Len(front) + Len(back)
        BY <3>3, <3>4
      <4> QED BY <2>3, <4>1, <4>2
    <3>6. ASSUME NEW i \in 1 .. Len(queue) - 1
          PROVE  (front \o back)[i] = IF i < k THEN queue[i] ELSE queue[i + 1]
      <4>1. CASE i < k
        <5>1. i \in 1 .. Len(front)
          BY <2>3, <3>1, <3>3, <3>6, <4>1
        <5>2. (front \o back)[i] = front[i]
          BY <3>3, <3>4, <5>1
        <5> QED BY <2>3, <3>1, <3>3, <3>6, <4>1, <5>2
      <4>2. CASE ~(i < k)
        <5>1. i - (k - 1) \in 1 .. Len(queue) - k /\ k + (i - (k - 1)) = i + 1
          BY <2>3, <3>6, <4>2
        <5>2. i \in Len(front) + 1 .. Len(front) + Len(back) /\ i - Len(front) = i - (k - 1)
          <6>1. Len(front) = k - 1 /\ Len(back) = Len(queue) - k
            BY <3>1, <3>2, <3>3, <3>4
          <6> QED BY <2>3, <3>6, <4>2, <6>1
        <5>3. (front \o back)[i] = back[i - Len(front)]
          BY <3>3, <3>4, <5>2
        <5> QED BY <3>2, <3>4, <4>2, <5>1, <5>2, <5>3
      <4> QED BY <4>1, <4>2
    <3> QED BY <2>4, <3>3, <3>4, <3>5, <3>6
  <2>6. \A v \in Uploads : pc'[v] = IF v = u THEN "idle" ELSE pc[v]
    BY <2>2 DEF Values
  <2>7. \A i \in 1 .. Len(queue') : \E j \in 1 .. Len(queue) :
           j # k /\ queue'[i] = queue[j] /\ j = IF i < k THEN i ELSE i + 1
    <3> SUFFICES ASSUME NEW i \in 1 .. Len(queue')
                 PROVE  \E j \in 1 .. Len(queue) :
                           j # k /\ queue'[i] = queue[j] /\ j = IF i < k THEN i ELSE i + 1
      OBVIOUS
    <3>1. PICK j : j = IF i < k THEN i ELSE i + 1
      OBVIOUS
    <3> QED BY <2>3, <2>5, <3>1
  <2>8. \A j \in 1 .. Len(queue) : queue[j] \in Uploads /\ (j # k => queue[j] # u)
    BY <2>1 DEF Queued
  <2>9. \A i \in 1 .. Len(queue') : pc'[queue'[i]] = "wait"
    BY <2>6, <2>7, <2>8 DEF Queued
  <2>10. \A i, j \in 1 .. Len(queue') : queue'[i] = queue'[j] => i = j
    <3> SUFFICES ASSUME NEW i \in 1 .. Len(queue'), NEW j \in 1 .. Len(queue'),
                        queue'[i] = queue'[j]
                 PROVE  i = j
      OBVIOUS
    <3>1. PICK m \in 1 .. Len(queue) : queue'[i] = queue[m] /\ m = IF i < k THEN i ELSE i + 1
      BY <2>7
    <3>2. PICK n \in 1 .. Len(queue) : queue'[j] = queue[n] /\ n = IF j < k THEN j ELSE j + 1
      BY <2>7
    <3>3. queue[m] = queue[n]
      BY <3>1, <3>2
    <3>4. m = n
      BY <3>3 DEF Queued
    <3> QED BY <2>3, <2>5, <3>1, <3>2, <3>4
  <2>11. ASSUME NEW v \in Uploads, pc'[v] = "wait"
         PROVE  \E i \in 1 .. Len(queue') : queue'[i] = v
    <3>1. v # u /\ pc[v] = "wait"
      BY <2>6, <2>11
    <3>2. PICK j \in 1 .. Len(queue) : queue[j] = v
      BY <3>1 DEF Queued, At
    <3>3. j # k
      BY <2>1, <3>1, <3>2
    <3>4. CASE j < k
      <4>1. j \in 1 .. Len(queue')
        BY <2>3, <2>5, <3>4
      <4> QED BY <2>5, <3>2, <3>4, <4>1
    <3>5. CASE j > k
      <4>1. j - 1 \in 1 .. Len(queue') /\ ~(j - 1 < k) /\ (j - 1) + 1 = j
        BY <2>3, <2>5, <3>5
      <4> QED BY <2>5, <3>2, <4>1
    <3> QED BY <2>3, <3>3, <3>4, <3>5
  <2> QED BY <2>5, <2>9, <2>10, <2>11 DEF Queued, At
<1> QED BY <1>1, <1>2, <1>3

\* A slot goes to the first of the queue, and a crash empties it.
LEMMA QueuedOther ==
  ASSUME Values, Queued,
         \/ AcquireSlot
         \/ \E r \in Rows : Detach(r) \/ \E f \in Files : Attach(r, f)
         \/ SweepQuery \/ SweepList \/ SweepRemove \/ SweepEnds
         \/ NextDay \/ Crash \/ UNCHANGED vars
  PROVE  Queued'
<1>1. CASE AcquireSlot
  <2>1. /\ queue # <<>> /\ queue' = Tail(queue)
        /\ pc' = [pc EXCEPT ![Head(queue)] = "decode"]
    BY <1>1 DEF AcquireSlot, Goto
  <2>2. /\ queue \in Seq(Uploads) /\ Len(queue) \in Nat \ {0} /\ Head(queue) = queue[1]
        /\ queue' \in Seq(Uploads) /\ Len(queue') = Len(queue) - 1
        /\ \A i \in 1 .. Len(queue') : queue'[i] = queue[i + 1]
    BY <2>1 DEF Queued
  <2>3. \A i \in 1 .. Len(queue') : i + 1 \in 1 .. Len(queue) /\ i + 1 # 1
    BY <2>2
  <2>4. /\ 1 \in 1 .. Len(queue) /\ queue[1] \in Uploads
        /\ \A i \in 1 .. Len(queue') : queue[i + 1] \in Uploads /\ queue[i + 1] # queue[1]
    BY <2>2, <2>3 DEF Queued
  <2>5. \A v \in Uploads : pc'[v] = IF v = queue[1] THEN "decode" ELSE pc[v]
    BY <2>1, <2>2 DEF Values
  <2>6. \A i \in 1 .. Len(queue') : pc'[queue'[i]] = "wait"
    BY <2>2, <2>3, <2>4, <2>5 DEF Queued
  <2>7. \A i, j \in 1 .. Len(queue') : queue'[i] = queue'[j] => i = j
    <3> SUFFICES ASSUME NEW i \in 1 .. Len(queue'), NEW j \in 1 .. Len(queue'),
                        queue'[i] = queue'[j]
                 PROVE  i = j
      OBVIOUS
    <3>1. /\ i + 1 \in 1 .. Len(queue) /\ j + 1 \in 1 .. Len(queue)
          /\ queue[i + 1] = queue[j + 1]
      BY <2>2, <2>3
    <3>2. i + 1 = j + 1
      BY <3>1 DEF Queued
    <3> QED BY <3>2
  <2>8. ASSUME NEW v \in Uploads, pc'[v] = "wait"
        PROVE  \E i \in 1 .. Len(queue') : queue'[i] = v
    <3>1. v # queue[1] /\ pc[v] = "wait"
      BY <2>5, <2>8
    <3>2. PICK j \in 1 .. Len(queue) : queue[j] = v
      BY <3>1 DEF Queued, At
    <3>3. j - 1 \in 1 .. Len(queue') /\ (j - 1) + 1 = j
      BY <2>2, <3>1, <3>2
    <3> QED BY <2>2, <3>2, <3>3
  <2> QED BY <2>2, <2>6, <2>7, <2>8 DEF Queued, At
<1>2. CASE \/ \E r \in Rows : Detach(r) \/ \E f \in Files : Attach(r, f)
           \/ SweepQuery \/ SweepList \/ SweepRemove \/ SweepEnds \/ NextDay \/ UNCHANGED vars
  <2>1. UNCHANGED <<pc, queue>>
    BY <1>2 DEF Detach, Attach, SweepQuery, SweepList, SweepRemove, SweepEnds, NextDay,
                vars, uploadVars
  <2> QED BY <2>1, QueueKept
<1>3. CASE Crash
  <2>1. queue' = <<>> /\ \A v \in Uploads : pc'[v] # "wait"
    BY <1>3 DEF Crash
  <2> QED BY <2>1 DEF Queued, At
<1> QED BY <1>1, <1>2, <1>3

\* Uploads that come to a place and leave it are counted.
LEMMA AtFinite ==
  ASSUME NEW l
  PROVE  /\ IsFiniteSet(At(l)) /\ Cardinality(At(l)) \in Nat
         /\ IsFiniteSet(At(l)') /\ Cardinality(At(l)') \in Nat
<1>1. At(l) \in SUBSET Uploads /\ At(l)' \in SUBSET Uploads
  BY DEF At
<1> QED BY <1>1, FinitenessAssumption, FS_Subset, FS_CardinalityType

\* How one upload more, or less, that decodes changes their number.
LEMMA Decoding ==
  ASSUME NEW u
  PROVE  /\ At("decode")' = At("decode") =>
               Cardinality(At("decode")') = Cardinality(At("decode"))
         /\ At("decode")' = At("decode") \cup {u} /\ u \notin At("decode") =>
               Cardinality(At("decode")') = Cardinality(At("decode")) + 1
         /\ At("decode")' = At("decode") \ {u} /\ u \in At("decode") =>
               Cardinality(At("decode")') = Cardinality(At("decode")) - 1
BY AtFinite, FS_AddElement, FS_RemoveElement

\* An upload gives its slot back when it stops decoding, and no other slot.
LEMMA SlottedUpload ==
  ASSUME Values, Slotted, NEW u \in Uploads,
         \/ \E size \in Sizes, webp \in BOOLEAN : UploadFile(u, size, webp)
         \/ GiveUp(u) \/ UploadStep(u)
  PROVE  Slotted'
<1> USE DEF Goto, Finish
<1>0. slots \in Nat /\ slots <= Slots /\ slots = Cardinality(At("decode"))
  BY AtFinite DEF Slotted
<1>1. CASE Decode(u) \/ DecodeFails(u)
  <2>1. PICK l \in {"write", "idle"} : pc' = [pc EXCEPT ![u] = l]
    BY <1>1 DEF Decode, DecodeFails
  <2>2. pc[u] = "decode" /\ slots' = slots - 1
    BY <1>1 DEF Decode, DecodeFails
  <2>3. At("decode")' = At("decode") \ {u} /\ u \in At("decode")
    BY <2>1, <2>2 DEF At, Values
  <2>4. slots' = Cardinality(At("decode")')
    BY <1>0, <2>2, <2>3, Decoding
  <2> QED BY <1>0, <2>2, <2>4, LimitsAssumption DEF Slotted
<1>2. CASE \/ \E size \in Sizes, webp \in BOOLEAN : UploadFile(u, size, webp)
           \/ GiveUp(u) \/ Write(u) \/ CreateFails(u) \/ Close(u) \/ WriteFails(u)
  <2>1. PICK l \in {"write", "wait", "idle", "close"} : pc' = [pc EXCEPT ![u] = l]
    BY <1>2 DEF UploadFile, GiveUp, Write, CreateFails, Close, WriteFails
  <2>2. pc[u] # "decode" /\ slots' = slots
    BY <1>2 DEF UploadFile, GiveUp, Write, CreateFails, Close, WriteFails
  <2>3. At("decode")' = At("decode")
    BY <2>1, <2>2 DEF At, Values
  <2> QED BY <1>0, <2>2, <2>3 DEF Slotted
<1> QED BY <1>1, <1>2 DEF UploadStep

\* A slot is taken by the upload that starts to decode.
LEMMA SlottedOther ==
  ASSUME Values, Queued, Slotted,
         \/ AcquireSlot
         \/ \E r \in Rows : Detach(r) \/ \E f \in Files : Attach(r, f)
         \/ SweepQuery \/ SweepList \/ SweepRemove \/ SweepEnds
         \/ NextDay \/ Crash \/ UNCHANGED vars
  PROVE  Slotted'
<1>0. slots \in Nat /\ slots <= Slots /\ slots = Cardinality(At("decode"))
  BY AtFinite DEF Slotted
<1>1. CASE AcquireSlot
  <2>1. PICK u \in Uploads : u = Head(queue) /\ pc[u] = "wait"
    BY <1>1 DEF AcquireSlot, Queued
  <2>2. pc' = [pc EXCEPT ![u] = "decode"] /\ slots' = slots + 1 /\ slots < Slots
    BY <1>1, <2>1 DEF AcquireSlot, Goto
  <2>3. At("decode")' = At("decode") \cup {u} /\ u \notin At("decode")
    BY <2>1, <2>2 DEF At, Values
  <2>4. slots' = Cardinality(At("decode")')
    BY <1>0, <2>2, <2>3, Decoding
  <2> QED BY <1>0, <2>2, <2>4, LimitsAssumption DEF Slotted
<1>2. CASE \/ \E r \in Rows : Detach(r) \/ \E f \in Files : Attach(r, f)
           \/ SweepQuery \/ SweepList \/ SweepRemove \/ SweepEnds \/ NextDay \/ UNCHANGED vars
  <2>1. UNCHANGED <<pc, slots>>
    BY <1>2 DEF Detach, Attach, SweepQuery, SweepList, SweepRemove, SweepEnds, NextDay,
                vars, uploadVars
  <2>2. At("decode")' = At("decode")
    BY <2>1 DEF At
  <2> QED BY <1>0, <2>1, <2>2 DEF Slotted
<1>3. CASE Crash
  <2>1. slots' = 0 /\ At("decode")' = {}
    BY <1>3 DEF Crash, At
  <2> QED BY <2>1, FS_EmptySet, LimitsAssumption DEF Slotted
<1> QED BY <1>1, <1>2, <1>3

\* No upload is under way and no slot is taken at the start.
LEMMA PlaceInit == Init => PlaceInv
<1> SUFFICES ASSUME Init
             PROVE  PlaceInv
  OBVIOUS
<1>1. Inv
  BY InitInv
<1>2. Placed
  BY DEF Init, Placed
<1>3. Queued
  BY DEF Init, Queued, At
<1>4. At("decode") = {}
  BY DEF Init, At
<1>5. Slotted
  <2>1. slots = 0 /\ Cardinality(At("decode")) = 0
    BY <1>4, FS_EmptySet DEF Init
  <2> QED BY <2>1, LimitsAssumption DEF Slotted
<1> QED BY <1>1, <1>2, <1>3, <1>5 DEF PlaceInv

\* Every step preserves what the places hold.
LEMMA PlaceStep ==
  ASSUME PlaceInv, Inv', [Next]_vars
  PROVE  PlaceInv'
<1> USE DEF PlaceInv
<1>0. Values
  BY DEF Inv
<1>1. ASSUME NEW u \in Uploads,
             \/ \E size \in Sizes, webp \in BOOLEAN : UploadFile(u, size, webp)
             \/ GiveUp(u) \/ UploadStep(u)
      PROVE  PlaceInv'
  <2>1. Placed'
    BY <1>1, PlacedUpload
  <2>2. Queued' /\ Slotted'
    BY <1>0, <1>1, QueuedUpload, SlottedUpload
  <2> QED BY <2>1, <2>2
<1>2. CASE \/ AcquireSlot
           \/ \E r \in Rows : Detach(r) \/ \E f \in Files : Attach(r, f)
           \/ SweepQuery \/ SweepList \/ SweepRemove \/ SweepEnds
           \/ NextDay \/ Crash \/ UNCHANGED vars
  <2>1. Placed'
    BY <1>2, PlacedOther
  <2>2. Queued'
    BY <1>0, <1>2, QueuedOther
  <2>3. Slotted'
    BY <1>0, <1>2, SlottedOther
  <2> QED BY <2>1, <2>2, <2>3
<1> QED BY <1>1, <1>2 DEF Next

\* In every reachable state the sizes, the names, the queue and the slots are
\* those that the places of the uploads call for (UploadFile, withDecodeSlot).
THEOREM PlaceInvariance == Spec => []PlaceInv
<1>1. PlaceInv /\ Inv' /\ [Next]_vars => PlaceInv'
  BY PlaceStep
<1> QED BY <1>1, PlaceInit, Invariance, PTL DEF Spec

\* As many as wait are in the queue.
LEMMA QueueLength ==
  ASSUME Queued
  PROVE  Len(queue) = Cardinality(At("wait"))
<1>1. queue \in [1 .. Len(queue) -> At("wait")] /\ Len(queue) \in Nat
  BY DEF Queued, At
<1>2. queue \in Bijection(1 .. Len(queue), At("wait"))
  BY <1>1 DEF Queued, Bijection, Injection, Surjection, IsInjective
<1>3. ExistsBijection(1 .. Len(queue), At("wait"))
  BY <1>2 DEF ExistsBijection
<1> QED BY <1>1, <1>3, FS_CountingElements

\* In every reachable state an upload holds what its place needs, the queue is
\* the uploads that wait and the slots taken are those of the uploads that
\* decode: withDecodeSlot gives back what it takes on every path.
THEOREM TypeCorrect == Spec => []TypeOK
<1>1. PlaceInv => TypeOK
  <2> SUFFICES ASSUME PlaceInv
               PROVE  TypeOK
    OBVIOUS
  <2>1. Len(queue) = Cardinality(At("wait"))
    BY QueueLength DEF PlaceInv
  <2>2. \A u \in Uploads : image[u] \in IF pc[u] = "idle" THEN {0} ELSE 1 .. MaxStored
    BY DEF PlaceInv, Placed
  <2>3. \A u \in Uploads : name[u] \in IF pc[u] = "close" THEN Stored ELSE {Absent}
    BY DEF PlaceInv, Placed
  <2>4. slots = Cardinality(At("decode")) /\ slots <= Slots
    BY DEF PlaceInv, Slotted
  <2>5. \A u \in At("wait") : \E i \in 1 .. Len(queue) : queue[i] = u
    BY DEF PlaceInv, Queued
  <2>6. /\ files \in [Files -> File \cup {Absent, Removed}]
        /\ pc \in [Uploads -> {"idle", "wait", "decode", "write", "close"}]
        /\ rows \in [Rows -> Files \cup {Absent}]
        /\ inTime \subseteq Rows
        /\ sweep \in [at : {"idle", "list", "remove"}, refs : SUBSET Files,
                      todo : SUBSET Files, day : 0 .. LastDay]
        /\ today \in 0 .. LastDay
    BY DEF PlaceInv, Inv, Values, Places
  <2> QED BY <2>1, <2>2, <2>3, <2>4, <2>5, <2>6 DEF TypeOK
<1> QED BY <1>1, PlaceInvariance, PTL

(***************************************************************************)
(* The quota.  An upload that was let in may still write a file of any     *)
(* size up to MaxStored; room for those is counted as used.                *)
(***************************************************************************)

Pending == {u \in Uploads : pc[u] \in {"wait", "decode", "write"}}

\* The least that holds when the uploads under way have written their files.
WithPendingBounded ==
    dirUsageBytes + MaxStored * Cardinality(Pending) < Quota + Cardinality(Uploads) * MaxStored

\* The uploads under way are not more than there are.
LEMMA PendingCount ==
  /\ Cardinality(Uploads) \in Nat
  /\ Cardinality(Pending) \in Nat /\ Cardinality(Pending) <= Cardinality(Uploads)
  /\ Cardinality(Pending)' \in Nat /\ Cardinality(Pending)' <= Cardinality(Uploads)
<1>1. Pending \in SUBSET Uploads /\ Pending' \in SUBSET Uploads
  BY DEF Pending
<1>2. IsFiniteSet(Pending) /\ IsFiniteSet(Pending')
  BY <1>1, FinitenessAssumption, FS_Subset
<1> QED BY <1>1, <1>2, FinitenessAssumption, FS_Subset, FS_CardinalityType

\* What is needed of the products with the largest size.
LEMMA Products ==
  ASSUME NEW m \in Nat, NEW a \in Nat, NEW b \in Nat
  PROVE  /\ m * a \in Nat /\ m * b \in Nat /\ m * a = a * m
         /\ a <= b => m * a <= m * b
         /\ b = a + 1 => m * b = m * a + m
OBVIOUS

\* Nothing is added to the directory and nobody is let in.
LEMMA NothingAdded ==
  ASSUME WithPendingBounded, Values, Pending' \subseteq Pending,
         files' = files \/ \E f : files' = [files EXCEPT ![f] = Removed]
  PROVE  WithPendingBounded'
<1>1. UsageOf(files') <= UsageOf(files) /\ UsageOf(files') \in Nat /\ UsageOf(files) \in Nat
  <2>1. files \in Directories
    BY DEF Values, Directories
  <2>2. UsageOf(files') \in Nat /\ UsageOf(files) \in Nat
    BY UsageType
  <2>3. CASE files' = files
    BY <2>2, <2>3
  <2>4. CASE \E f : files' = [files EXCEPT ![f] = Removed]
    BY <2>1, <2>2, <2>4, UsageDrops
  <2> QED BY <2>2, <2>3, <2>4
<1>2. Cardinality(Pending)' <= Cardinality(Pending)
  <2>1. Pending \in SUBSET Uploads /\ Pending' \in SUBSET Pending
    BY DEF Pending
  <2>2. IsFiniteSet(Pending)
    BY <2>1, FinitenessAssumption, FS_Subset
  <2> QED BY <2>1, <2>2, FS_Subset
<1>3. MaxStored * Cardinality(Pending)' <= MaxStored * Cardinality(Pending)
  BY <1>2, PendingCount, Products, LimitsAssumption
<1>4. /\ MaxStored * Cardinality(Pending)' \in Nat /\ MaxStored * Cardinality(Pending) \in Nat
      /\ Cardinality(Uploads) * MaxStored \in Nat
  BY PendingCount, Products, LimitsAssumption
<1>5. UsageOf(files) + MaxStored * Cardinality(Pending) < Quota + Cardinality(Uploads) * MaxStored
  BY UsageOfFiles DEF WithPendingBounded
<1>6. UsageOf(files') + MaxStored * Cardinality(Pending)' < Quota + Cardinality(Uploads) * MaxStored
  BY <1>1, <1>3, <1>4, <1>5, LimitsAssumption
<1> QED BY <1>6, UsageOfFiles DEF WithPendingBounded

\* Whoever is let in saw a directory under the quota, and every other upload
\* counts at most once.
LEMMA LetIn ==
  ASSUME NEW u \in Uploads, NEW size \in Sizes, NEW webp \in BOOLEAN, UploadFile(u, size, webp)
  PROVE  WithPendingBounded'
<1>1. UsageOf(files) + size <= Quota /\ files' = files
  BY UsageOfFiles DEF UploadFile, UnderQuota
<1>2. size \in Nat /\ size >= 1 /\ UsageOf(files) \in Nat
  BY LimitsAssumption, UsageType
<1>3. MaxStored * Cardinality(Pending)' <= Cardinality(Uploads) * MaxStored
  BY PendingCount, Products, LimitsAssumption
<1>4. /\ MaxStored * Cardinality(Pending)' \in Nat
      /\ Cardinality(Uploads) * MaxStored \in Nat
  BY PendingCount, Products, LimitsAssumption
<1>5. UsageOf(files') + MaxStored * Cardinality(Pending)' < Quota + Cardinality(Uploads) * MaxStored
  BY <1>1, <1>2, <1>3, <1>4, LimitsAssumption
<1> QED BY <1>5, UsageOfFiles DEF WithPendingBounded

\* What is written was counted already.
LEMMA WrittenWasPending ==
  ASSUME WithPendingBounded, PlaceInv, NEW u \in Uploads, Write(u)
  PROVE  WithPendingBounded'
<1>0. Values
  BY DEF PlaceInv, Inv
<1>1. PICK f \in Files :
         /\ files[f] = Absent /\ files' = [files EXCEPT ![f] = [size |-> image[u], day |-> today]]
         /\ pc[u] = "write" /\ pc' = [pc EXCEPT ![u] = "close"]
  BY DEF Write, Goto
<1>2. image[u] \in 1 .. MaxStored
  BY <1>1 DEF PlaceInv, Placed
<1>3. UsageOf(files') = UsageOf(files) + image[u]
  <2>1. files \in Directories /\ files[f] \notin File
    BY <1>0, <1>1, NamesDiffer DEF Values, Directories
  <2>2. PICK new : new = [size |-> image[u], day |-> today]
    OBVIOUS
  <2>3. new \in File /\ new.size = image[u]
    BY <1>0, <1>2, <2>2 DEF Values, File
  <2>4. files' = [files EXCEPT ![f] = new]
    BY <1>1, <2>2
  <2>5. PICK d \in Directories : d = files
    BY <2>1
  <2>6. PICK e : e = files'
    OBVIOUS
  <2>7. d[f] \notin File /\ e = [d EXCEPT ![f] = new]
    BY <2>1, <2>4, <2>5, <2>6
  <2>8. UsageOf(e) = UsageOf(d) + new.size
    BY <2>3, <2>7, UsageAdds
  <2> QED BY <2>3, <2>5, <2>6, <2>8
<1>4. Cardinality(Pending) = Cardinality(Pending)' + 1
  <2>1. Pending' = Pending \ {u} /\ u \in Pending /\ Pending \in SUBSET Uploads
    BY <1>0, <1>1 DEF Values, Pending
  <2>2. IsFiniteSet(Pending)
    BY <2>1, FinitenessAssumption, FS_Subset
  <2>3. Cardinality(Pending)' = Cardinality(Pending) - 1
    BY <2>1, <2>2, FS_RemoveElement
  <2> QED BY <2>3, PendingCount
<1>5. MaxStored * Cardinality(Pending) = MaxStored * Cardinality(Pending)' + MaxStored
  BY <1>4, PendingCount, Products, LimitsAssumption
<1>6. /\ MaxStored * Cardinality(Pending)' \in Nat
      /\ Cardinality(Uploads) * MaxStored \in Nat /\ UsageOf(files) \in Nat
  BY PendingCount, Products, UsageType, LimitsAssumption
<1>7. UsageOf(files) + MaxStored * Cardinality(Pending) < Quota + Cardinality(Uploads) * MaxStored
  BY UsageOfFiles DEF WithPendingBounded
<1>8. UsageOf(files') + MaxStored * Cardinality(Pending)' < Quota + Cardinality(Uploads) * MaxStored
  BY <1>2, <1>3, <1>5, <1>6, <1>7, LimitsAssumption
<1> QED BY <1>8, UsageOfFiles DEF WithPendingBounded

\* The directory is empty at the start, and the quota is not 0.
LEMMA BoundInit == Init => WithPendingBounded
<1> SUFFICES ASSUME Init
             PROVE  WithPendingBounded
  OBVIOUS
<1>1. Pending = {}
  BY DEF Init, Pending
<1>2. Cardinality(Pending) = 0
  BY <1>1, FS_EmptySet
<1>3. StoredIn(files) = {}
  BY NamesDiffer DEF Init, StoredIn
<1>4. UsageOf(files) = 0
  <2>1. PICK h : Sums(h, SizeIn(files), StoredIn(files))
    BY FiniteStored, SumsExist
  <2>2. UsageOf(files) = h[StoredIn(files)]
    BY <2>1, UsageIsSum
  <2> QED BY <1>3, <2>1, <2>2 DEF Sums, Plus
<1>5. MaxStored * 0 = 0 /\ Cardinality(Uploads) * MaxStored \in Nat
  BY PendingCount, Products, LimitsAssumption
<1> QED BY <1>2, <1>4, <1>5, UsageOfFiles, LimitsAssumption DEF WithPendingBounded

\* Only an upload that is let in, or that writes, counts for the bound.
LEMMA BoundStep ==
  ASSUME WithPendingBounded, PlaceInv, [Next]_vars
  PROVE  WithPendingBounded'
<1> USE DEF Goto, Finish
<1>0. Values
  BY DEF PlaceInv, Inv
<1>1. ASSUME NEW u \in Uploads, NEW size \in Sizes, NEW webp \in BOOLEAN,
             UploadFile(u, size, webp)
      PROVE  WithPendingBounded'
  BY <1>1, LetIn
<1>2. ASSUME NEW u \in Uploads, GiveUp(u) \/ DecodeFails(u) \/ CreateFails(u) \/ Close(u)
      PROVE  WithPendingBounded'
  <2>1. files' = files /\ pc' = [pc EXCEPT ![u] = "idle"]
    BY <1>2 DEF GiveUp, DecodeFails, CreateFails, Close
  <2>2. Pending' \subseteq Pending
    BY <1>0, <2>1 DEF Pending, Values
  <2> QED BY <1>0, <2>1, <2>2, NothingAdded
<1>3. ASSUME NEW u \in Uploads, Decode(u)
      PROVE  WithPendingBounded'
  <2>1. files' = files /\ pc[u] = "decode" /\ pc' = [pc EXCEPT ![u] = "write"]
    BY <1>3 DEF Decode
  <2>2. Pending' \subseteq Pending
    BY <1>0, <2>1 DEF Pending, Values
  <2> QED BY <1>0, <2>1, <2>2, NothingAdded
<1>4. ASSUME NEW u \in Uploads, Write(u)
      PROVE  WithPendingBounded'
  BY <1>4, WrittenWasPending
<1>5. ASSUME NEW u \in Uploads, WriteFails(u)
      PROVE  WithPendingBounded'
  <2>1. files' = [files EXCEPT ![name[u]] = Removed] /\ pc' = [pc EXCEPT ![u] = "idle"]
    BY <1>5 DEF WriteFails
  <2>2. Pending' \subseteq Pending
    BY <1>0, <2>1 DEF Pending, Values
  <2> QED BY <1>0, <2>1, <2>2, NothingAdded
<1>6. CASE AcquireSlot
  <2>1. PICK u \in Uploads : u = Head(queue) /\ pc[u] = "wait"
    BY <1>6 DEF AcquireSlot, PlaceInv, Queued
  <2>2. files' = files /\ pc' = [pc EXCEPT ![u] = "decode"]
    BY <1>6, <2>1 DEF AcquireSlot
  <2>3. Pending' \subseteq Pending
    BY <1>0, <2>1, <2>2 DEF Pending, Values
  <2> QED BY <1>0, <2>2, <2>3, NothingAdded
<1>7. CASE \/ \E r \in Rows : Detach(r) \/ \E f \in Files : Attach(r, f)
           \/ SweepQuery \/ SweepList \/ SweepEnds \/ NextDay \/ UNCHANGED vars
  <2>1. UNCHANGED <<files, pc>>
    BY <1>7 DEF Detach, Attach, SweepQuery, SweepList, SweepEnds, NextDay, vars, uploadVars
  <2>2. Pending' \subseteq Pending
    BY <2>1 DEF Pending
  <2> QED BY <1>0, <2>1, <2>2, NothingAdded
<1>8. CASE SweepRemove
  <2>1. \E f : files' = [files EXCEPT ![f] = Removed]
    BY <1>8 DEF SweepRemove
  <2>2. Pending' \subseteq Pending
    BY <1>8 DEF SweepRemove, uploadVars, Pending
  <2> QED BY <1>0, <2>1, <2>2, NothingAdded
<1>9. CASE Crash
  <2>1. files' = files /\ Pending' \subseteq Pending
    BY <1>9 DEF Crash, Pending
  <2> QED BY <1>0, <2>1, NothingAdded
<1> QED BY <1>1, <1>2, <1>3, <1>4, <1>5, <1>6, <1>7, <1>8, <1>9 DEF Next, UploadStep

\* In every reachable state the directory is over the quota by less than one
\* largest file for each upload handled at once, whatever was uploaded before
\* and however the checks of UploadFile and its writes interleave.
THEOREM OvershootBoundedHolds == Spec => []OvershootBounded
<1>1. WithPendingBounded /\ PlaceInv /\ [Next]_vars => WithPendingBounded'
  BY BoundStep
<1>2. WithPendingBounded => OvershootBounded
  <2> SUFFICES ASSUME WithPendingBounded
               PROVE  OvershootBounded
    OBVIOUS
  <2>1. MaxStored * Cardinality(Pending) \in Nat /\ Cardinality(Uploads) * MaxStored \in Nat
    BY PendingCount, Products, LimitsAssumption
  <2>2. dirUsageBytes \in Nat
    BY UsageOfFiles, UsageType
  <2> QED BY <2>1, <2>2, LimitsAssumption DEF WithPendingBounded, OvershootBounded
<1> QED BY <1>1, <1>2, BoundInit, PlaceInvariance, PTL DEF Spec
=============================================================================
