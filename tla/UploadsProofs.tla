--------------------------- MODULE UploadsProofs ---------------------------
(***************************************************************************)
(* AttachedInTimeKept for any uploads, files, rows and limits of which     *)
(* LimitsAssumption and NamesAssumption hold.                              *)
(*                                                                         *)
(* A file is removed by the sweep or by its own upload.  The sweep looks   *)
(* only at files that are old at the listing and that its query did not    *)
(* see in use: a file attached before the query was seen, one attached     *)
(* after it was too fresh to be old at the listing, or the sweep had       *)
(* spared it already (SweepSpares).                                        *)
(***************************************************************************)
EXTENDS Uploads, TLAPS

Places == {"idle", "wait", "decode", "write", "close"}

Values ==
    /\ files \in [Files -> File \cup {Absent, Removed}]
    /\ pc \in [Uploads -> Places]
    /\ image \in [Uploads -> 0 .. MaxStored]
    /\ \A u \in Uploads : pc[u] = "write" => image[u] # 0
    /\ name \in [Uploads -> Files \cup {Absent}]
    /\ rows \in [Rows -> Files \cup {Absent}]
    /\ inTime \subseteq Rows
    /\ sweep \in [at : {"idle", "list", "remove"}, refs : SUBSET Files,
                  todo : SUBSET Files, day : 0 .. LastDay]
    /\ today \in 0 .. LastDay

\* A file that is being written is new and no row has its name yet.
Unanswered ==
    \A u \in Uploads : name[u] # Absent =>
        /\ files[name[u]] # Absent
        /\ name[u] \in Stored => Age(name[u]) <= 1
        /\ \A r \in Rows : rows[r] # name[u]

\* Rows name files that exist or have existed.
Written == \A r \in Rows : rows[r] # Absent => files[rows[r]] # Absent

\* What the sweep knows of the rows it must not harm.
SweepSpares ==
    /\ sweep.at = "list" =>
          /\ sweep.day <= today /\ today <= sweep.day + SweepLag
          /\ \A r \in inTime : \/ rows[r] \in sweep.refs
                               \/ files[rows[r]].day + Grace > sweep.day + SweepLag
    /\ sweep.at = "remove" =>
          /\ \A f \in sweep.todo : f \in Stored /\ Age(f) >= Grace
          /\ \A r \in inTime : rows[r] \notin sweep.todo

Inv == Values /\ Unanswered /\ Written /\ AttachedInTimeKept /\ SweepSpares

LEMMA InitInv == Init => Inv
<1> SUFFICES ASSUME Init
             PROVE  Inv
  OBVIOUS
<1> USE DEF Init, NoSweep
<1>1. Values
  BY LimitsAssumption DEF Values, Places
<1>2. Unanswered /\ Written /\ AttachedInTimeKept /\ SweepSpares
  BY DEF Unanswered, Written, AttachedInTimeKept, SweepSpares
<1> QED BY <1>1, <1>2 DEF Inv

\* The names that stand for no file are none.
LEMMA NamesDiffer ==
  /\ Absent \notin Files /\ Removed # Absent
  /\ Absent \notin File /\ Removed \notin File
  BY NamesAssumption

\* A file's age is a number of days.
LEMMA StoredDay ==
  ASSUME Values, NEW f \in Stored
  PROVE  f \in Files /\ files[f] \in File /\ files[f].day \in Nat /\ Age(f) = today - files[f].day
  BY DEF Stored, File, Age

\* Steps that leave files, names, rows, the sweep and the day alone.
LEMMA QuietStep ==
  ASSUME Inv, UNCHANGED <<files, rows, inTime, sweep, today>>, Values',
         \A u \in Uploads : name'[u] \in {name[u], Absent}
  PROVE  Inv'
<1> USE DEF Inv
<1>1. Unanswered'
  BY DEF Unanswered, Values, Stored, Age
<1>2. Written' /\ AttachedInTimeKept' /\ SweepSpares'
  BY DEF Written, AttachedInTimeKept, SweepSpares, Stored, Age
<1> QED BY <1>1, <1>2

LEMMA UploadInv ==
  ASSUME Inv, NEW u \in Uploads,
         \/ \E size \in Sizes, webp \in BOOLEAN : UploadFile(u, size, webp)
         \/ GiveUp(u) \/ Decode(u) \/ DecodeFails(u) \/ CreateFails(u) \/ Close(u) \/ AcquireSlot
  PROVE  Inv'
<1> USE DEF Inv, Values, Places, Goto, Finish
<1>1. CASE \E size \in Sizes, webp \in BOOLEAN : UploadFile(u, size, webp)
  <2>1. PICK size \in Sizes, webp \in BOOLEAN : UploadFile(u, size, webp)
    BY <1>1
  <2>2. size \in 1 .. MaxStored /\ size \in 0 .. MaxStored /\ size # 0
    BY LimitsAssumption
  <2>3. pc' \in [Uploads -> Places] /\ image' = [image EXCEPT ![u] = size]
        /\ \A v \in Uploads \ {u} : pc'[v] = pc[v]
    BY <2>1 DEF UploadFile
  <2>4. Values' /\ UNCHANGED <<files, rows, inTime, sweep, today, name>>
    BY <2>1, <2>2, <2>3 DEF UploadFile
  <2> QED BY <2>4, QuietStep
<1>2. CASE GiveUp(u) \/ DecodeFails(u) \/ CreateFails(u) \/ Close(u)
  <2>1. /\ pc' = [pc EXCEPT ![u] = "idle"] /\ image' = [image EXCEPT ![u] = 0]
        /\ name' = [name EXCEPT ![u] = Absent]
        /\ UNCHANGED <<files, rows, inTime, sweep, today>>
    BY <1>2 DEF GiveUp, DecodeFails, CreateFails, Close
  <2>2. Values'
    BY <2>1, LimitsAssumption
  <2> QED BY <2>1, <2>2, QuietStep
<1>3. CASE Decode(u)
  <2>1. PICK size \in 1 .. MaxStored : image' = [image EXCEPT ![u] = size]
    BY <1>3 DEF Decode
  <2>2. Values' /\ UNCHANGED <<files, rows, inTime, sweep, today, name>>
    BY <1>3, <2>1, LimitsAssumption DEF Decode
  <2> QED BY <2>2, QuietStep
<1>4. CASE AcquireSlot
  <2>1. Values' /\ UNCHANGED <<files, rows, inTime, sweep, today, name>>
    BY <1>4 DEF AcquireSlot
  <2> QED BY <2>1, QuietStep
<1> QED BY <1>1, <1>2, <1>3, <1>4

\* A new file harms nothing: no row has its name and no sweep has listed it.
LEMMA WriteInv ==
  ASSUME Inv, NEW u \in Uploads, Write(u)
  PROVE  Inv'
<1> DEFINE new == [size |-> image[u], day |-> today]
<1> USE DEF Inv
<1>1. PICK f \in Files :
         /\ files[f] = Absent /\ files' = [files EXCEPT ![f] = new]
         /\ name' = [name EXCEPT ![u] = f] /\ UNCHANGED <<image, rows, inTime, sweep, today>>
         /\ pc[u] = "write" /\ pc' = [pc EXCEPT ![u] = "close"]
  BY DEF Write, Goto
<1>2. new \in File
  BY <1>1, LimitsAssumption DEF Values, File
<1>3. Values'
  BY <1>1, <1>2 DEF Values, Places
<1>4. f \notin Stored
  BY <1>1, NamesDiffer DEF Stored
<1>5. \A g \in Files : g # f => /\ files'[g] = files[g]
                                /\ ((g \in Stored)' <=> g \in Stored) /\ Age(g)' = Age(g)
  BY <1>1 DEF Values, Stored, Age
<1>6. f \in Stored' /\ Age(f)' = 0 /\ files'[f] # Absent
  <2>1. files'[f] = new /\ new \in File /\ new # Absent
    BY <1>1, <1>2, NamesDiffer DEF Values
  <2>2. Age(f)' = today - today /\ today \in Int
    BY <1>1, <2>1 DEF Age, Values
  <2> QED BY <1>1, <2>1, <2>2 DEF Stored
<1>7. \A r \in Rows : rows[r] # f
  BY <1>1, NamesDiffer DEF Written
<1>8. Unanswered'
  <2> SUFFICES ASSUME NEW v \in Uploads, name'[v] # Absent
               PROVE  \E g \in Files : /\ g = name'[v] /\ files'[g] # Absent
                                       /\ g \in Stored' => Age(g)' <= 1
                                       /\ \A r \in Rows : rows'[r] # g
    BY DEF Unanswered, Age
  <2>1. CASE v = u
    BY <1>1, <1>6, <1>7, <2>1 DEF Values
  <2>2. CASE v # u
    <3>1. PICK g \in Files : g = name[v]
      BY <1>1, <2>2 DEF Values
    <3>2. g = name'[v] /\ files[g] # Absent /\ g # f
      BY <1>1, <2>2, <3>1 DEF Values, Unanswered
    <3> QED BY <1>1, <1>5, <3>1, <3>2 DEF Unanswered
  <2> QED BY <2>1, <2>2
<1>9. Written' /\ AttachedInTimeKept'
  BY <1>1, <1>5, <1>7 DEF Written, AttachedInTimeKept, Values, Stored
<1>10. SweepSpares'
  BY <1>1, <1>4, <1>5, <1>7 DEF SweepSpares, AttachedInTimeKept, Values, Stored
<1> QED BY <1>3, <1>8, <1>9, <1>10

\* A file that is removed is neither attached in time nor listed twice.
LEMMA RemovedInv ==
  ASSUME Inv, NEW f \in Files \cup {Absent}, files' = [files EXCEPT ![f] = Removed], Values',
         UNCHANGED <<rows, inTime, today>>,
         \A u \in Uploads : name'[u] \in {name[u], Absent},
         \A r \in inTime : rows[r] # f,
         sweep'.at = sweep.at, sweep'.refs = sweep.refs, sweep'.day = sweep.day,
         sweep.at = "remove" => sweep'.todo \subseteq sweep.todo \ {f}
  PROVE  Inv'
<1> USE DEF Inv
<1>1. \A g \in Files : g # f => /\ files'[g] = files[g]
                                /\ ((g \in Stored)' <=> g \in Stored) /\ Age(g)' = Age(g)
  BY DEF Values, Stored, Age
<1>2. \A g \in Files : files[g] # Absent => files'[g] # Absent
  BY NamesDiffer DEF Values
<1>3. f \notin Stored'
  BY NamesDiffer DEF Values, Stored
<1>4. Unanswered'
  BY <1>1, <1>2, <1>3 DEF Unanswered, Values
<1>5. Written' /\ AttachedInTimeKept'
  BY <1>1, <1>2 DEF Written, AttachedInTimeKept, Values, Stored
<1>6. SweepSpares'
  BY <1>1 DEF SweepSpares, AttachedInTimeKept, Values, Stored
<1> QED BY <1>4, <1>5, <1>6

\* An upload that fails to write removes its own file, which is too new to be
\* listed and known to no row.
LEMMA WriteFailsInv ==
  ASSUME Inv, NEW u \in Uploads, WriteFails(u)
  PROVE  Inv'
<1> USE DEF Inv
<1>1. name[u] \in Files \cup {Absent} /\ files' = [files EXCEPT ![name[u]] = Removed]
      /\ UNCHANGED <<rows, inTime, sweep, today>> /\ name' = [name EXCEPT ![u] = Absent]
  BY DEF WriteFails, Finish, Values
<1>2. Values'
  <2>1. pc' \in [Uploads -> Places] /\ \A v \in Uploads : pc'[v] = "write" => v # u /\ pc[v] = "write"
    BY DEF WriteFails, Finish, Goto, Values, Places
  <2>2. image' \in [Uploads -> 0 .. MaxStored] /\ \A v \in Uploads \ {u} : image'[v] = image[v]
    BY LimitsAssumption DEF WriteFails, Finish, Values
  <2>3. files' \in [Files -> File \cup {Absent, Removed}] /\ name' \in [Uploads -> Files \cup {Absent}]
    BY <1>1 DEF Values
  <2> QED BY <1>1, <2>1, <2>2, <2>3 DEF Values
<1>3. \A r \in inTime : rows[r] # name[u]
  BY NamesDiffer DEF AttachedInTimeKept, Unanswered, Values, Stored
<1>4. sweep.at = "remove" => name[u] \notin sweep.todo
  <2> SUFFICES ASSUME sweep.at = "remove", name[u] \in sweep.todo
               PROVE  FALSE
    OBVIOUS
  <2>1. name[u] \in Stored /\ Age(name[u]) >= Grace
    BY DEF SweepSpares
  <2>2. name[u] # Absent
    BY <2>1, NamesDiffer DEF Stored
  <2>3. Age(name[u]) <= 1
    BY <2>1, <2>2 DEF Unanswered
  <2> QED BY <2>1, <2>3, StoredDay, LimitsAssumption DEF Values
<1>5. sweep.at = "remove" => sweep'.todo \subseteq sweep.todo \ {name[u]}
  BY <1>1, <1>4
<1>6. \A v \in Uploads : name'[v] \in {name[v], Absent}
  BY <1>1 DEF Values
<1> QED BY <1>1, <1>2, <1>3, <1>5, <1>6, RemovedInv

LEMMA SweepRemoveInv ==
  ASSUME Inv, SweepRemove
  PROVE  Inv'
<1> USE DEF Inv
<1>1. PICK f \in sweep.todo : /\ files' = [files EXCEPT ![f] = Removed]
                               /\ sweep' = [sweep EXCEPT !.todo = @ \ {f}]
  BY DEF SweepRemove
<1>2. sweep.at = "remove" /\ UNCHANGED <<pc, image, name, rows, inTime, today>>
  BY DEF SweepRemove, uploadVars
<1>3. f \in Files /\ sweep'.todo = sweep.todo \ {f}
      /\ sweep'.at = sweep.at /\ sweep'.refs = sweep.refs /\ sweep'.day = sweep.day
  BY <1>1 DEF Values
<1>4. Values'
  BY <1>1, <1>2, <1>3 DEF Values
<1>5. \A r \in inTime : rows[r] # f
  BY <1>1, <1>2 DEF SweepSpares
<1> QED BY <1>1, <1>2, <1>3, <1>4, <1>5, RemovedInv
\* A row is given a file: one that is fresh enough cannot have been listed,
\* and is not old at a listing still to come; else it is in use, or spared.
LEMMA AttachInv ==
  ASSUME Inv, NEW r \in Rows, NEW f \in Files, Attach(r, f)
  PROVE  Inv'
<1> USE DEF Inv
<1>1. /\ files[f] # Absent /\ \A u \in Uploads : name[u] # f
      /\ rows' = [rows EXCEPT ![r] = f] /\ UNCHANGED <<files, name, pc, image, sweep, today>>
      /\ inTime' = IF OutOfReach(f) THEN inTime \cup {r} ELSE inTime \ {r}
  BY DEF Attach, uploadVars
<1>2. rows'[r] = f /\ \A t \in Rows \ {r} : rows'[t] = rows[t]
  BY <1>1 DEF Values
<1>3. Values'
  BY <1>1 DEF Values
<1>4. Unanswered'
  <2> SUFFICES ASSUME NEW v \in Uploads, name[v] # Absent
               PROVE  \A t \in Rows : rows'[t] # name[v]
    BY <1>1 DEF Unanswered, Stored, Age
  <2> QED BY <1>1, <1>2 DEF Unanswered
<1>5. Written'
  BY <1>1, <1>2 DEF Written
<1>6. \A t \in inTime' : (t = r /\ OutOfReach(f)) \/ (t # r /\ t \in inTime)
  BY <1>1
<1>7. AttachedInTimeKept'
  BY <1>1, <1>2, <1>6 DEF AttachedInTimeKept, OutOfReach, Stored, Values
<1> DEFINE fresh == f \in Stored /\ Age(f) + SweepLag < Grace
<1>8. fresh => /\ files[f].day \in Nat
               /\ today + SweepLag < files[f].day + Grace /\ Age(f) < Grace
  <2> SUFFICES ASSUME fresh
               PROVE  /\ files[f].day \in Nat
                      /\ today + SweepLag < files[f].day + Grace /\ Age(f) < Grace
    OBVIOUS
  <2>1. files[f].day \in Nat /\ Age(f) = today - files[f].day /\ today \in Int
    BY StoredDay DEF Values
  <2> QED BY <2>1, LimitsAssumption
<1>9. SweepSpares'
  <2>1. ASSUME sweep.at = "list"
        PROVE  \A t \in inTime' : \/ rows'[t] \in sweep.refs
                                  \/ files[rows'[t]].day + Grace > sweep.day + SweepLag
    <3> SUFFICES ASSUME NEW t \in inTime'
                 PROVE  \/ rows'[t] \in sweep.refs
                        \/ files[rows'[t]].day + Grace > sweep.day + SweepLag
      OBVIOUS
    <3>1. CASE t = r /\ OutOfReach(f)
      <4>1. sweep.day <= today /\ sweep.day \in Int /\ today \in Int
        BY <2>1 DEF SweepSpares, Values
      <4>2. fresh \/ f \in sweep.refs
        BY <2>1, <3>1 DEF OutOfReach
      <4>3. fresh => files[f].day + Grace > sweep.day + SweepLag
        BY <1>8, <4>1, LimitsAssumption
      <4> QED BY <1>2, <3>1, <4>2, <4>3
    <3>2. CASE t # r /\ t \in inTime
      BY <1>2, <2>1, <3>2 DEF SweepSpares, Values
    <3> QED BY <1>6, <3>1, <3>2
  <2>2. ASSUME sweep.at = "remove"
        PROVE  \A t \in inTime' : rows'[t] \notin sweep.todo
    <3> SUFFICES ASSUME NEW t \in inTime'
                 PROVE  rows'[t] \notin sweep.todo
      OBVIOUS
    <3>1. CASE t = r /\ OutOfReach(f)
      <4>1. f \in sweep.todo => Age(f) >= Grace
        BY <2>2 DEF SweepSpares
      <4>2. Age(f) \in Int
        BY <3>1, StoredDay DEF OutOfReach, Values
      <4>3. fresh \/ f \notin sweep.todo
        BY <2>2, <3>1 DEF OutOfReach
      <4> QED BY <1>2, <1>8, <3>1, <4>1, <4>2, <4>3, LimitsAssumption
    <3>2. CASE t # r /\ t \in inTime
      BY <1>2, <2>2, <3>2 DEF SweepSpares, Values
    <3> QED BY <1>6, <3>1, <3>2
  <2> QED BY <1>1, <2>1, <2>2 DEF SweepSpares, Stored, Age
<1> QED BY <1>3, <1>4, <1>5, <1>7, <1>9

LEMMA DetachInv ==
  ASSUME Inv, NEW r \in Rows, Detach(r)
  PROVE  Inv'
<1> USE DEF Inv
<1>1. /\ rows' = [rows EXCEPT ![r] = Absent] /\ inTime' = inTime \ {r}
      /\ UNCHANGED <<files, name, pc, image, sweep, today>>
  BY DEF Detach, uploadVars
<1>2. rows'[r] = Absent /\ \A t \in Rows \ {r} : rows'[t] = rows[t]
  BY <1>1 DEF Values
<1>3. Values'
  BY <1>1 DEF Values
<1>4. Unanswered'
  <2> SUFFICES ASSUME NEW v \in Uploads, name[v] # Absent
               PROVE  \A t \in Rows : rows'[t] # name[v]
    BY <1>1 DEF Unanswered, Stored, Age
  <2> QED BY <1>2 DEF Unanswered
<1>5. Written' /\ AttachedInTimeKept'
  BY <1>1, <1>2 DEF Written, AttachedInTimeKept, Stored, Values
<1>6. SweepSpares'
  BY <1>1, <1>2 DEF SweepSpares, Stored, Age, Values
<1> QED BY <1>3, <1>4, <1>5, <1>6

\* The query sees every row; the listing leaves out what it saw and what is new.
LEMMA SweepReadsInv ==
  ASSUME Inv, SweepQuery \/ SweepList \/ SweepEnds
  PROVE  Inv'
<1> USE DEF Inv
<1>1. UNCHANGED <<files, name, pc, image, rows, inTime, today>>
  BY DEF SweepQuery, SweepList, SweepEnds, uploadVars
<1>2. Values'
  <2>1. Referenced \cap Stored \subseteq Files
    BY DEF Stored
  <2>2. today \in 0 .. LastDay /\ 0 \in 0 .. LastDay
    BY LimitsAssumption DEF Values
  <2>3. NoSweep \in [at : {"idle", "list", "remove"}, refs : SUBSET Files,
                     todo : SUBSET Files, day : 0 .. LastDay]
    BY <2>2 DEF NoSweep
  <2>4. sweep' \in [at : {"idle", "list", "remove"}, refs : SUBSET Files,
                    todo : SUBSET Files, day : 0 .. LastDay]
    <3>1. CASE SweepQuery
      BY <2>1, <2>2, <2>3, <3>1 DEF SweepQuery, NoSweep
    <3>2. CASE SweepList
      BY <2>3, <3>2 DEF SweepList, NoSweep, Stored
    <3>3. CASE SweepEnds
      BY <2>3, <3>3 DEF SweepEnds
    <3> QED BY <3>1, <3>2, <3>3
  <2> QED BY <1>1, <2>4 DEF Values
<1>3. Unanswered' /\ Written' /\ AttachedInTimeKept'
  BY <1>1 DEF Unanswered, Written, AttachedInTimeKept, Stored, Age
<1>4. CASE SweepQuery
  <2>1. sweep'.at = "list" /\ sweep'.day = today /\ sweep'.refs = Referenced \cap Stored
    BY <1>4 DEF SweepQuery, NoSweep
  <2>2. \A r \in inTime : rows[r] \in Referenced \cap Stored
    BY NamesDiffer DEF AttachedInTimeKept, Referenced, Stored, Values
  <2>3. today <= today + SweepLag /\ today <= today
    BY LimitsAssumption DEF Values
  <2> QED BY <1>1, <1>2, <1>3, <2>1, <2>2, <2>3 DEF SweepSpares
<1>5. CASE SweepList
  <2>1. sweep'.at = "remove" /\ sweep.at = "list"
        /\ sweep'.todo = {f \in Stored \ sweep.refs : Age(f) >= Grace}
    BY <1>5 DEF SweepList, NoSweep
  <2>2. \A r \in inTime : rows[r] \notin sweep'.todo
    <3> SUFFICES ASSUME NEW r \in inTime, rows[r] \in sweep'.todo
                 PROVE  FALSE
      OBVIOUS
    <3>1. rows[r] \in Stored /\ rows[r] \notin sweep.refs /\ Age(rows[r]) >= Grace
      BY <2>1
    <3>2. files[rows[r]].day \in Nat /\ Age(rows[r]) = today - files[rows[r]].day
      BY <3>1, StoredDay
    <3>3. files[rows[r]].day + Grace > sweep.day + SweepLag /\ today <= sweep.day + SweepLag
      BY <2>1, <3>1 DEF SweepSpares
    <3>4. today \in Int /\ sweep.day \in Int
      BY DEF Values
    <3> QED BY <3>1, <3>2, <3>3, <3>4, LimitsAssumption
  <2> QED BY <1>1, <1>2, <1>3, <2>1, <2>2 DEF SweepSpares, Stored, Age
<1>6. CASE SweepEnds
  BY <1>2, <1>3, <1>6 DEF SweepEnds, NoSweep, SweepSpares
<1> QED BY <1>4, <1>5, <1>6

LEMMA NextDayInv ==
  ASSUME Inv, NextDay
  PROVE  Inv'
<1> USE DEF Inv
<1>1. UNCHANGED <<files, name, pc, image, rows, inTime, sweep>> /\ today' = today + 1
      /\ today < LastDay /\ today \in Nat /\ sweep.day \in Nat
  BY DEF NextDay, uploadVars, Values
<1>2. Values'
  BY <1>1, LimitsAssumption DEF Values
<1>3. \A f \in Files : f \in Stored => f \in Stored' /\ Age(f)' = Age(f) + 1 /\ Age(f) \in Int
  <2> SUFFICES ASSUME NEW f \in Files, f \in Stored
               PROVE  f \in Stored' /\ Age(f)' = Age(f) + 1 /\ Age(f) \in Int
    OBVIOUS
  <2>1. files[f].day \in Nat
    BY StoredDay
  <2> QED BY <1>1, <2>1 DEF Stored, Age
<1>4. Stored' = Stored
  BY <1>1 DEF Stored
<1>5. Unanswered'
  <2> SUFFICES ASSUME NEW v \in Uploads, name[v] # Absent
               PROVE  \E g \in Files : /\ g = name[v] /\ files[g] # Absent
                                       /\ g \in Stored => Age(g)' <= 1
                                       /\ \A r \in Rows : rows[r] # g
    BY <1>1, <1>4 DEF Unanswered, Age
  <2>1. PICK g \in Files : g = name[v]
    BY DEF Values
  <2>2. g \in Stored => Age(g) = 0
    BY <2>1 DEF NextDay
  <2> QED BY <1>3, <2>1, <2>2 DEF Unanswered
<1>6. Written' /\ AttachedInTimeKept'
  BY <1>1, <1>4 DEF Written, AttachedInTimeKept
<1>7. SweepSpares'
  <2>1. ASSUME sweep.at = "list"
        PROVE  sweep.day <= today + 1 /\ today + 1 <= sweep.day + SweepLag
    <3>1. today < sweep.day + SweepLag /\ sweep.day <= today
      BY <2>1 DEF NextDay, SweepSpares
    <3> QED BY <1>1, <3>1, LimitsAssumption
  <2>2. ASSUME sweep.at = "remove", NEW f \in sweep.todo
        PROVE  f \in Stored /\ Age(f)' >= Grace
    <3>1. f \in Files /\ f \in Stored /\ Age(f) >= Grace
      BY <2>2 DEF SweepSpares, Stored
    <3> QED BY <1>3, <3>1, LimitsAssumption
  <2> QED BY <1>1, <1>4, <2>1, <2>2 DEF SweepSpares
<1> QED BY <1>2, <1>5, <1>6, <1>7

LEMMA CrashInv ==
  ASSUME Inv, Crash
  PROVE  Inv'
<1> USE DEF Inv
<1>1. UNCHANGED <<files, rows, inTime, today>> /\ sweep'.at = "idle"
      /\ \A u \in Uploads : name'[u] = Absent
  BY DEF Crash, NoSweep
<1>2. Values'
  BY LimitsAssumption DEF Crash, NoSweep, Values, Places
<1>3. Unanswered' /\ Written' /\ AttachedInTimeKept' /\ SweepSpares'
  BY <1>1 DEF Unanswered, Written, AttachedInTimeKept, SweepSpares, Stored, Age
<1> QED BY <1>2, <1>3

\* Every reachable state satisfies the inductive invariant.
THEOREM Invariance == Spec => []Inv
<1>1. Inv /\ [Next]_vars => Inv'
  <2> SUFFICES ASSUME Inv, [Next]_vars
               PROVE  Inv'
    OBVIOUS
  <2>1. ASSUME NEW u \in Uploads, \/ \E size \in Sizes, webp \in BOOLEAN : UploadFile(u, size, webp)
                                  \/ GiveUp(u) \/ UploadStep(u)
        PROVE  Inv'
    BY <2>1, UploadInv, WriteInv, WriteFailsInv DEF UploadStep
  <2>2. CASE AcquireSlot
    <3>1. ASSUME NEW u \in Uploads
          PROVE  Inv'
      BY <2>2, <3>1, UploadInv
    <3>2. CASE Uploads = {}
      BY <2>2, <3>2, QuietStep DEF AcquireSlot, Goto, Inv, Values
    <3> QED BY <3>1, <3>2
  <2>3. ASSUME NEW r \in Rows, Detach(r) \/ \E f \in Files : Attach(r, f)
        PROVE  Inv'
    BY <2>3, AttachInv, DetachInv
  <2>4. CASE SweepQuery \/ SweepList \/ SweepRemove \/ SweepEnds
    BY <2>4, SweepReadsInv, SweepRemoveInv
  <2>5. CASE NextDay \/ Crash
    BY <2>5, NextDayInv, CrashInv
  <2>6. CASE UNCHANGED vars
    BY <2>6 DEF vars, uploadVars, Inv, Values, Unanswered, Written, AttachedInTimeKept,
                SweepSpares, Stored, Age
  <2> QED BY <2>1, <2>2, <2>3, <2>4, <2>5, <2>6 DEF Next
<1> QED BY <1>1, InitInv, PTL DEF Spec

\* A file attached within the grace period is never swept away under its row.
THEOREM AttachedInTimeKeptHolds == Spec => []AttachedInTimeKept
  BY Invariance, PTL DEF Inv
=============================================================================
