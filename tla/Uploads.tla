------------------------------ MODULE Uploads ------------------------------
(***************************************************************************)
(* Uploaded images: a request checks the quota, waits for one of the few   *)
(* decode slots, re-encodes the image and writes it under a new name; car  *)
(* and payment rows refer to files by name; a background sweep removes the *)
(* files that no row refers to once they are older than the grace period.  *)
(*                                                                         *)
(* Nothing ties these together: the quota is read long before the file is  *)
(* written, and the sweep reads the rows, then the directory, then removes *)
(* file after file, while requests go on.                                  *)
(***************************************************************************)
EXTENDS Integers, FiniteSetsExt, SequencesExt

CONSTANTS
    Uploads,        \* upload requests handled at once
    Files,          \* file names; each is drawn at random and used once
    Rows,           \* rows with a URL: cars.photo_url, payments.proof_url
    Absent,         \* a name not used yet
    Removed,        \* a name whose file is gone
    Slots,          \* decodeConcurrency (4 in the code)
    Sizes,          \* sizes of the files clients send
    MaxStored,      \* the largest a re-encoded file may get
    Quota,          \* UPLOAD_MAX_TOTAL_MB
    Grace,          \* orphanGrace (7 days)
    SweepLag,       \* bound: days from the sweep's query to its listing
    LastDay         \* bound: the calendar is 0..LastDay

ASSUME LimitsAssumption ==
    /\ Slots \in Nat \ {0} /\ MaxStored \in Nat
    /\ Quota \in Nat \ {0}    \* 0 turns the quota off, which is not modelled
    /\ Sizes \subseteq 1 .. MaxStored
    /\ Grace \in Nat \ {0, 1} /\ SweepLag \in Nat /\ LastDay \in Nat

File == [size : 1 .. MaxStored, day : 0 .. LastDay]

\* Names are a fixed number of random digits, and a process has so many goroutines.
ASSUME FinitenessAssumption == IsFiniteSet(Uploads) /\ IsFiniteSet(Files)

ASSUME NamesAssumption == Absent # Removed /\ {Absent, Removed} \cap (File \cup Files) = {}

VARIABLES
    files,          \* the upload directory, with modification times
    pc,             \* where each upload is; "idle" once it is answered
    image,          \* its size: as sent, then as re-encoded
    name,           \* the name it writes to
    queue,          \* uploads blocked on the channel decodeSlots, in order
    slots,          \* len(decodeSlots): slots taken
    rows,           \* the name each row refers to
    inTime,         \* history: rows given a file that no sweep could take
    sweep,          \* the sweep's place, what it has read, and when
    today           \* the day

uploadVars == <<pc, image, name, queue, slots>>

vars == <<files, uploadVars, rows, inTime, sweep, today>>

NoSweep == [at |-> "idle", refs |-> {}, todo |-> {}, day |-> 0]

Init ==
    /\ files = [f \in Files |-> Absent]
    /\ pc = [u \in Uploads |-> "idle"]
    /\ image = [u \in Uploads |-> 0]
    /\ name = [u \in Uploads |-> Absent]
    /\ queue = <<>>
    /\ slots = 0
    /\ rows = [r \in Rows |-> Absent]
    /\ inTime = {}
    /\ sweep = NoSweep
    /\ today = 0

Stored == {f \in Files : files[f] \in File}

dirUsageBytes == MapThenSumSet(LAMBDA f : files[f].size, Stored)

Goto(u, l) == pc' = [pc EXCEPT ![u] = l]

\* The request ends, whatever it answers.
Finish(u) ==
    /\ Goto(u, "idle")
    /\ image' = [image EXCEPT ![u] = 0]
    /\ name' = [name EXCEPT ![u] = Absent]

Active == {u \in Uploads : pc[u] # "idle"}

(***************************************************************************)
(* UploadFile and withDecodeSlot.                                          *)
(***************************************************************************)

\* Mutant: only the new file is compared with the quota.
UnderQuota_NewFileOnly(size) == size <= Quota

UnderQuota(size) == dirUsageBytes + size <= Quota

\* A file that passes the checks of size, quota and type; a webp is stored as
\* it is, a jpeg or png is queued for decoding.  (Names are a bound.)
UploadFile(u, size, webp) ==
    /\ pc[u] = "idle"
    /\ Cardinality({f \in Files : files[f] = Absent}) > Cardinality(Active)
    /\ UnderQuota(size)
    /\ image' = [image EXCEPT ![u] = size]
    /\ IF webp THEN Goto(u, "write") /\ UNCHANGED queue
       ELSE Goto(u, "wait") /\ queue' = Append(queue, u)
    /\ UNCHANGED <<files, name, slots, rows, inTime, sweep, today>>

\* A free slot goes to the first that waits.
AcquireSlot ==
    /\ queue # <<>>
    /\ slots < Slots
    /\ slots' = slots + 1
    /\ Goto(Head(queue), "decode")
    /\ queue' = Tail(queue)
    /\ UNCHANGED <<files, image, name, rows, inTime, sweep, today>>

\* Mutant: the request ends and its place in the queue stays.
GiveUp_KeepsPlace(u) ==
    /\ pc[u] = "wait"
    /\ Finish(u)
    /\ UNCHANGED <<files, queue, slots, rows, inTime, sweep, today>>

\* The client disconnects while its upload waits.
GiveUp(u) ==
    /\ pc[u] = "wait"
    /\ \E i \in 1 .. Len(queue) : queue[i] = u /\ queue' = RemoveAt(queue, i)
    /\ Finish(u)
    /\ UNCHANGED <<files, slots, rows, inTime, sweep, today>>

\* The image is re-encoded, to any size, and the slot given back.
Decode(u) ==
    /\ pc[u] = "decode"
    /\ slots' = slots - 1
    /\ \E size \in 1 .. MaxStored : image' = [image EXCEPT ![u] = size]
    /\ Goto(u, "write")
    /\ UNCHANGED <<files, name, queue, rows, inTime, sweep, today>>

\* Mutant: the slot is given back after success only.
DecodeFails_KeepsSlot(u) ==
    /\ pc[u] = "decode"
    /\ Finish(u)
    /\ UNCHANGED <<files, queue, slots, rows, inTime, sweep, today>>

\* It is no image, too large, or the decoder panics.
DecodeFails(u) ==
    /\ pc[u] = "decode"
    /\ slots' = slots - 1
    /\ Finish(u)
    /\ UNCHANGED <<files, queue, rows, inTime, sweep, today>>

\* A name that was never used; which one makes no difference.
NewName == CHOOSE f \in Files : files[f] = Absent

\* A file of a new name is created (O_EXCL) and written.
Write(u) ==
    /\ pc[u] = "write"
    /\ NewName \in {f \in Files : files[f] = Absent}
    /\ files' = [files EXCEPT ![NewName] = [size |-> image[u], day |-> today]]
    /\ name' = [name EXCEPT ![u] = NewName]
    /\ Goto(u, "close")
    /\ UNCHANGED <<image, queue, slots, rows, inTime, sweep, today>>

\* The random name, the directory or the file cannot be had.
CreateFails(u) ==
    /\ pc[u] = "write"
    /\ Finish(u)
    /\ UNCHANGED <<files, queue, slots, rows, inTime, sweep, today>>

\* The URL is answered.
Close(u) ==
    /\ pc[u] = "close"
    /\ Finish(u)
    /\ UNCHANGED <<files, queue, slots, rows, inTime, sweep, today>>

\* Writing or closing fails, and what was written is removed.
WriteFails(u) ==
    /\ pc[u] = "close"
    /\ files' = [files EXCEPT ![name[u]] = Removed]
    /\ Finish(u)
    /\ UNCHANGED <<queue, slots, rows, inTime, sweep, today>>

UploadStep(u) ==
    \/ Decode(u) \/ DecodeFails(u)
    \/ Write(u) \/ CreateFails(u) \/ Close(u) \/ WriteFails(u)

(***************************************************************************)
(* Rows.  validURL looks at the form of a local URL, not for the file.     *)
(***************************************************************************)

Age(f) == today - files[f].day

\* No sweep under way can take the file: it will not be old when the directory
\* is read, or the sweep has seen it in use, has spared it, or has not begun.
OutOfReach(f) ==
    /\ f \in Stored
    /\ \/ Age(f) + SweepLag < Grace
       \/ sweep.at = "idle"
       \/ sweep.at = "list" /\ f \in sweep.refs
       \/ sweep.at = "remove" /\ f \notin sweep.todo

\* CreateCar, PatchCar and RecordPayment store the URL of a file uploaded some
\* time ago, perhaps gone by now.  A name cannot be guessed before it is answered.
Attach(r, f) ==
    /\ files[f] # Absent /\ \A u \in Uploads : name[u] # f
    /\ rows' = [rows EXCEPT ![r] = f]
    /\ inTime' = IF OutOfReach(f) THEN inTime \cup {r} ELSE inTime \ {r}
    /\ UNCHANGED <<files, uploadVars, sweep, today>>

\* The car is deleted, or its photo replaced by one elsewhere.
Detach(r) ==
    /\ rows[r] # Absent
    /\ rows' = [rows EXCEPT ![r] = Absent]
    /\ inTime' = inTime \ {r}
    /\ UNCHANGED <<files, uploadVars, sweep, today>>

(***************************************************************************)
(* CleanupOrphanUploads.                                                   *)
(***************************************************************************)

Referenced == {rows[r] : r \in Rows} \ {Absent}

\* The ticker fires and the rows are read (for files that are there).
SweepQuery ==
    /\ sweep.at = "idle"
    /\ sweep' = [NoSweep EXCEPT !.at = "list", !.refs = Referenced \cap Stored, !.day = today]
    /\ UNCHANGED <<files, uploadVars, rows, inTime, today>>

\* Mutant: the grace period is not looked at.
SweepList_NoGrace ==
    /\ sweep.at = "list"
    /\ sweep' = [NoSweep EXCEPT !.at = "remove", !.todo = Stored \ sweep.refs]
    /\ UNCHANGED <<files, uploadVars, rows, inTime, today>>

\* Mutant: the comparison of the times is the wrong way round.
SweepList_KeepsOld ==
    /\ sweep.at = "list"
    /\ sweep' = [NoSweep EXCEPT !.at = "remove",
                                !.todo = {f \in Stored \ sweep.refs : Age(f) < Grace}]
    /\ UNCHANGED <<files, uploadVars, rows, inTime, today>>

\* The directory is read and the deadline computed.
SweepList ==
    /\ sweep.at = "list"
    /\ sweep' = [NoSweep EXCEPT !.at = "remove",
                                !.todo = {f \in Stored \ sweep.refs : Age(f) >= Grace}]
    /\ UNCHANGED <<files, uploadVars, rows, inTime, today>>

\* The files are removed one by one.
SweepRemove ==
    /\ sweep.at = "remove"
    /\ \E f \in sweep.todo :
          /\ files' = [files EXCEPT ![f] = Removed]
          /\ sweep' = [sweep EXCEPT !.todo = @ \ {f}]
    /\ UNCHANGED <<uploadVars, rows, inTime, today>>

\* Nothing is left to remove, or a step failed and the rest is left for the
\* next sweep.
SweepEnds ==
    /\ sweep.at # "idle"
    /\ sweep' = NoSweep
    /\ UNCHANGED <<files, uploadVars, rows, inTime, today>>

(***************************************************************************)
(* Time and crashes.                                                       *)
(***************************************************************************)

\* No file takes two midnights to be written.
NextDay ==
    /\ today < LastDay
    /\ \A u \in Uploads : name[u] \in Stored => Age(name[u]) = 0
    /\ sweep.at = "list" => today < sweep.day + SweepLag
    /\ today' = today + 1
    /\ UNCHANGED <<files, uploadVars, rows, inTime, sweep>>

\* The process ends and starts again; files and rows stay as they are.
Crash ==
    /\ Active # {}
    /\ pc' = [u \in Uploads |-> "idle"]
    /\ image' = [u \in Uploads |-> 0]
    /\ name' = [u \in Uploads |-> Absent]
    /\ queue' = <<>>
    /\ slots' = 0
    /\ sweep' = NoSweep
    /\ UNCHANGED <<files, rows, inTime, today>>

Next ==
    \/ \E u \in Uploads : \/ \E size \in Sizes, webp \in BOOLEAN : UploadFile(u, size, webp)
                          \/ GiveUp(u)
                          \/ UploadStep(u)
    \/ AcquireSlot
    \/ \E r \in Rows : Detach(r) \/ \E f \in Files : Attach(r, f)
    \/ SweepQuery \/ SweepList \/ SweepRemove \/ SweepEnds
    \/ NextDay
    \/ Crash

\* Goroutines run, and the channel serves its waiters in order.  A sweep may
\* fail or be cut off by a restart any number of times, but each of its steps
\* that is possible again and again succeeds at some time.
Fairness ==
    /\ \A u \in Uploads : WF_vars(UploadStep(u))
    /\ WF_vars(AcquireSlot)
    /\ SF_vars(SweepQuery) /\ SF_vars(SweepList) /\ SF_vars(SweepRemove)
    /\ WF_vars(SweepEnds)

Spec == Init /\ [][Next]_vars /\ Fairness

(***************************************************************************)
(* Properties.                                                             *)
(***************************************************************************)

At(l) == {u \in Uploads : pc[u] = l}

\* The queue is the uploads that wait, and the slots taken are those of the
\* uploads that decode: neither a disconnect nor a failure leaves a place or
\* a slot behind.
TypeOK ==
    /\ files \in [Files -> File \cup {Absent, Removed}]
    /\ pc \in [Uploads -> {"idle", "wait", "decode", "write", "close"}]
    /\ \A u \in Uploads : image[u] \in IF pc[u] = "idle" THEN {0} ELSE 1 .. MaxStored
    /\ \A u \in Uploads : name[u] \in IF pc[u] = "close" THEN Stored ELSE {Absent}
    /\ Len(queue) = Cardinality(At("wait"))
    /\ \A u \in At("wait") : \E i \in 1 .. Len(queue) : queue[i] = u
    /\ slots = Cardinality(At("decode")) /\ slots <= Slots
    /\ rows \in [Rows -> Files \cup {Absent}]
    /\ inTime \subseteq Rows
    /\ sweep \in [at : {"idle", "list", "remove"}, refs : SUBSET Files,
                  todo : SUBSET Files, day : 0 .. LastDay]
    /\ today \in 0 .. LastDay

\* The quota is a ceiling with a bounded overshoot: by the stored sizes of the
\* uploads handled at once, each of which saw the directory under the quota,
\* and not by more over any number of uploads.
OvershootBounded == dirUsageBytes < Quota + Cardinality(Uploads) * MaxStored

\* A row that was given a file, fresh or old, finds it as long as it refers to
\* it, however old the file gets and however many sweeps there are.  The one
\* exception is an old file taken into use after a sweep under way has read the
\* rows without it.
AttachedInTimeKept == \A r \in inTime : rows[r] \in Stored

\* Every upload ends: nobody waits for a slot that was never given back.
EveryUploadEnds == \A u \in Uploads : pc[u] # "idle" ~> pc[u] = "idle"

\* A file that is old and that no row refers to is removed, or taken into use
\* again, also when its upload or an earlier sweep was cut off.
OrphansSwept ==
    \A f \in Files : f \in Stored \ Referenced /\ (f \in Stored => Age(f) >= Grace)
                         ~> f \notin Stored \ Referenced
=============================================================================
