# A TLA+ model of pinolrent-api

pinolrent-api is the HTTP API of a peer-to-peer car rental service: a Go program
over one SQLite file (WAL, eight connections). This directory holds a model of
the parts where requests of several people meet, the TLC instances that check
it, and proofs checked by TLAPS. Paths below are relative to `src/`.

- [Components](#components)
- [Modules](#modules)
- [Runs](#runs)
- [Proofs](#proofs)
- [Where code and documents disagree](#where-code-and-documents-disagree)
- [What is not modelled](#what-is-not-modelled)
- [Plan](#plan)

## Components

All state that outlives a request is in SQLite tables, except the buckets of the
rate limiter, the decode slots, and the uploaded files. Handlers do not call one
another: they interact through rows.

**Reservation flow** (`internal/handlers/reservations.go`, `payments.go`,
`seller_review.go`, `admin_confirm.go`). State: `reservations`, `payments`. A
buyer books days of a car, pays by uploading a proof, may cancel while nobody has
answered; the owner accepts or rejects; an administrator confirms the payment or
sends it back for correction. Each write is one `BEGIN IMMEDIATE` transaction.
Hard: buyers race for the same days; one person may be buyer, owner and
administrator; a payment may precede the owner's answer; requests repeat; the
date is checked before the transaction. Correct when days are never held twice,
the payment row agrees with the status, a reservation moves along documented
edges only, and every decision is logged and announced exactly once.

**Car catalogue** (`cars.go`, `admin_cars.go`). State: `cars`. Owners and
administrators create, edit, deactivate and delete. Hard: the guards ("no future
booking", "never reserved") race with booking. Correct when no reservation loses
its car and only an administrator takes a booked car off the catalogue.

**Seller role** (`auth.go` BecomeSeller, `admin_users.go` AdminPatchUserRoles).
State: `user_roles`. Guarded by the same "future booking" query. Roles are read by
`RequireAuth` before the handler starts, so a handler may act on a revoked one.

**Notifications** (`notifications.go`) and **audit log** (`admin_audit.go`).
Rows written in the transaction of the decision they report. Correct when they
are neither lost nor doubled.

**Sessions and tokens** (`internal/auth/auth.go`, `handlers/auth.go`). State:
`revoked_tokens`, `users.token_valid_after`, `users.password_hash`, and the signed
tokens themselves. Login, RequireAuth, logout, UpdatePassword, RotateRefresh, the
collector of expired rows. Hard: nothing here holds a transaction across its
reads and writes; time has the grain of a second and may be set back. Correct
when a refresh token is used once, a dead token stays dead, and a later write
does not undo a revocation.

**Accounts** (`handlers/auth.go`, `admin_users.go`, `internal/auth/admin.go`). State:
`users`, the admin rows of `user_roles`. Registration, phone, suspension, the
allow-list synchronised at startup. Hard: handlers act on the row RequireAuth read,
and the list changes between starts. Correct when the administrators are those of
the list, a seller is reachable unless it saw to the contrary itself, somebody can
administer, and the log tells what happened.

**Transactions and pool** (`internal/db/tx.go`, `db.go`). Eight connections, write
lock, busy timeout, rollback. Hard: waiting, cancellation, a COMMIT that fails.
Correct when a transaction is all or nothing and every waiter is answered.

**Rate limiter** (`internal/ratelimit`). State: a bucket per key under a mutex, with
collection of idle ones. Correct when collection never gives a client more
requests than the bucket would have.

**Uploads** (`uploads.go`, `uploads_files.go`). State: files, four decode slots, a
quota, a background sweep of files no row refers to. Hard: the sweep and the
quota check read first and act later.

**Migrations** (`internal/db/migrations`, `db.go`). Some run without a transaction;
two instances may start at once.

**Reads and plumbing.** Listings, statistics, views, validation, configuration,
routing, `cmd/api`: no state of their own.

## Modules

| Module | Models | Extends |
|---|---|---|
| `Booking` | reservation flow, catalogue, seller role, notifications, audit log | |
| `Calendar` | abstract: who holds each day of each car | |
| `MCBooking` | TLC instance of `Booking` | `Booking` |
| `BookingProofs` | theorems about the rows of `Booking` | `Booking`, TLAPS |
| `BookingAuditProofs` | theorems about its log and notifications | `BookingProofs` |
| `Sessions` | tokens, rotation, logout, password change, replay alarm | |
| `MCSessions` | TLC instance of `Sessions` | `Sessions` |
| `SessionsProofs` | theorems about `Sessions` | `Sessions`, TLAPS |
| `Accounts` | registration, phone, roles, suspension, the admin list and restarts | |
| `MCAccounts`, `AccountsProofs` | its TLC instance and theorems | `Accounts` |
| `ImmediateTx` | connection pool, write lock, `WithImmediateTx`, plain writes, answers | |
| `AtomicUpdates` | abstract: one atomic update a request, and a true answer | |
| `MCImmediateTx`, `ImmediateTxProofs` | its TLC instance and theorems | `ImmediateTx` |
| `RateLimit` | buckets, idle collection, the client's address | |
| `Budget` | abstract: a budget for each client that is never dropped | |
| `MCRateLimit`, `RateLimitProofs` | its TLC instance and theorems | `RateLimit` |
| `Uploads` | quota, decode slots, files, references, the orphan sweep | |
| `MCUploads`, `UploadsProofs` | its TLC instance and theorems about the sweep | `Uploads` |
| `UploadsQuotaProofs` | theorems about its slots, queue and quota | `UploadsProofs` |

`Booking`, `Accounts` and `Sessions` look at the same requests from three sides. What
passes between them is small and named where it happens: `Booking` takes the set of
administrators for fixed (between two starts it is, by `AdminsFollowList`, except
for accounts registered later) and the phone as given; `Accounts` takes the refusal
to revoke a seller with bookings as a step that is not taken; `Sessions` has the
token check that precedes `userByID`. All three take a transaction for one step,
which is what `ImmediateTx` shows of `WithImmediateTx`.

### Booking

`sellers`, `cars`, `reservations`, `payments`, `notifications` and `audit` are the
tables. `notifications` counts the rows by user, kind and reservation; `audit` is
the set of rows, where a row about a reservation that repeats an earlier one is told
from it (`again`), and one about a car or a user is not. Prices, photos, comments and proof files tell no property apart
and are left out. A deleted car is the model value `Deleted`, since ids are
`AUTOINCREMENT` and never come back.

A handler is one action, because its reads and writes are inside one
`WithImmediateTx` (or are one statement); its refusals (404, 409, 422) change
nothing and are the absence of a step. A failed or rolled-back transaction is
such an absence too. What the code does *before* the transaction
is a step of its own: `RequireAuth` puts a snapshot (caller, roles, day) into
`inflight`, `RequireRole` and the handlers look at the snapshot, and `Respond` drops it. A snapshot may
serve any number of handler calls, as identical requests may be in flight at a
time. `NextDay` is midnight in the business time zone; `ValidDates` compares with
the snapshot's day, `HasFuture` with `today`, as in the code.

`SetStatus`, `notifyUsers` and `auditAction` are the helpers of the same name, or
the UPDATE they stand for. `notifyUsers` takes the groups the handler appends to
its recipients and adds one row for each distinct member, which is what the map
in the code does.

Roles: the buyer role is everyone's, the admin role follows a list read at startup
and is the constant `Admins`; the seller role is state. `Reachable` are the accounts
with a phone number, on file or to give; without one `GrantSeller` and
`BecomeSeller` are refused.

### Sessions

One account; nothing in this part relates two. Here each SQL statement is a
step, and what a request has read is kept in its record in `requests` (`op` is its
program counter, `stamp` a value computed and not yet written, `lag` how long
ago). `Vanish` ends a request at any point: the client leaves, a statement fails
or the process restarts; what was written stays. The signature check is exact.
`pairs` are the signed token pairs with `iat`, the password their session was
opened with and the pair they were swapped for. An access token and its refresh
token are signed within a second.

`now` ticks in seconds, may stay behind `latest`, its highest reading, by `MaxBack`
(`StepBack`), and `MaxLag` bounds how long a computed stamp waits for the
database. `latest`, `spent` and `strongest` are history variables: no action reads
them, except for the bound of `StepBack`.

### Calendar

The abstract specification of a booking: days of a car have one holder; a rental
takes a run of free days, gives back all or none, and keeps what was sold.
`Booking` implements it under `holder <- HolderOf`, `sold <- SoldIds`: creation is
`Take`, cancellation and rejection are `GiveBack`, confirmation is `Sell`, and
every other step leaves the calendar alone.

### Accounts

`registered`, `phones`, `suspended` are what the `users` rows say; `sellers` and `admins`
are the `user_roles` rows beyond the buyer's; `audit` keeps the rows about an account
in the order of their ids. `RequireAuth` is two queries, so two actions: `userByID` (the row; a suspended
account stops here) and `RequireAuth` (the roles). The handlers act on the snapshot
in `inflight`. `Restart` ends the process with all its requests and starts it with
any list: `SyncAdminRoles` runs before it serves. It is one action since it is one
transaction before the listener is open; two processes at a time on one file are
outside the model, as the comment in the code has it.

### ImmediateTx and AtomicUpdates

`pc` is a request's place between the pool and its answer. `conn` is the
connection it holds, `writer` the connection with the open transaction, `work` the
rows as that transaction sees them. The callback is the shape all callbacks in
`handlers` have: check rows, refuse or write one, write another. It takes the rows
if they are free and gives them back if they are the caller's (a reservation made and
cancelled). `Fail` is any statement, COMMIT, or a panic, at any of the three places;
`Cancel` is a client that goes away, which ends waits and fails statements but not
the deferred ROLLBACK. A handler with one statement (`Plain`, for instance
`UpdateMe`) has no transaction of its own. `Crash` loses what is not committed.

`applied` is a history variable. `AtomicUpdates` says what a client may rely on:
rows change together in one step that also checks them; "ok" only if that step was
taken, "refused" and "busy" only if it was not, an error says nothing.
`ImmediateTx` implements it under `stage <- Stage`: `Commit` and `Exec` are
`Update`, a request that goes idle is `Answer`.

A BEGIN that reports an error is taken to have opened no transaction: the rollback
is deferred after it, and the driver is not in the repository.

### RateLimit and Budget

A tick is the time in which a bucket regains a unit, and a token is `Cost` units, so
that one specification covers both limiters. `maybeGC` and `Allow` are the two
critical sections of a request, with others and `Tick` between them.
`Arrivals(k)` are the ways a request of client `k` can reach the server: directly
with any headers, or through trusted proxies of which the first appends the address
it saw, or puts it into `X-Real-IP`; `clientIP` finds the key from the headers as the code does. `served`,
`refused` and `opened` count in a window that `Observe` may open at any time; no code
reads them. `Refilled` is `rate.Limiter` of `golang.org/x/time/rate`, in units
instead of floating-point seconds.

Proxies are taken to behave as `docs/configuration.md:63-72` has it. One that appends to
`X-Forwarded-For` keeps the chain in one header line, since `Header.Get` reads the first
line only. One that sets nothing but `X-Real-IP` strips the client's own
`X-Forwarded-For`: the code reads that header first (`ratelimit.go:137`), so a proxy that
passed it through would let a client choose its key.

`Budget` is the same service without a map, a collection, headers or a lock. The
mapping is `level <- Level`, the units each client has by now. It rests on
`Capacity <= TTL`: a bucket is full before it may be dropped (30 tokens at 0.5 a
second and 60 at 2 a second against ten minutes).

### Uploads

`files` maps names to files, with size and day of modification; a name is used once,
as 128 random bits are. `pc` and `queue` are the uploads and the channel
`decodeSlots`, which serves its senders in order. The quota is compared in `UploadFile` with
the size the client sent, the file is written later with the size after
re-encoding. `Attach` stores any URL of a file that was answered once, since `validURL`
looks at its form and not for the file. The sweep is a process of its own: it reads
the rows (`SweepQuery`), the directory and the deadline (`SweepList`), and removes one
file after another; any failure ends it. A day is the unit of `Grace` (7 in the
code); `SweepLag` bounds the days between the sweep's query and its listing.
`inTime` is a history variable: rows given a file that no sweep under way can take
(`OutOfReach`): it is too fresh to be old when the directory is read, or the sweep has
seen it in use, has spared it, or has not begun.

## Runs

| Run | Checks | Instance |
|---|---|---|
| `booking_flow` | `TypeOK`, `PaymentMatchesStatus`, `DecisionsAudited`, `AnnouncedOnce`, `CorrectionsAnswered`, `LegalTransitions` | 3 accounts, 1 car, 1 reservation, 2 snapshots, 2 correction rounds |
| `booking_dates` | `NoDoubleBooking`, `ReservedCarsExist`, `InactiveOnlyByOverride`, `ImplementsCalendar` | 1 account of all roles, 1 car, 2 reservations, 3 days |
| `booking_stranded` | `NoStrandedReservation`, violated | as `booking_flow`, 1 snapshot |
| `sessions_rotation` | `RotatedOnce`, `SpentStaysSpent` | 3 pairs, 2 requests, 3 seconds, clock set back by 1 |
| `sessions_revocation` | `TypeOK`, `RevocationLasts` | 2 pairs, 2 requests, 5 seconds, lag 1, clock set back by 1, 1 password change |
| `sessions_password` | `OldTokensExpire`, violated | 2 pairs, 2 requests, 3 seconds |
| `sessions_replay` | `DeadTokenYieldsDeadPair`, violated | 2 pairs, 2 requests, 3 seconds |
| `accounts` | `TypeOK`, `AdminsFollowList`, `LogExplainsAccount`, `PhonelessOnlyByOwnRequest`, `LockoutOnlyByRace` | 2 accounts, 3 lists, 2 snapshots, 3 audit rows an account |
| `accounts_lockout` | `SomebodyCanAdminister`, violated | 2 accounts, one list of both |
| `immediate_tx` | `TypeOK`, `OpenTxOwned`, `ImplementsAtomicUpdates`, `EveryRequestEnds` | 2 transactions, 1 plain write, 2 connections |
| `rate_limit` | `TypeOK`, `WindowBound`, `ImplementsBudget` | 2 clients, 1 proxy, buckets of 2 tokens, 6 ticks |
| `uploads` | `TypeOK`, `OvershootBounded`, `AttachedInTimeKept`, `EveryUploadEnds`, `OrphansSwept` | 2 uploads, 1 slot, 3 names, 1 row, 4 days, grace 2 |

Why the bounds are enough for the cases that matter:

- *One reservation* in `booking_flow`: a handler that is not `CreateReservation` reads
  and writes the rows of one reservation, so its history does not depend on others.
  Three accounts are an administrator, a seller and a plain buyer; each may book,
  the administrator may become a seller, so every coincidence of buyer, owner and
  administrator occurs. Two snapshots let a handler act on a role that another
  request has revoked meanwhile. Two rounds are the first correction and one more.
- *Two reservations* in `booking_dates`: an overlap is a matter of a pair. One
  account of every role is enough, since the calendar does not depend on who
  acts; three days with rentals of up to two give disjoint, touching and
  overlapping ranges and reservations in the past.
- *Two requests* in `Sessions`: every race in the code is between two. The third
  pair in `sessions_rotation` is the one a second swap would create. The lifetimes
  are short so that tokens expire and rows are collected within the clock's range. In
  `sessions_revocation` lag and set-back may come together, and its bound is tight: with a
  second less TLC finds it violated.
- *Two accounts* in `Accounts`: one handler relates two accounts, the actor and the
  target. The lists are empty, one and both, so that each start may grant, keep and
  revoke. Two snapshots are two administrators at a time, or one account's requests
  from before and after a grant. Three audit rows are a suspension lifted and made again.
- *Three requests, two connections* in `ImmediateTx`: more requests than connections, two
  of them for the same rows, and a request that needs no transaction. A second
  request of a client is `Ask` again.
- *Six ticks* in `RateLimit`: a bucket drained, refilled, dropped after `TTL` (as short as
  the assumption allows, so that a drop comes as early as it can) and used again. The
  chains a client injects are none, another client's, a proxy's, and an empty item.
- *Two uploads for one slot* in `Uploads` make a queue, and both may pass the quota before
  either is written. Three names let a row move from an old file to a new one; four
  days are a file that gets old, is attached late or swept, and another sweep.
- Reservation ids, pairs and requests in `Booking` and `Sessions` are interchangeable, since no code compares
  them, hence the symmetry sets; no liveness property is checked under symmetry.

The systems never stop in these instances: a snapshot can always be taken or
dropped, a login or a process can always begin, a file can always be attached, so
deadlock checking stays on in every run.

### Fairness

`Booking`, `Sessions`, `Accounts` and `RateLimit` promise nothing that must happen: no code
makes an owner answer, no handler of theirs waits. Their specifications have no fairness.

`ImmediateTx` has weak fairness of each request's own work: a goroutine that can run
does, a statement returns, and a wait for the write lock ends by getting it or by the
busy timeout (`BeginFails` is always possible while the lock is held). It
has strong fairness of `Acquire`: a connection is free again and again, not
continuously, and `database/sql` hands it to a waiter picked at random, so none is
passed over for ever. Clients (`Ask`, `Cancel`) and `Crash` have none.

`Uploads` has weak fairness of each upload's steps and of `AcquireSlot`: the channel is
first in, first out, so a continuously waiting upload gets its turn. The
sweep's steps have strong fairness: each may fail or be cut off by a restart any
number of times, but one that is possible again and again succeeds at some time. This
assumes that no file is impossible to remove for ever: the directory is read in order of
names and the first failed removal ends the sweep (`uploads.go:220-222`), so such a file
would starve those after it, and `OrphansSwept` does not speak of it. The
ticker fires every six hours, for which `SweepQuery` stands. Nothing makes
a client disconnect, a day pass or the process crash.

What each property says beyond a single handler:

- `NoDoubleBooking`, `ImplementsCalendar`: the overlap query against all interleavings
  of creation, cancellation and rejection, also across midnight.
- `ReservedCarsExist`, `InactiveOnlyByOverride`: the guards of deletion and
  deactivation against a concurrent booking. The second says that a booked car is
  off the catalogue only if the log shows an administrator who edited it (at any time: an
  earlier edit of the price counts, as the log does not say what was edited).
- `PaymentMatchesStatus`, `LegalTransitions`: payments recorded before or after the
  owner's answer, corrections, repeated requests.
- `DecisionsAudited`: who decided, by the log, against the status; the owner may have
  lost the role since. Repeated and crossing requests leave one row for each decision.
- `AnnouncedOnce`, `CorrectionsAnswered`: counts of notification rows against the
  reservation's state, for people in several groups and for repeated rounds.
- `RotatedOnce`, `SpentStaysSpent`: single use, whatever the collector deletes and
  whether or not the clock was set back. Both have the premise that no clock
  reading has passed the token's expiry: past it a token that is set back to life
  by the clock is indeed no longer known to be spent.
- `RevocationLasts`: stamps are written unconditionally, so a late one lowers the
  column. The property names by how much: the lag of the write or the set-back of the
  clock, whichever is larger (a clock that is behind catches up while a stamp waits), and
  the second a replay's stamp may be ahead.
- `AdminsFollowList`: two writers of the role, accounts registered before and after a
  start, lists that grow, shrink and are emptied.
- `LogExplainsAccount`: repeated and crossing calls of several administrators leave a log
  that alternates and ends with what holds.
- `PhonelessOnlyByOwnRequest`, `LockoutOnlyByRace`: neither promise of the code holds
  outright, since handlers act on snapshots; the properties say exactly which
  step can break it, and that no other can.
- `ImplementsAtomicUpdates`, `OpenTxOwned`, `EveryRequestEnds`: atomicity, true answers
  and no wait for ever, with an error, a cancellation or a crash at every place.
- `ImplementsBudget`, `WindowBound`: dropping buckets, the gap between the two critical
  sections and invented headers give nobody a request more or less.
- `OvershootBounded`: the quota, read long before it is used, is exceeded by at most the
  stored sizes of the uploads handled at once, over any number of uploads.
- `AttachedInTimeKept`, `OrphansSwept`: the sweep against rows that change while it runs.
  It takes no file in use, however old, but for one that was taken into use old and after
  the sweep had read the rows; and in the end it takes everything that nobody uses.
- `EveryUploadEnds` and the `TypeOK` of `Uploads` and `ImmediateTx`: slots, places in the
  queue and connections are given back on every path.

## Proofs

Every safety invariant, action property and refinement that a run checks is also a
theorem. What the runs show of small instances holds for every value of the constants.

`BookingProofs` and `BookingAuditProofs` prove, for every number of accounts, cars, reservations and days,
from the named assumptions of `Booking` only (`AccountsAssumption`: roles are given
to accounts, sellers have a phone; `BoundsAssumption`: the bounds are naturals;
`RowsAssumption`: an absent row is no row):

| Theorem | States |
|---|---|
| `TypeCorrect` | `Spec => []TypeOK` |
| `NoDoubleBookingHolds` | `Spec => []NoDoubleBooking` |
| `PaymentMatchesStatusHolds` | `Spec => []PaymentMatchesStatus` |
| `ReservedCarsExistHolds` | `Spec => []ReservedCarsExist` |
| `LegalTransitionsHolds` | `Spec => LegalTransitions` |
| `ImplementsCalendarHolds` | `Spec => ImplementsCalendar` |
| `DecisionsAuditedHolds` | `Spec => []DecisionsAudited` |
| `AnnouncedOnceHolds` | `Spec => []AnnouncedOnce` |
| `CorrectionsAnsweredHolds` | `Spec => []CorrectionsAnswered` |
| `InactiveOnlyByOverrideHolds` | `Spec => []InactiveOnlyByOverride` |

The argument. The inductive invariant `Inv` is `TypeOK`, `PaymentMatchesStatus`,
`NoDoubleBooking`, `ReservedCarsExist` and `OrderedDates` (a reservation starts no
later than it ends). None of the safety properties is inductive alone in a useful
sense: that a cancellation frees the whole rental needs the dates to be ordered,
that a rejection leaves a legal payment needs the payment of a pending
reservation to be absent or pending, and that a handler finds the owner needs the
car to exist. A step either leaves the reservation and payment tables alone,
creates one reservation on free days, or moves one reservation along an edge of
`LegalEdges` (`StepCases`); each invariant is then preserved case by case, not
action by action. `LegalTransitions` follows from the same cases.

For the refinement, under `NoDoubleBooking` a day has at most one live
reservation, so the `CHOOSE` in `HolderOf` is determined (`OneHolder`,
`HolderLemma`). A reservation that stays live keeps its days (`KeptDays`), one that
closes frees exactly its own (`FreedDays`), and creation on free days is `Take`.

The last four are about what is written beside the rows, and use `Inv` as it is.
Their invariant `HistoryInv` adds to `Inv` and to the four properties only that an
administrator's snapshot is one's (`AdminSnapshots`): no status says who
confirmed. `AuditEffect` and `NotifyEffect` say what the two writers add: a log row,
and one count for each distinct recipient. From them `RowCases` gives what a step
does to one reservation: it leaves it alone (`Tables`, by `OtherStep`), or books,
decides, pays or corrects it, each with the status found, the status written, and
the log rows and counters that go with it. The first three properties are then
preserved for each reservation by these five cases. `OwnerKept` is needed since the
announcement goes to the owner of a car that may be edited in between, but not sold
to another. `InactiveOnlyByOverride` is about cars and days instead: the log only
grows (`LogGrows`), a car is deactivated by an administrator's hand or without
bookings to come (`CarDeactivated`), and the day never goes back (`DayStep`).

`SessionsProofs`, `AccountsProofs`, `ImmediateTxProofs`, `RateLimitProofs`,
`UploadsProofs` and `UploadsQuotaProofs` do the same for their modules, from the
assumptions those name:

| Theorem | States | For every |
|---|---|---|
| `Sessions`: `TypeCorrect`, `RotatedOnceHolds`, `RevocationLastsHolds`, `SpentStaysSpentHolds` | `TypeOK`, `RotatedOnce`, `RevocationLasts`, `SpentStaysSpent` | pairs, requests, lifetimes, bounds of the clock |
| `Accounts`: `TypeCorrect`, `AdminsFollowListHolds`, `LogExplainsAccountHolds`, `PhonelessOnlyByOwnRequestHolds`, `LockoutOnlyByRaceHolds` | the properties of those names | accounts, lists |
| `ImmediateTx`: `TypeCorrect`, `OpenTxOwnedHolds`, `ImplementsAtomicUpdatesHolds` | `TypeOK`, `OpenTxOwned`, the refinement | requests, connections |
| `RateLimit`: `TypeCorrect`, `ClientKey`, `WindowBoundHolds`, `ImplementsBudgetHolds` | `TypeOK`, the key of a request, `WindowBound`, the refinement | clients, proxies, headers, rates, bursts |
| `Uploads`: `TypeCorrect`, `AttachedInTimeKeptHolds`, `OvershootBoundedHolds` | `TypeOK`, `AttachedInTimeKept`, `OvershootBounded` | uploads, files (finitely many), rows, limits |

The arguments:

- Each of these modules has its inductive invariant `Inv`.
- *Sessions.* `Inv` adds to `TypeOK` that a request has a pair where it needs one
  (`Carried`), that the clock is not far behind its highest reading and nothing is
  signed later (`Clock`), that what was spent or swapped had been signed
  (`Signed`), that a spent token's row is there until a clock reading has passed its
  expiry (`Kept`), that a refresh token has at most one request about to sign its
  successor, or one successor, never both (`Single`), and how far apart a computed
  stamp, the column and the strongest revocation may be (`Stamps`).
- *Accounts.* `TypeOK` and `AdminsFollowList` are inductive together; the two action
  properties look at the step that takes the last phone or the last administrator and
  find the stale snapshot in it. The log is looked at by positions: a row that is
  appended changes nothing that the earlier rows say (`AppendedSuspension`,
  `AppendedRevocation`), and AdminPatchUser appends "user.suspend" exactly when the
  account was not suspended, so that `LogExplainsAccount` is inductive with `TypeOK`.
- *ImmediateTx.* `OpenTxOwned` needs that connections are not shared and held
  exactly where they are used (`Connections`); the refinement needs that committed rows
  are all alike (`Whole`), that without an open transaction nothing is pending
  (`Uncommitted`), what a request has done and what it may still answer at each
  place (`Progress`), and what its transaction has written there (`Pending`).
- *RateLimit.* `ClientKey` shows that a key is its client's address, so `KeysTrue` of the
  requests under way. `Reckoned` makes the two times in a bucket one, so that a bucket
  idle for `TTL` has refilled; `Conserved` bounds
  served units plus the level by the capacity plus the window. With both, `gc` is a
  stutter of `Budget` and `Allow` its `Serve` or `Refuse`.
- *Uploads.* `SweepSpares` says what a sweep under way knows: at its listing a file in
  time was seen by the query or is too young to be old, so the names it is about to
  remove hold no row in time. `Written` and `Unanswered` keep the sweep and the rows
  away from files that are still being written.

  `TypeOK` is not inductive: that the queue is as long as the number of uploads that wait
  needs `Queued` (each once, none twice, which makes the queue a bijection), and that a
  file that is being written stays where it is needs `Placed` (two uploads have two
  names) and the sweep's invariant (it is too new to be removed). `PlaceInv` is their
  conjunction. For the quota, `WithPendingBounded` counts a largest file for every
  upload between its check and its write as used already. An upload that is let in
  saw a directory under the quota; one that writes has been counted.
- *Sums.* `dirUsageBytes` is a fold over the stored files. `UploadsQuotaProofs` shows
  that its recursion has a solution (`SolutionsExist`), that the sum is a number
  (`SumsType`), depends on the sizes only (`SumsAgree`) and may be taken in any order
  (`SumsTake`), hence that a file adds its size or takes it away (`UsageAdds`,
  `UsageDrops`). The induction theorems of the library have an operator as a parameter,
  which the provers do not instantiate; their set forms `AllNumbers` and `AllSubsets` are
  proved here from well-founded orderings, by a smallest counterexample.

Only model-checked: the liveness properties `EveryRequestEnds`, `EveryUploadEnds` and
`OrphansSwept`. Liveness under fairness, and `ENABLED`, are outside what the prover
can do.

Two assumptions were added for the proofs of `Uploads`. `FinitenessAssumption` says that
uploads at once and file names are finitely many, as goroutines and names of a fixed
number of digits are; without it there is no sum. `LimitsAssumption` has the quota
positive: `UPLOAD_MAX_TOTAL_MB` of 0 disables the check (`uploads.go:71`), which is another
program and not modelled.

## Where code and documents disagree

1. **A booking with no one to answer it** (`booking_stranded`). Revoking the seller
   role is refused while bookings are open, "because its buyers would be left with
   no one to accept or reject" (`docs/api/admin.md:153-154`). The cars stay active,
   though, and `CreateReservation` does not look at the owner's role.
2. **A refresh token outlives a password change** (`sessions_password`). The comment on
   `tokenSuperseded` accepts that a token of the same second lives out "its
   remaining 15 minutes"; a refresh token of that second lives for its seven days.
3. **A pair signed after the alarm** (`sessions_replay`). Reuse of a refresh token is
   documented to invalidate every other token, so that one has to log in again
   (`docs/api/auth.md:104`). The winner of two presentations has read the row before the
   loser stamps it, and may sign its pair after: the token it swapped is superseded, the
   pair, signed past the second of the stamp, is good. A pair signed before the stamp is
   dead on arrival, and one signed in its second is the survivor the comment on
   `tokenSuperseded` accepts; neither counts.
4. **Nobody left to administer** (`accounts_lockout`). An administrator cannot suspend
   itself, "so the platform is never left with nobody able to undo the suspension"
   (`docs/configuration.md:82`; also `docs/api/admin.md:118-119`). Two can suspend each
   other: the handler does not look at the actor's own suspension again.

Met while modelling, without a run of their own:

- `docs/architecture.md:70` says that a write that finds the database busy "answers
  `503`", "never `500`". Handlers with a single statement (`UpdateMe`,
  `handlers/auth.go:69-73`) go through `serverError`, which does not look: `ExecFails`.
- A seller is to have a phone (`docs/api/auth.md:162`). `UpdateMe` trusts its snapshot, so
  an account that becomes a seller meanwhile may lose it
  (`PhonelessOnlyByOwnRequest` names that step).
- The comment on `orphanGrace` has the slowest flow "still find its file on disk". That
  holds within the grace period, and later as long as the sweep could know
  (`AttachedInTimeKept`); a row that starts to refer to an older file after a sweep under way
  has read the rows may lose it, since the sweep reads them once.
- `docs/api/uploads.md:21` answers `507` if what is uploaded plus the new file exceeds the
  quota. The comment at `uploads.go:67-70` admits that concurrent uploads overshoot it. One
  upload alone may too: the size compared is the one that was sent, and the re-encoded
  file that is stored may be larger. `OvershootBounded` covers both.

## What is not modelled

- *Migrations.* Thirteen SQL files run once, by goose. What a crash between the steps of a
  file without a transaction does, or a second instance that starts meanwhile,
  is decided by goose's version table and retries, which are not in the
  repository: a model would be of the library.
- *Listings, statistics and views* are reads of tables the other modules keep. That a
  page and its total are read by two statements is a hazard without a property.
- *Reading notifications.* `MarkNotificationRead` sets a time in the caller's own row,
  once; nothing but the listing looks at it.
- *Validation and phone numbers* are functions of one request on strings; their verdict is
  an input of the actions (`phone \in BOOLEAN`, `ValidDates`, `Attach`).
- *Configuration* is parsed at the start and has no state afterwards.
- *HTTP plumbing*: routing, CORS, headers, encoding, logging. The role a route
  requires is `RequireRole`, its limiter is `RateLimit`.
- *The shutdown's drain.* It lets requests end or cuts them off; both are in the models
  with a crash.

In `Booking` suspension and tokens only keep requests out: leaving them out adds
behaviours and removes none. In `Sessions` the password hash, the signature and the
JSON are taken to do what they are for. The second rate limiter and the second
instance of the process are left out: limiters share nothing, and the code is
written for one process a file.

## Plan

Done: `Booking`, `Calendar`, `Sessions`, `Accounts`, `ImmediateTx`, `RateLimit`, `Uploads`,
and a proof of every safety property the runs check. Left, in this order:

1. `Sessions` against an abstract specification of a session that is used by one
   holder at a time, with the windows that `RevocationLasts` names as its steps.
2. The safety part of the liveness properties: that whoever waits (for a slot, a
   connection, the write lock) waits for somebody who can take a step.
