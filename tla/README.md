# A TLA+ verification of ContestSync

ContestSync fetches programming contests from seven platforms and writes them
into its users' Google calendars. This directory holds TLA+ models of its
stateful parts, the TLC runs that check them on small instances, and TLAPS
proofs of their safety properties for every size. `PROJECT.json` maps each definition
to the lines it models and lists components, runs, mutants, hazards, findings
and theorems.

## The system

| part | code | module |
|------|------|--------|
| task queue: consumers, retries, shutdown | `internal/queue/amqp.go`, `cmd/worker` | `TaskQueue`, `AtLeastOnce` |
| queue connection: dial, swap, reconnect, in-memory fallback | `internal/queue/amqp.go` | `QueueConnection` |
| sync of one user, preferences | `internal/sync/sync.go`, `internal/api/handlers.go` | `SyncUser`, `BoundedMutex` |
| contest extraction and contest cache | `amqp.go`, `sync.go`, `internal/scheduler`, `internal/extractor` | `Extraction` |
| account deletion | `handlers.go` | `AccountDeletion` (extends `SyncUser`) |
| login, permission checks, `Me`, `ManualSync` | `handlers.go` | `CalendarAccess` |
| Telegram notices | `internal/observability/telegram.go` | `Notifications` |
| scheduler | `internal/scheduler` | partly, in `Extraction` and `CalendarAccess` |
| sessions, CSRF, rate limiter | `internal/api/middleware.go` | not yet |
| read/write split of the database | `internal/db` | not yet |
| platform parsers, iCal feed, admin handlers, OpenTelemetry, crypto, config, frontend | | no (see below) |

A module `XProofs` holds the theorems about `X`; the lemmas of `TaskQueueProofs`
that do not concern the retry budget or the refinement are in `TaskQueueSteps`. `MCX` adds the symmetry sets of the runs.

The server process answers HTTP requests and publishes tasks; the worker
consumes them. The scheduler publishes an extraction task per platform every 30
minutes and a sync task per user daily. Extraction tasks rewrite the future
contests of a platform; sync tasks bring a user's calendar in line with contests
and preferences. PostgreSQL holds users, contests and the ledger
`synced_events`; Valkey holds the per-user lock and the caches that most races
below go through.

## Modules

In all modules a step is one access of a shared thing (database statement,
Valkey command, Google call, channel operation, mutex section), so that other
processes can run between any two. A call that may fail has a failing
disjunct, limited by a named bound (`MaxErrs`, `MaxLosses`, `MaxFaults`...).
Model values stand for users, tokens, contests and messages. Definitions whose
comment starts with "Mutant:" are deliberate bugs; they are used by no
specification and show that each property can fail.

**TaskQueue.** Messages at the broker (`mstate`, `mtask`, `mrc` = retry_count),
processes (`proc`), their connection (`link`), publishing channel (`pubCh`) and
consumer loop (`consumer`), and handler goroutines (`hpc`, `hnode`, `hmsg`;
`hlive`: the channel of the delivery still exists). `Deliver` starts a
goroutine, `HandleOk`/`HandleFail` end the handler, `Republish*` and `Ack`/`Nack`
are the answer. The sync and the extraction consumer are the same code; one is
modelled. Broker and network are external: a lost connection or channel returns
unacknowledged messages at once, while the client notices later (`lost`).
Message order is abstracted: any ready message may be delivered.

**AtLeastOnce.** The promise to a publisher, in three sets. `TaskQueue`
instantiates it with a refinement mapping (`ImplementsAtLeastOnce`).

**QueueConnection.** `connectAMQP` under `connMu` and `mu`, both reconnecting
consumer loops, `Publish*`, the in-memory channels and `Close`. The in-memory
consumer receives a task (`MemReceive`) and then waits for a place of its
semaphore (`MemStart`), with the task in hand (`received`).

**SyncUser.** `SyncUser` and `handleSyncError` as a program counter per run;
lock, user cache and synced-events cache; calendars and events at Google; the
`users` row and the ledger. `Save*` is `SavePreferences`. An event is a pair of
calendar and contest, as event ids are a function of user and contest.

**BoundedMutex.** The promise of the per-user lock, a mutual exclusion that
weakens by one with every lease that ends under its holder. `SyncUser`
instantiates it with the runs past their lock and the locks that expired under a
run (`ImplementsMutex`).

**AccountDeletion.** Extends `SyncUser` with `DeleteAccount` and its background
cleanup, so that syncs and saves run beside it. The user has a stored token; if it
cannot be decrypted, no cleanup starts. An answer of 400 or 401 makes the cleanup
leave out the events it has not begun, and its deadline may pass at any time.

**Extraction.** `handleExtraction` by several workers, the reader in `SyncUser`
that fills the contest cache, and the daily prune, for one platform. A clock
moves; contests are identified by their start, as in `GenerateContestID`.

**CalendarAccess.** Logins on several devices, the cached verdict of
`ValidateCalendarAccess`, the cached profile and `ManualSync`. Syncs are queued by
a click, by the login of a user who has platforms, and by `SyncAllUsers` for a user
with access and a token. The queued task names only the user; `Sync*` are the
steps of `SyncUser` that touch the token: where it is read, Google's verdict on it,
and the deletion of the account, the cached profile and the time stamps that
follow, one access each. Time is what the code distinguishes: less than a minute
ago, or longer.

**Notifications.** Log records (`Handle`) and system events
(`TriggerSystemEvent`, `GiveUp`) enter the manager's channel `queue`; `npc` is
what became of each. `mpc` is the goroutine of `Start`: warm-up, `select`, pause
after an error, drain. `Send`, `SendOk` and `SendRefused` are `Send` and
`sendChunk`, an attempt per step, with `failures` and the cooldown. As in Go, a
receive from the full channel takes in the value of a blocked sender
(`Receive`). The records that the package writes itself are one value, `Own`.

## Runs

Passing runs (distinct states with the configured bounds):

| run | checks | states |
|-----|--------|-------:|
| TaskQueueSafety | two workers, an undecodable message, a fault and a closed publishing channel: `NoTaskLost`, `OneLiveOwner`, `QueueInv`, `AttemptsBounded`, `ImplementsAtLeastOnce` | 484k |
| TaskQueueLive | `EventuallyResolved` | 57k |
| QueueConnection | dials, a fault and `Close` in any order: `NoConnectionLeak`, `ConnInv`, `SelfHealing`, `ConsumersStop`, and for a queue without a broker `MemoryTasksHandled` | 114k |
| SyncUserSafety | two syncs, a save, an expiring lock and a fault: `OverlapBounded`, `NoUnselectedRows`, `LedgerSound`, `ImplementsMutex` | 666k |
| SyncUserLive | `SyncInv` (one run, with a dedicated calendar), `EventuallySynced`; `LockReleased` and `SyncingEnds` also after a crash | 168k |
| Extraction | two workers, an error and a crash: `RunningContestsKept`, `AnnouncedKept`, `EventuallyMirrored`, `CacheConverges` | 392k |
| AccountDeletion | a deletion beside a sync, with a fault: `DTypeOK`, `NoRowsWithoutUser`, `GrantRevoked`, `EventuallyForgotten` | 408k |
| CalendarAccessSafety | two logins, a click, a failing call and a revocation: `StateUsedOnce`, `TokenNeverLost`, `AccessMatchesToken`, `OneLoginSafe`, `AccessInv` | 474k |
| CalendarAccessLive | `VerdictConverges`, `ProfileConverges` | 179k |
| Notifications | two log records and two system events, a channel of two places, a proxy that does what it likes, a shutdown: `NoticeInv`, `CooldownRespected`, `DrainComplete`, `Progress` | 273k |

`QueueInv`, `ConnInv`, `SyncInv`, `AccessInv` and `NoticeInv` are the inductive
invariants of the proofs; the type invariant of their module is the first conjunct.
That of `Extraction` is proved only.

Some properties name the behaviours they do not speak of, because the code does
not keep them there:

- `NoUnselectedRows` and `LedgerSound` hold while no lock expires under a sync
  (its 5 minutes are not renewed) and no store operation fails. A run that dies
  between deleting the event of a deselected platform and deleting its row
  leaves the row; if the platform is selected again, the contest counts as
  synced for ever. `EventuallySynced` excludes the same, and a revoked grant.
- `GrantRevoked` holds without faults: a failing revocation is logged, nothing
  persists the cleanup over a crash, and a token that cannot be decrypted is not
  revoked at all.
- `MemoryTasksHandled` excuses a shutdown, which drops what the channel holds.
- `OneLoginSafe` speaks of a user who was issued one token. After a second login a
  sync with the first one deletes the account (`DeletedOnlyIfRevoked` below).
- `AnnouncedKept` speaks of a platform that keeps to its first announcement. When it
  changes, a task with the older answer may prune what the newer one announced,
  until the next extraction (`EventuallyMirrored`).
- `AccessMatchesToken` needs every login to bring a refresh token.
- `CooldownRespected` excepts the rest of a message whose chunk was rate limited
  three times (`skipped`): `sendChunk` counts that as a failure but returns nil,
  so `Send` goes on, and the message is reported as sent.
- `DrainComplete` speaks of the drain. A manager that is still in its first 30
  seconds, or pauses after an error, returns on shutdown without one (`mpc` is
  `left`), and what its channel holds is lost, the notice of the shutdown with it.
- `SelfHealing` excludes a publishing channel closed on an open connection; the
  code does not reopen it until the connection is lost.

Runs that end in a counterexample, each against a sentence of the repository
(quoted in `findings`):

| run | what happens |
|-----|--------------|
| QueueConnectionReadmeFallback | broker configured but away at start: in-memory tasks are never read |
| CalendarAccessFreshLogin | a sync with the old token deletes the account just logged in to |

The modules state more sentences of the repository that the code does not keep.
They have no run of their own; named in the configuration of a run of the module
(with two saves, two calendars, two titles or two clicks where it takes as many)
each makes TLC print the behaviour:

| property | what happens |
|----------|--------------|
| `TaskQueue!RetriesBounded` | publishing channel closed, connection open: a failing task is requeued without limit |
| `TaskQueue!AckedRetryQueued` | a retry is written to a channel just closed by the broker, and the delivery acknowledged |
| `QueueConnection!ConfirmedPublish` | without confirms, a publish to a dead connection succeeds |
| `SyncUser!SelectionApplied` | deselect and reselect: contests are missing until the synced-events cache expires |
| `SyncUser!OneDedicatedCalendar` | a stale cached profile leads to a second dedicated calendar |
| `SyncUser!UnchangedMeansSaved` | a save compared with a stale cached profile is dropped as unchanged |
| `Extraction!EveryContestStored` | two contests starting in the same second share an id |
| `AccountDeletion!EventsPurged` | a sync beside the deletion leaves events in the calendar |
| `CalendarAccess!MeTruthful` | `Me` denies access the user has, from a profile cached without the field |
| `CalendarAccess!ManualSyncSpaced` | two manual syncs within a minute |

### Bounds

Two of each actor are enough for the races described, as each is a race of two.
One task suffices in `TaskQueue`: tasks do not interact except through the
prefetch limit, and the proofs cover any number. A fault budget of one or two
lets a fault hit every step; in `QueueConnection` lost connections and channel
errors share one budget (`MaxFaults`), and in `SyncUser` and `AccountDeletion` failing Google
calls, failing store operations, crashes and a revocation do.
In `SyncUserSafety` no user chooses the dedicated calendar (`Dedicated`); in
`SyncUserLive` and `AccountDeletion` users choose either, and the proofs cover
both. `AccountDeletion` has a sync and no save beside the deletion; both fill the
cached profile by the same two steps. In `CalendarAccessSafety` syncs come from
clicks and logins, in `CalendarAccessLive` also from the scheduler
(`MaxScheduled`). `DeleteCap`, `MemCap`
and `Prefetch` are scaled down from 200, 1000 and 10 so that the limit is
reached, and so is the capacity `Cap` of `Notifications`. There, `failures` stops
at the limit of three, above which the code treats all values alike, so that the
proxy may fail without a bound. `MaxRequeue` is 2: a handler nacks no more once
messages of its task were returned twice, so that a task can be nacked, returned
by a fault and nacked again. Symmetry is used in safety runs only. Deadlock is not checked in
`TaskQueue`, `QueueConnection` and `Notifications`: there the supply of messages,
tasks, connections or notices is finite and a process may have stopped.

### Fairness

Weak fairness of goroutine steps (the Go scheduler), of TTL expiry and the
clock-driven steps, of noticing a dead connection (heartbeat of 10 s), and of
restarting a worker (its platform does). Strong fairness where a step is
enabled again and again: opening a consumer while attempts fail, a dial of a
broker that is tried again and again (by the consumers together, as one dial
serves both), delivery of a message by a FIFO queue, taking the lock of a user
who is synced daily, and `Drain`. The user of `SyncUser` is one whom
`SyncAllUsers` selects, with calendar access and a stored token; of others nothing
of the kind is assumed. Faults are finite in number. No user is
assumed to log in, click or save. `TaskQueueLive` has no closing of
the publishing channel alone, and `SelfHealing` excuses it: the code does not
recover from it until the connection is lost. In `AccountDeletion` only the request, the
cleanup and the expiry of the cached profile are fair; the syncs and saves
beside them may stop anywhere. In `Notifications` the manager, `main` and the two
seconds of a blocked event are fair (every request and wait has a timeout); the
proxy may fail for ever, the cooldown may last, and nobody need shut down.

## Proofs

Every safety invariant and every action property that a run checks is proved
for all values of the constants, with the refinements of `AtLeastOnce` and
`BoundedMutex`:

| module | theorems (property) | assumption |
|--------|---------------------|------------|
| `TaskQueueProofs` | `Invariance` (`QueueInv`), `TypeCorrect`, `NoLoss` (`NoTaskLost`), `LiveOwner` (`OneLiveOwner`), `Budget` (`AttemptsBounded`), `Implements` (`ImplementsAtLeastOnce`) | `BadMsgAssumption` |
| `QueueConnectionProofs` | `Invariance` (`ConnInv`), `TypeCorrect`, `NoLeak` (`NoConnectionLeak`) | `CapacityAssumption` |
| `SyncUserProofs` | `Invariance` (`SyncInv`), `TypeCorrect`, `Overlap` (`OverlapBounded`), `Selected` (`NoUnselectedRows`), `Ledger` (`LedgerSound`), `MutexImplemented` (`ImplementsMutex`) | `SyncUserAssumption` |
| `AccountDeletionProofs` | `DInvariance` (`DIndInv`), `DTypeCorrect`, `Cascade` (`NoRowsWithoutUser`), `DOverlap` (`OverlapBounded`) | also `DeletionAssumption` |
| `CalendarAccessProofs` | `Invariance` (`AccessInv`), `TypeCorrect`, `UsedOnce` (`StateUsedOnce`), `AccessTrue` (`AccessMatchesToken`), `TokenKept` (`TokenNeverLost`), `OneLoginKept` (`OneLoginSafe`) | `AccessAssumption` |
| `ExtractionProofs` | `TypeCorrect`, `RunningKept` (`RunningContestsKept`), `AnnouncedStay` (`AnnouncedKept`) | `ExtractionAssumption` |
| `NotificationsProofs` | `Invariance` (`NoticeInv`), `Cooldown` (`CooldownRespected`), `DrainLeavesNothing` (`DrainComplete`) | `NotificationsAssumption` |

The assumptions say that bounds are natural numbers, that `None` is not one of
the values it stands beside, that runs and contests are finite in number where
they are counted, that the semaphore of the in-memory consumer and the channel of
the Telegram manager have a place, and that one account is deleted once. TLC evaluates them in the runs. No theorem
assumes fairness, and none needs a bound to be small.

`QueueInv`, `ConnInv`, `SyncInv`, `AccessInv` and `NoticeInv` are invariants of a
run too, so TLC has looked for a reachable state outside them before the proof.
`DIndInv` can be added to the invariants of
`AccountDeletion.cfg`; it holds there and lengthens the run by a third.

**TaskQueue.** `NoTaskLost` is not inductive: a goroutine about to acknowledge
could take away the last message of an unresolved task. `QueueInv` adds that every
accepted task is settled or has a message that will run again
(`PendingOrSettled`), where a message held by a goroutine at its `Ack` does not
count. To keep that across steps, an unacknowledged message must have exactly
one live owner (`UnackedOwned`), a live owner must have a working connection,
since a retry written to a dead one is followed by an ack that is dead as well
(`HandlersOK`), and a process that is down must hold nothing (`DownOK`). `Next*`
lemmas prove one conjunct each, action by action; `ChannelGone*` lemmas hold
what all ways of losing a channel have in common. `StepSimulation` maps every
step to a step or stutter of `AtLeastOnce`. The exception in `Settled` is
stated, not assumed away: a task is settled also if a retry of it was written to
a publishing channel that the broker alone had closed (`voided`). The code
acknowledges the delivery then (`AckedRetryQueued` is refuted), so without the
exception the theorem would be false.

`AttemptsBounded` says that a task is attempted at most `MaxRetry + 1` times for
its publication and for each return of one of its messages (by a nack, a lost
channel or a crash). Copies of a task multiply: a worker that dies between
republishing and acknowledging leaves two messages. The proof counts the runs
still owed as pairs of a message or goroutine and a retry count: a queued message
with count c stands for the counts from c on (`QueuedRuns`), a goroutine about to
republish for those after its own (`RetryRuns`). `RunsPaid`: attempts made and
runs owed together stay within the budget. A delivery turns one owed run into an
attempt, a republish moves the rest from the goroutine to its new message
(`RepublishPaid`), an ack drops what is left, and only a return adds a column of
at most `MaxRetry + 1` pairs, which it pays for (`ReturnedPaid`). `FiniteWork`
makes the sets countable: only finitely many messages and goroutines are ever in
use.

**QueueConnection.** `NoConnectionLeak` speaks of the moments when nobody is
inside `connectAMQP`. `NoneStray` says what holds in between: a connection that
is not closed is `q.AMQPConn`, or a consumer has dialled it and not yet installed
it, or has replaced it and not yet closed it. `ConnMuHeld` makes that one
consumer, the holder of `connMu`. `MemPublished` keeps the in-memory channel
within its capacity.

**SyncUser.** The lock is deleted by whoever ends, owner or not. `OverlapBounded`
is inductive with the types alone: a run that ends without the lock pays for the
run whose lock it deletes, and only `ExpireLock` adds one; the proof counts with
the cardinality theorems of the library (`EqualSize`). With no expiry it gives
mutual exclusion (`Exclusive`), and under that each run's knowledge stays true
until it acts: `RunInv` relates the ledger to what the run has still to clean
and to insert. `LocalsHeld` says a run holds what its next step reads, and
`CalendarsExist` that no cached profile names a calendar that never was, so that
an inserted event backs the row recorded next. `NoUnselectedRows` and
`LedgerSound` keep their premise (no expired lock, no failed store operation) in
the theorems: the code does not keep them otherwise. `MutexStep` maps each step to
one of `BoundedMutex`: a run gets in when SET NX finds no lock, and then
`OverlapBounded` says that the runs inside, all without the lock, are no more
than the leases lost; a run that ends, fails or dies leaves, and the expiry of a
lock under a run is a lost lease.

**AccountDeletion.** The composition reuses the lemmas of `SyncUserProofs` for
the steps of syncs and saves (`NextTypes`, `NextOverlap`); `DeletionFrame` and
`DeletionTypes` treat request and cleanup, and `NextCascade` shows that the
foreign key refuses the row a sync in flight wants to record.

**CalendarAccess.** `StateUsedOnce` needs `LoginInv`: an OAuth state is in the
table, with one callback, or over. `AccessMatchesToken` needs `TokenInv`: every
token that the row or a callback holds has been issued, so a later login brings a
different one and cannot change its scope, and a callback holds a token together
with the scope it came with. `TokenKept` follows from the types and the
`CASE WHEN` of the upsert, step by step. `OneLoginKept` needs `CopyInv`: a copy of
the token, in the cached profile, in a fill of it under way or in the sync, is a
token that was issued, and the row it came from still has one or is gone; and a
sync about to delete holds a revoked one. If only one token was ever issued, the
copy and the stored token are the same, so the stored one is revoked. `KnownStays`
carries the first part over every step.

**Extraction.** `RunningKept` looks at every statement that writes `contests`:
the prune of a task touches only starts in the future,
the daily prune only contests that ended, an upsert replaces a row by a row.
`MaxTitle` (a finite set of names has a last one) makes the stored name defined.
`AnnouncedStay` needs more: `FirstAnnouncement` (in `ExtractionProofs`) says that
while the platform has announced once, every list a task holds has the same entries
as the announcement for each start still in the future, whenever it was fetched, and
that an upcoming contest in the table is one of them. A prune then spares, and an upsert rewrites with the same name,
what is upcoming.

**Notifications.** `Conserved` says that the accepted notices are exactly those
in the channel and in hand, each once. It needs `WaitMeansFull`: a receive
that freed a place while an event is blocked would let a log record in before
it. The channel half of the invariant is proved by the ways a step can change a channel
(`PutKeeps`, `RefusedKeeps`, `ReceiveKeeps`, `SendEndsKeeps`), the other half
action by action (`NextSender`). `DrainComplete` follows: the drain ends with an empty
channel and nothing in hand, so nothing is accepted and undealt with, and an
empty channel is not full, so nobody waits.

Only model-checked:

- all liveness (`EventuallyResolved`, `SelfHealing`, `ConsumersStop`,
  `MemoryTasksHandled`, `EventuallySynced`, `LockReleased`, `SyncingEnds`,
  `EventuallyMirrored`, `CacheConverges`, `GrantRevoked`, `EventuallyForgotten`,
  `VerdictConverges`, `ProfileConverges`, `Progress`): fairness and ENABLED are
  outside the prover.

## Not modelled

Parsing of platform pages, the iCal feed, admin handlers, OpenTelemetry,
configuration and the frontend: pure I/O, formatting, or wrappers around what is
modelled. Encryption is the standard library's; a failing one is the login
without a token in `CalendarAccess`. Reads see the primary database, without
replica lag. `PruneOldData` is modelled for contests, not for ungranted users.
`Notifications` leaves out where `SplitMessage` cuts a text and the recovery from
a panic of the manager goroutine.

## Plan

Models, in this order:

1. Sessions: `ValkeyStore`, the sliding window of `RequireAuth`, `Logout` beside
   requests in flight.
2. Scheduler: `SyncAllUsers` with OFFSET pages while users are deleted, and the
   pruning of ungranted users.
3. Queue and lock composed: a task redelivered after a crash meets the dead
   worker's lock and uses up its retries.
4. Rate limiter (Valkey window, local fallback).
5. Replica lag in `SyncUser`.

Proofs: the same for these, and the composition of queue and lock as a refinement
of `AtLeastOnce` and `BoundedMutex` together.
