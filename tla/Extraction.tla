------------------------------ MODULE Extraction ------------------------------
(***************************************************************************)
(* The contest list of one platform: the extraction tasks of               *)
(* internal/queue that mirror what the platform announces into the         *)
(* contests table, the syncs that read the list through the cache, and the *)
(* scheduler's daily pruning.  A contest is known by platform and start    *)
(* time (GenerateContestID): with the platform fixed, its id is its start. *)
(***************************************************************************)
EXTENDS Integers, FiniteSetsExt

CONSTANTS
    Worker,     \* extraction tasks that run at the same time
    Reader,     \* syncs that load the contest list
    Slot,       \* start times (positive integers)
    Titles,     \* number of contest names
    Dur,        \* duration of a contest
    MaxTime,    \* bound: the clock stops here
    MaxChanges, \* bound: changes of the platform's announcements
    MaxErrs,    \* bound: failing fetches, statements and cache operations
    MaxCrashes, \* bound: tasks that die with their process
    None        \* no contest, no cached list

\* Contest names, numbered in the order the platform lists them.
Title == 1 .. Titles

ASSUME ExtractionAssumption ==
    /\ Slot \subseteq Nat /\ Titles \in Nat /\ None \notin Title /\ Dur \in Nat
    /\ MaxTime \in Nat /\ MaxChanges \in Nat /\ MaxErrs \in Nat /\ MaxCrashes \in Nat

Announcement == [start : Slot, title : Title]

\* The rows of contests, or a cached list of them.
ContestTable == [Slot -> Title \cup {None}]

VARIABLES
    now,       \* the clock
    upstream,  \* what the platform announces
    contests,  \* table contests
    cache,     \* cache:contests:<platform>
    wpc,       \* extraction task: idle | prune | upsert | evict
    wlist,     \* the contests it fetched
    rpc,       \* list reader: idle | db | fill
    rlist,     \* the list it read
    ppc,       \* PruneOldData: idle | evict
    changes, errs, crashes

env     == <<now, upstream, changes>>
tasks   == <<wpc, wlist>>
readers == <<rpc, rlist>>
vars    == <<env, contests, cache, tasks, readers, ppc, errs, crashes>>

Init ==
    /\ now = 0
    /\ upstream = {}
    /\ contests = [s \in Slot |-> None]
    /\ cache = None
    /\ wpc = [w \in Worker |-> "idle"]
    /\ wlist = [w \in Worker |-> {}]
    /\ rpc = [r \in Reader |-> "idle"]
    /\ rlist = [r \in Reader |-> None]
    /\ ppc = "idle"
    /\ changes = 0 /\ errs = 0 /\ crashes = 0

Err == errs < MaxErrs /\ errs' = errs + 1

Fine == UNCHANGED errs

Starts(L) == {c.start : c \in L}

\* Of the contests with one id the batch keeps the last one.
LastTitle(L, s) == Max({c.title : c \in {d \in L : d.start = s}})

\* FetchCodeforcesContests: contests that have started are left out.
Fetched == {c \in upstream : c.start >= now}

\* Mutant: the list leaves out the contests that are about to start.
FutureLater == [s \in Slot |-> IF s > now + 1 THEN contests[s] ELSE None]

\* SELECT ... WHERE start_time > NOW()
Future == [s \in Slot |-> IF s > now THEN contests[s] ELSE None]
-----------------------------------------------------------------------------
(* handleExtraction.  An error or an empty list ends the task here. *)
Fetch(w) ==
    /\ wpc[w] = "idle" /\ Fetched # {}
    /\ wlist' = [wlist EXCEPT ![w] = Fetched]
    /\ wpc' = [wpc EXCEPT ![w] = "prune"]
    /\ UNCHANGED <<env, contests, cache, readers, ppc, errs, crashes>>

(* Mutant: the DELETE does not look at start_time. *)
PruneAll(w) ==
    /\ wpc[w] = "prune"
    /\ contests' = [s \in Slot |-> IF s \notin Starts(wlist[w]) THEN None ELSE contests[s]]
    /\ wpc' = [wpc EXCEPT ![w] = "upsert"]
    /\ UNCHANGED <<env, cache, wlist, readers, ppc, errs, crashes>>

(* Mutant: obsolete contests are not pruned. *)
PruneNothing(w) ==
    /\ wpc[w] = "prune"
    /\ wpc' = [wpc EXCEPT ![w] = "upsert"]
    /\ UNCHANGED <<env, contests, cache, wlist, readers, ppc, errs, crashes>>

(* Mutant: the ids handed to the DELETE lack the last contest of the list. *)
PruneLastToo(w) ==
    /\ wpc[w] = "prune"
    /\ contests' = [s \in Slot |-> IF s > now /\ s \notin Starts(wlist[w]) \ {Max(Starts(wlist[w]))}
                                   THEN None ELSE contests[s]]
    /\ wpc' = [wpc EXCEPT ![w] = "upsert"]
    /\ UNCHANGED <<env, cache, wlist, readers, ppc, errs, crashes>>

(* DELETE FROM contests: future contests the platform no longer lists.  An *)
(* error is logged and the task goes on.                                   *)
Prune(w) ==
    /\ wpc[w] = "prune"
    /\ \/ /\ contests' = [s \in Slot |-> IF s > now /\ s \notin Starts(wlist[w])
                                         THEN None ELSE contests[s]]
          /\ Fine
       \/ UNCHANGED contests /\ Err
    /\ wpc' = [wpc EXCEPT ![w] = "upsert"]
    /\ UNCHANGED <<env, cache, wlist, readers, ppc, crashes>>

Done(w) == wpc' = [wpc EXCEPT ![w] = "idle"] /\ wlist' = [wlist EXCEPT ![w] = {}]

(* The batch of upserts is one transaction; if it fails the task returns   *)
(* with the cache as it was.                                               *)
Upsert(w) ==
    /\ wpc[w] = "upsert"
    /\ \/ /\ contests' = [s \in Slot |-> IF s \in Starts(wlist[w])
                                         THEN LastTitle(wlist[w], s) ELSE contests[s]]
          /\ wpc' = [wpc EXCEPT ![w] = "evict"] /\ UNCHANGED wlist /\ Fine
       \/ UNCHANGED contests /\ Done(w) /\ Err
    /\ UNCHANGED <<env, cache, readers, ppc, crashes>>

Evict(w) ==
    /\ wpc[w] = "evict"
    /\ \/ cache' = None /\ Fine
       \/ UNCHANGED cache /\ Err
    /\ Done(w)
    /\ UNCHANGED <<env, contests, readers, ppc, crashes>>

Crash(w) ==
    /\ wpc[w] # "idle" /\ crashes < MaxCrashes
    /\ crashes' = crashes + 1
    /\ Done(w)
    /\ UNCHANGED <<env, contests, cache, readers, ppc, errs>>

TaskStep(w) == Prune(w) \/ Upsert(w) \/ Evict(w)
-----------------------------------------------------------------------------
(* SyncUser loads the list: from the cache, or from the table and then     *)
(* cached.  A hit changes nothing.                                         *)
ReadMiss(r) ==
    /\ rpc[r] = "idle"
    /\ \/ cache = None /\ Fine
       \/ cache # None /\ Err
    /\ rpc' = [rpc EXCEPT ![r] = "db"]
    /\ UNCHANGED <<env, contests, cache, tasks, rlist, ppc, crashes>>

ReadTable(r) ==
    /\ rpc[r] = "db"
    /\ \/ /\ rlist' = [rlist EXCEPT ![r] = Future]
          /\ rpc' = [rpc EXCEPT ![r] = "fill"] /\ Fine
       \/ UNCHANGED rlist /\ rpc' = [rpc EXCEPT ![r] = "idle"] /\ Err
    /\ UNCHANGED <<env, contests, cache, tasks, ppc, crashes>>

Fill(r) ==
    /\ rpc[r] = "fill"
    /\ \/ cache' = rlist[r] /\ Fine
       \/ UNCHANGED cache /\ Err
    /\ rlist' = [rlist EXCEPT ![r] = None]
    /\ rpc' = [rpc EXCEPT ![r] = "idle"]
    /\ UNCHANGED <<env, contests, tasks, ppc, crashes>>

ReaderStep(r) == ReadTable(r) \/ Fill(r)
-----------------------------------------------------------------------------
(* PruneOldData: contests that have ended, then InvalidateContestsCache,   *)
(* whether the DELETE worked and found anything or not.                    *)
PruneOld ==
    /\ ppc = "idle"
    /\ \/ contests' = [s \in Slot |-> IF s + Dur < now THEN None ELSE contests[s]] /\ Fine
       \/ UNCHANGED contests /\ Err
    /\ ppc' = "evict"
    /\ UNCHANGED <<env, cache, tasks, readers, crashes>>

PruneEvict ==
    /\ ppc = "evict"
    /\ \/ cache' = None /\ Fine
       \/ UNCHANGED cache /\ Err
    /\ ppc' = "idle"
    /\ UNCHANGED <<env, contests, tasks, readers, crashes>>

ExpireCache ==
    /\ cache # None
    /\ cache' = None
    /\ UNCHANGED <<env, contests, tasks, readers, ppc, errs, crashes>>

Tick ==
    /\ now < MaxTime
    /\ now' = now + 1
    /\ UNCHANGED <<upstream, changes, contests, cache, tasks, readers, ppc, errs, crashes>>

(* The platform announces, cancels, renames or reschedules contests. *)
Announce(U) ==
    /\ changes < MaxChanges /\ U # upstream
    /\ upstream' = U
    /\ changes' = changes + 1
    /\ UNCHANGED <<now, contests, cache, tasks, readers, ppc, errs, crashes>>

Next ==
    \/ \E w \in Worker : Fetch(w) \/ TaskStep(w) \/ Crash(w)
    \/ \E r \in Reader : ReadMiss(r) \/ ReaderStep(r)
    \/ PruneOld \/ PruneEvict \/ ExpireCache \/ Tick
    \/ \E U \in SUBSET Announcement : Announce(U)

Spec == Init /\ [][Next]_vars

(***************************************************************************)
(* Fairness.  RunExtraction queues a task every 30 minutes, tasks and      *)
(* readers that have begun go on, a cached list lives 12 hours, pruning    *)
(* runs daily.                                                             *)
(***************************************************************************)
Fairness ==
    /\ \A w \in Worker : WF_vars(Fetch(w)) /\ WF_vars(TaskStep(w))
    /\ \A r \in Reader : WF_vars(ReaderStep(r))
    /\ WF_vars(PruneOld) /\ WF_vars(PruneEvict) /\ WF_vars(ExpireCache)

FairSpec == Spec /\ Fairness
-----------------------------------------------------------------------------
(* Every variable keeps its type. *)
TypeOK ==
    /\ now \in 0 .. MaxTime
    /\ upstream \subseteq Announcement
    /\ contests \in ContestTable
    /\ cache \in ContestTable \cup {None}
    /\ wpc \in [Worker -> {"idle", "prune", "upsert", "evict"}]
    /\ wlist \in [Worker -> SUBSET Announcement]
    /\ rpc \in [Reader -> {"idle", "db", "fill"}]
    /\ rlist \in [Reader -> ContestTable \cup {None}]
    /\ ppc \in {"idle", "evict"}
    /\ changes \in 0 .. MaxChanges /\ errs \in 0 .. MaxErrs /\ crashes \in 0 .. MaxCrashes

(* "Pruning is locked to future contests, preserving historical records"   *)
(* (README.md:75): a contest that is running is never removed, whatever    *)
(* old list a slow task still works from while the clock moves on.         *)
RunningContestsKept ==
    [][\A s \in Slot : s <= now /\ now <= s + Dur /\ contests[s] # None => contests'[s] # None]_vars

(***************************************************************************)
(* Pruning goes by ids, "avoiding redundant calendar re-syncs"             *)
(* (README.md:75): while the platform stays with its first announcement, a *)
(* future contest that is in the table stays there under its name.  The    *)
(* fetchers leave out what has started and the DELETE spares it, each by   *)
(* the clock of its own moment, and tasks that fetched at different times  *)
(* prune and upsert in any order, fail half way or die.                    *)
(***************************************************************************)
AnnouncedKept ==
    [][changes' <= 1 => \A s \in Slot : s > now /\ contests[s] # None
                                          => contests'[s] = contests[s]]_vars

Mirrored ==
    \A s \in Slot : s > now =>
        contests[s] = IF s \in Starts(upstream) THEN LastTitle(upstream, s) ELSE None

(***************************************************************************)
(* "automatically purges rescheduled or cancelled contests" (README.md:74) *)
(* and keeps everything when the list is empty (README.md:76): once the    *)
(* platform's announcements are stable and not empty, the future contests  *)
(* of the table are those announced, for good, although tasks that fetched *)
(* older lists may prune and upsert in any order meanwhile.                *)
(***************************************************************************)
EventuallyMirrored == <>[](Fetched = {} \/ Mirrored)

(* Evicting after the batch, expiry and pruning together suffice against   *)
(* the reader that fills the cache with a list it read before the batch:   *)
(* in the end a cached list agrees with the table on every future contest. *)
CacheConverges ==
    <>[](cache = None \/ \A s \in Slot : s > now => cache[s] = contests[s])

(* "New contests from all platforms are automatically fetched and added to *)
(* your calendar" (web/static/index.html:698): after the batch each        *)
(* contest that was fetched is in the table.                               *)
EveryContestStored ==
    \A w \in Worker : wpc[w] = "evict" => \A c \in wlist[w] : contests[c.start] = c.title
=============================================================================
