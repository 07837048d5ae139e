------------------------------- MODULE SyncUser -------------------------------
(***************************************************************************)
(* internal/sync for one user: the calls of SyncUser that the consumers    *)
(* of several processes make, interleaved with the SavePreferences handler *)
(* of internal/api, over the shared state they work on:                    *)
(*   - the database: the users row and the synced_events rows (the ledger),*)
(*   - Valkey: the lock, cache:user:v2 and cache:synced_events,            *)
(*   - Google: the dedicated calendars and the events.                     *)
(* Every access of one of these is a step of its own.  Event ids are a     *)
(* function of user and contest (GenerateDeterministicEventID), so an      *)
(* event is a pair of calendar and contest.  The contest list is fixed     *)
(* here, and reads go to the primary (the deployment without replicas).    *)
(***************************************************************************)
EXTENDS Integers, FiniteSets

CONSTANTS
    Run,           \* goroutines that call SyncUser for the user, again and again
    Platform,      \* extractor.Platforms
    Number,        \* distinguishes the contests of one platform
    Cal,           \* dedicated calendars (Google refuses to create more)
    Dedicated,     \* the choices of use_dedicated_calendar that users make
    MaxSaves,      \* bound: SavePreferences requests
    MaxExpiries,   \* bound: locks that outlive their 5 minutes
    MaxFaults,     \* bound: failing Google calls (after their retries), failing
                   \* database and Valkey operations, and crashes, together
    MayRevoke,     \* the user may revoke the OAuth grant
    None           \* no value

Contest == Platform \X Number

\* the contests of a set of platforms
Of(P) == {c \in Contest : c[1] \in P}

\* models.CachedUser, as far as a sync depends on it
User == [platforms : SUBSET Platform, useDedicated : BOOLEAN, calendar : Cal \cup {None}]

ASSUME SyncUserAssumption ==
    /\ IsFiniteSet(Run) /\ None \notin Run
    /\ None \notin Cal /\ "primary" \notin Cal /\ None \notin User
    /\ MaxSaves \in Nat /\ MaxExpiries \in Nat /\ MaxFaults \in Nat
    /\ MayRevoke \in BOOLEAN /\ Dedicated \subseteq BOOLEAN

VARIABLES
    user,      \* the users row; None once deleted
    status,    \* users.sync_status
    rows,      \* synced_events: contests recorded as synced
    lock,      \* lock:sync:<id>: the run that set it (the value itself is "1")
    ucache,    \* cache:user:v2:<id>
    secache,   \* cache:synced_events:<id>
    cals,      \* dedicated calendars that exist at Google
    events,    \* events that exist at Google
    revoked,   \* the grant is revoked
    pc, u, cal, todo, cur, synced, anySynced, ok, \* locals of each run
    spc, req, scur,                               \* locals of SavePreferences
    saves, expiries,                              \* history, for the bounds:
    gerrs,                                        \* failing Google calls
    serrs                                         \* failing store operations, crashes

db     == <<user, status, rows>>
valkey == <<lock, ucache, secache>>
google == <<cals, events, revoked>>
locals == <<pc, u, cal, todo, cur, synced, anySynced, ok>>
web    == <<spc, req, scur, saves>>
faults == <<expiries, gerrs, serrs>>
vars   == <<db, valkey, google, locals, web, faults>>

Init ==
    /\ \E P \in SUBSET Platform, d \in Dedicated :
          user = [platforms |-> P, useDedicated |-> d, calendar |-> None]
    /\ status = "pending" /\ rows = {}
    /\ lock = None /\ ucache = None /\ secache = None
    /\ cals = {} /\ events = {} /\ revoked = FALSE
    /\ pc = [r \in Run |-> "idle"]
    /\ u = [r \in Run |-> None]
    /\ cal = [r \in Run |-> None]
    /\ todo = [r \in Run |-> {}]
    /\ cur = [r \in Run |-> None]
    /\ synced = [r \in Run |-> {}]
    /\ anySynced = [r \in Run |-> FALSE]
    /\ ok = [r \in Run |-> TRUE]
    /\ spc = "idle" /\ req = None /\ scur = None
    /\ saves = 0 /\ expiries = 0 /\ gerrs = 0 /\ serrs = 0
-----------------------------------------------------------------------------
(* The outcomes of a call outside the process. *)
MayFail == gerrs + serrs < MaxFaults

GoogleErr == MayFail /\ gerrs' = gerrs + 1 /\ UNCHANGED <<expiries, serrs>>

StoreErr == MayFail /\ serrs' = serrs + 1 /\ UNCHANGED <<expiries, gerrs>>

Fine == UNCHANGED faults

Granted == ~revoked /\ Fine

\* A Google call fails in another way than with invalid_grant.
GoogleFails == GoogleErr \/ (revoked /\ Fine)

Goto(r, l) == pc' = [pc EXCEPT ![r] = l]

Return(r, res) == Goto(r, "finish") /\ ok' = [ok EXCEPT ![r] = res]

(* Mutant: Set instead of SetNX. *)
AcquireLockBlindly(r) ==
    /\ pc[r] = "idle"
    /\ lock' = r
    /\ Goto(r, "cache") /\ Fine
    /\ UNCHANGED <<db, ucache, secache, google, u, cal, todo, cur, synced, anySynced, ok, web>>

(* s.Valkey.SetNX(lockKey): the run proceeds only if the key was absent    *)
(* (otherwise it returns "user already syncing" and changes nothing).  The *)
(* answer may be lost after the key was set.                               *)
AcquireLock(r) ==
    /\ pc[r] = "idle" /\ lock = None
    /\ lock' = r
    /\ \/ Goto(r, "cache") /\ Fine
       \/ UNCHANGED pc /\ StoreErr
    /\ UNCHANGED <<db, ucache, secache, google, u, cal, todo, cur, synced, anySynced, ok, web>>

ReadUserCache(r) ==
    /\ pc[r] = "cache"
    /\ \/ ucache # None /\ Goto(r, "mark") /\ u' = [u EXCEPT ![r] = ucache] /\ Fine
       \/ ucache = None /\ Goto(r, "db") /\ UNCHANGED u /\ Fine
       \/ Goto(r, "db") /\ UNCHANGED u /\ StoreErr
    /\ UNCHANGED <<db, valkey, google, cal, todo, cur, synced, anySynced, ok, web>>

(* No row, or an error: return before the status is touched. *)
ReadUser(r) ==
    /\ pc[r] = "db"
    /\ \/ user # None /\ Goto(r, "fill") /\ u' = [u EXCEPT ![r] = user] /\ Fine
       \/ user = None /\ Goto(r, "unlock") /\ UNCHANGED u /\ Fine
       \/ Goto(r, "unlock") /\ UNCHANGED u /\ StoreErr
    /\ UNCHANGED <<db, valkey, google, cal, todo, cur, synced, anySynced, ok, web>>

FillUserCache(r) ==
    /\ pc[r] = "fill"
    /\ \/ ucache' = u[r] /\ Fine
       \/ UNCHANGED ucache /\ StoreErr
    /\ Goto(r, "mark")
    /\ UNCHANGED <<db, lock, secache, google, u, cal, todo, cur, synced, anySynced, ok, web>>

MarkSyncing(r) ==
    /\ pc[r] = "mark"
    /\ \/ status' = (IF user = None THEN status ELSE "syncing") /\ Fine
       \/ UNCHANGED status /\ StoreErr
    /\ Goto(r, "verify")
    /\ UNCHANGED <<user, rows, valkey, google, u, cal, todo, cur, synced, anySynced, ok, web>>

(* Calendars.Get("primary"), then the choice of the target calendar. *)
VerifyAccess(r) ==
    /\ pc[r] = "verify" /\ Granted
    /\ Goto(r, IF u[r].useDedicated /\ u[r].calendar = None THEN "create" ELSE "list")
    /\ cal' = [cal EXCEPT ![r] = IF u[r].useDedicated /\ u[r].calendar # None
                                 THEN u[r].calendar ELSE "primary"]
    /\ UNCHANGED <<db, valkey, google, u, todo, cur, synced, anySynced, ok, web>>

VerifyFails(r) ==
    /\ pc[r] = "verify" /\ GoogleFails
    /\ Return(r, FALSE)
    /\ UNCHANGED <<db, valkey, google, u, cal, todo, cur, synced, anySynced, web>>

(* handleSyncError on invalid_grant: the user and, by cascade, the ledger  *)
(* are deleted, then the cached user; the run returns nil.                 *)
DeleteUser(r) ==
    /\ pc[r] \in {"verify", "create", "insert"} /\ revoked
    /\ pc[r] = "insert" => todo[r] # {}
    /\ \/ user' = None /\ rows' = {} /\ Fine
       \/ UNCHANGED <<user, rows>> /\ StoreErr
    /\ Goto(r, "forget")
    /\ UNCHANGED <<status, valkey, google, u, cal, todo, cur, synced, anySynced, ok, web>>

ForgetUser(r) ==
    /\ pc[r] = "forget"
    /\ \/ ucache' = None /\ Fine
       \/ UNCHANGED ucache /\ StoreErr
    /\ Return(r, TRUE)
    /\ UNCHANGED <<db, lock, secache, google, u, cal, todo, cur, synced, anySynced, web>>

(* Calendars.Insert, the UPDATE of calendar_id, the Del of the cached      *)
(* user.  On an error (the calendar may exist all the same) the run goes   *)
(* on with the primary calendar.                                           *)
CreateCalendar(r) ==
    /\ pc[r] = "create"
    /\ \/ \E k \in Cal \ cals : /\ Granted
                                /\ cals' = cals \cup {k}
                                /\ cal' = [cal EXCEPT ![r] = k]
                                /\ Goto(r, "saveCal")
       \/ /\ GoogleFails \/ (cals = Cal /\ Fine)
          /\ cals' \in {cals} \cup (IF revoked THEN {} ELSE {cals \cup {k} : k \in Cal \ cals})
          /\ UNCHANGED cal /\ Goto(r, "list")
    /\ UNCHANGED <<db, valkey, events, revoked, u, todo, cur, synced, anySynced, ok, web>>

SaveCalendar(r) ==
    /\ pc[r] = "saveCal"
    /\ \/ user' = (IF user = None THEN None ELSE [user EXCEPT !.calendar = cal[r]]) /\ Fine
       \/ UNCHANGED user /\ StoreErr
    /\ Goto(r, "dropUser")
    /\ UNCHANGED <<status, rows, valkey, google, u, cal, todo, cur, synced, anySynced, ok, web>>

DropUserCache(r) ==
    /\ pc[r] = "dropUser"
    /\ \/ ucache' = None /\ Fine
       \/ UNCHANGED ucache /\ StoreErr
    /\ Goto(r, "list")
    /\ UNCHANGED <<db, lock, secache, google, u, cal, todo, cur, synced, anySynced, ok, web>>
-----------------------------------------------------------------------------
(* Cleanup of the platforms that are no longer selected. *)
ListUnselected(r) ==
    /\ pc[r] = "list"
    /\ \/ todo' = [todo EXCEPT ![r] = rows \ Of(u[r].platforms)] /\ Goto(r, "clean") /\ Fine
       \/ UNCHANGED todo /\ Goto(r, "synced") /\ StoreErr
    /\ UNCHANGED <<db, valkey, google, u, cal, cur, synced, anySynced, ok, web>>

(* Mutant: after a failed delete the row is kept (continue). *)
DeleteEventKeepsRow(r) ==
    /\ pc[r] = "clean"
    /\ \/ /\ todo[r] = {}
          /\ Goto(r, "synced") /\ Fine /\ UNCHANGED <<events, cur, todo>>
       \/ \E c \in todo[r] :
             /\ \/ /\ events' = events \ {<<cal[r], c>>} /\ Granted
                   /\ cur' = [cur EXCEPT ![r] = c] /\ Goto(r, "cleanRow")
                \/ UNCHANGED <<events, cur, pc>> /\ GoogleFails
             /\ todo' = [todo EXCEPT ![r] = @ \ {c}]
    /\ UNCHANGED <<db, valkey, cals, revoked, u, cal, synced, anySynced, ok, web>>

(* Events.Delete on the run's target calendar; 404 counts as deleted, and  *)
(* after three failures the loop goes on as if it were.                    *)
DeleteEvent(r) ==
    /\ pc[r] = "clean"
    /\ \/ /\ todo[r] = {}
          /\ Goto(r, "synced") /\ Fine /\ UNCHANGED <<events, cur, todo>>
       \/ \E c \in todo[r] :
             /\ \/ events' = events \ {<<cal[r], c>>} /\ Granted
                \/ UNCHANGED events /\ GoogleFails
             /\ cur' = [cur EXCEPT ![r] = c]
             /\ todo' = [todo EXCEPT ![r] = @ \ {c}]
             /\ Goto(r, "cleanRow")
    /\ UNCHANGED <<db, valkey, cals, revoked, u, cal, synced, anySynced, ok, web>>

DeleteRow(r) ==
    /\ pc[r] = "cleanRow"
    /\ \/ rows' = rows \ {cur[r]} /\ Fine
       \/ UNCHANGED rows /\ StoreErr
    /\ cur' = [cur EXCEPT ![r] = None]
    /\ Goto(r, "clean")
    /\ UNCHANGED <<user, status, valkey, google, u, cal, todo, synced, anySynced, ok, web>>

(* syncedMap: from the cache, or from the ledger and then cached. *)
ReadSyncedCache(r) ==
    /\ pc[r] = "synced"
    /\ \/ secache # None /\ synced' = [synced EXCEPT ![r] = secache] /\ Goto(r, "contests") /\ Fine
       \/ secache = None /\ UNCHANGED synced /\ Goto(r, "rows") /\ Fine
       \/ UNCHANGED synced /\ Goto(r, "rows") /\ StoreErr
    /\ UNCHANGED <<db, valkey, google, u, cal, todo, cur, anySynced, ok, web>>

ReadRows(r) ==
    /\ pc[r] = "rows"
    /\ \/ synced' = [synced EXCEPT ![r] = rows] /\ Goto(r, "fillSynced") /\ Fine
       \/ UNCHANGED synced /\ Goto(r, "contests") /\ StoreErr
    /\ UNCHANGED <<db, valkey, google, u, cal, todo, cur, anySynced, ok, web>>

FillSyncedCache(r) ==
    /\ pc[r] = "fillSynced"
    /\ \/ secache' = synced[r] /\ Fine
       \/ UNCHANGED secache /\ StoreErr
    /\ Goto(r, "contests")
    /\ UNCHANGED <<db, lock, ucache, google, u, cal, todo, cur, synced, anySynced, ok, web>>

(* No platforms: done.  Otherwise the future contests of the platforms,    *)
(* less those in syncedMap, are inserted.                                  *)
LoadContests(r) ==
    /\ pc[r] = "contests"
    /\ \/ /\ u[r].platforms = {} /\ Return(r, TRUE) /\ UNCHANGED todo /\ Fine
       \/ /\ u[r].platforms # {}
          /\ todo' = [todo EXCEPT ![r] = Of(u[r].platforms) \ synced[r]]
          /\ Goto(r, "insert") /\ UNCHANGED ok /\ Fine
       \/ u[r].platforms # {} /\ Return(r, FALSE) /\ UNCHANGED todo /\ StoreErr
    /\ UNCHANGED <<db, valkey, google, u, cal, cur, synced, anySynced, web>>

(* Mutant: a contest is recorded although its insert failed. *)
InsertEventRecordsAlways(r) ==
    /\ pc[r] = "insert"
    /\ \E c \in todo[r] :
          /\ \/ Granted /\ events' = events \cup {<<cal[r], c>>}
             \/ GoogleFails /\ UNCHANGED events
          /\ cur' = [cur EXCEPT ![r] = c] /\ Goto(r, "record")
          /\ todo' = [todo EXCEPT ![r] = @ \ {c}]
    /\ UNCHANGED <<db, valkey, cals, revoked, u, cal, synced, anySynced, ok, web>>

(* Events.Insert, or Events.Update after a 409; an error leaves it open    *)
(* whether the event exists, and the loop goes on with the next contest.   *)
InsertEvent(r) ==
    /\ pc[r] = "insert"
    /\ \E c \in todo[r] :
          /\ \/ /\ Granted
                /\ events' = events \cup {<<cal[r], c>>}
                /\ cur' = [cur EXCEPT ![r] = c] /\ Goto(r, "record")
             \/ /\ GoogleFails
                /\ events' \in {events, IF revoked THEN events ELSE events \cup {<<cal[r], c>>}}
                /\ UNCHANGED <<cur, pc>>
          /\ todo' = [todo EXCEPT ![r] = @ \ {c}]
    /\ UNCHANGED <<db, valkey, cals, revoked, u, cal, synced, anySynced, ok, web>>

(* Mutant: synced_events has no foreign key to users. *)
RecordRowNoForeignKey(r) ==
    /\ pc[r] = "record"
    /\ rows' = rows \cup {cur[r]}
    /\ anySynced' = [anySynced EXCEPT ![r] = TRUE] /\ Fine
    /\ cur' = [cur EXCEPT ![r] = None]
    /\ Goto(r, "insert")
    /\ UNCHANGED <<user, status, valkey, google, u, cal, todo, synced, ok, web>>

(* INSERT INTO synced_events: the foreign key needs the users row. *)
RecordRow(r) ==
    /\ pc[r] = "record"
    /\ \/ /\ user # None /\ rows' = rows \cup {cur[r]}
          /\ anySynced' = [anySynced EXCEPT ![r] = TRUE] /\ Fine
       \/ user = None /\ UNCHANGED <<rows, anySynced>> /\ Fine
       \/ UNCHANGED <<rows, anySynced>> /\ StoreErr
    /\ cur' = [cur EXCEPT ![r] = None]
    /\ Goto(r, "insert")
    /\ UNCHANGED <<user, status, valkey, google, u, cal, todo, synced, ok, web>>

(* The loop is over: the cached list is dropped if a row was added. *)
DropSyncedCache(r) ==
    /\ pc[r] = "insert" /\ todo[r] = {}
    /\ \/ secache' = (IF anySynced[r] THEN None ELSE secache) /\ Fine
       \/ UNCHANGED secache /\ anySynced[r] /\ StoreErr
    /\ Return(r, TRUE)
    /\ UNCHANGED <<db, lock, ucache, google, u, cal, todo, cur, synced, anySynced, web>>

(* Mutant: the status is written only by runs that added something. *)
FinishIfSynced(r) ==
    /\ pc[r] = "finish"
    /\ status' = (IF user = None \/ ~anySynced[r] THEN status ELSE "success") /\ Fine
    /\ Goto(r, "unlock")
    /\ UNCHANGED <<user, rows, valkey, google, u, cal, todo, cur, synced, anySynced, ok, web>>

(* The deferred calls: the status, then the Del of the lock whoever set it. *)
Finish(r) ==
    /\ pc[r] = "finish"
    /\ \/ status' = (IF user = None THEN status ELSE IF ok[r] THEN "success" ELSE "failed") /\ Fine
       \/ UNCHANGED status /\ StoreErr
    /\ Goto(r, "unlock")
    /\ UNCHANGED <<user, rows, valkey, google, u, cal, todo, cur, synced, anySynced, ok, web>>

Clear(r) ==
    /\ Goto(r, "idle")
    /\ u' = [u EXCEPT ![r] = None]
    /\ cal' = [cal EXCEPT ![r] = None]
    /\ todo' = [todo EXCEPT ![r] = {}]
    /\ cur' = [cur EXCEPT ![r] = None]
    /\ synced' = [synced EXCEPT ![r] = {}]
    /\ anySynced' = [anySynced EXCEPT ![r] = FALSE]
    /\ ok' = [ok EXCEPT ![r] = TRUE]

Unlock(r) ==
    /\ pc[r] = "unlock"
    /\ \/ lock' = None /\ Fine
       \/ UNCHANGED lock /\ StoreErr
    /\ Clear(r)
    /\ UNCHANGED <<db, ucache, secache, google, web>>

RunStep(r) ==
    \/ ReadUserCache(r) \/ ReadUser(r) \/ FillUserCache(r) \/ MarkSyncing(r)
    \/ VerifyAccess(r) \/ VerifyFails(r) \/ DeleteUser(r) \/ ForgetUser(r)
    \/ CreateCalendar(r) \/ SaveCalendar(r) \/ DropUserCache(r)
    \/ ListUnselected(r) \/ DeleteEvent(r) \/ DeleteRow(r)
    \/ ReadSyncedCache(r) \/ ReadRows(r) \/ FillSyncedCache(r)
    \/ LoadContests(r) \/ InsertEvent(r) \/ RecordRow(r) \/ DropSyncedCache(r)
    \/ Finish(r) \/ Unlock(r)
-----------------------------------------------------------------------------
(* SavePreferences: what it compares the request with comes from the       *)
(* cache, or from the database and is then cached.  An error of the        *)
(* database ends the request, one of Valkey does not.                      *)
Save(P, d) ==
    /\ spc = "idle" /\ saves < MaxSaves
    /\ saves' = saves + 1
    /\ req' = [platforms |-> P, useDedicated |-> d]
    /\ \/ ucache # None /\ spc' = "compare" /\ scur' = ucache /\ Fine
       \/ ucache = None /\ spc' = "db" /\ UNCHANGED scur /\ Fine
       \/ spc' = "db" /\ UNCHANGED scur /\ StoreErr
    /\ UNCHANGED <<db, valkey, google, locals>>

SaveReturn == spc' = "idle" /\ req' = None /\ scur' = None

SaveReadUser ==
    /\ spc = "db"
    /\ \/ user # None /\ spc' = "fill" /\ scur' = user /\ UNCHANGED req /\ Fine
       \/ user = None /\ SaveReturn /\ Fine
       \/ SaveReturn /\ StoreErr
    /\ UNCHANGED <<db, valkey, google, locals, saves>>

SaveFillCache ==
    /\ spc = "fill"
    /\ \/ ucache' = scur /\ Fine
       \/ UNCHANGED ucache /\ StoreErr
    /\ spc' = "compare"
    /\ UNCHANGED <<db, lock, secache, google, locals, req, scur, saves>>

SaveCompare ==
    /\ spc = "compare"
    /\ IF scur.platforms = req.platforms /\ scur.useDedicated = req.useDedicated
       THEN SaveReturn
       ELSE spc' = "update" /\ UNCHANGED <<req, scur>>
    /\ UNCHANGED <<db, valkey, google, locals, saves, faults>>

SaveUpdate ==
    /\ spc = "update"
    /\ \/ /\ user' = IF user = None THEN None
                     ELSE [platforms |-> req.platforms, useDedicated |-> req.useDedicated,
                           calendar |-> IF req.useDedicated THEN user.calendar ELSE None]
          /\ spc' = "drop" /\ UNCHANGED <<req, scur>> /\ Fine
       \/ UNCHANGED user /\ SaveReturn /\ StoreErr
    /\ UNCHANGED <<status, rows, valkey, google, locals, saves>>

SaveDropCache ==
    /\ spc = "drop"
    /\ \/ ucache' = None /\ Fine
       \/ UNCHANGED ucache /\ StoreErr
    /\ SaveReturn
    /\ UNCHANGED <<db, lock, secache, google, locals, saves>>

SaveStep == SaveReadUser \/ SaveFillCache \/ SaveCompare \/ SaveUpdate \/ SaveDropCache
-----------------------------------------------------------------------------
(* The environment. *)
(* Mutant: SetNX without an expiration. *)
ExpireLockNever == lock # None /\ UNCHANGED vars

(* The 5 minutes are over; only a lock that a run still relies on counts.  *)
ExpireLock ==
    /\ lock # None
    /\ IF pc[lock] = "idle" THEN UNCHANGED expiries
       ELSE expiries < MaxExpiries /\ expiries' = expiries + 1
    /\ lock' = None
    /\ UNCHANGED <<db, ucache, secache, google, locals, web, gerrs, serrs>>

(* Mutant: the cached user has no expiration. *)
ExpireUserCacheNever == FALSE /\ UNCHANGED vars

ExpireUserCache ==
    /\ ucache # None
    /\ ucache' = None
    /\ UNCHANGED <<db, lock, secache, google, locals, web, faults>>

ExpireSyncedCache ==
    /\ secache # None
    /\ secache' = None
    /\ UNCHANGED <<db, lock, ucache, google, locals, web, faults>>

Crash(r) ==
    /\ pc[r] # "idle" /\ StoreErr
    /\ Clear(r)
    /\ UNCHANGED <<db, valkey, google, web>>

(* The user removes the app from the Google account (within the same bound). *)
Revoke ==
    /\ MayRevoke /\ ~revoked /\ GoogleErr
    /\ revoked' = TRUE
    /\ UNCHANGED <<db, valkey, cals, events, locals, web>>

Next ==
    \/ \E r \in Run : AcquireLock(r) \/ RunStep(r) \/ Crash(r)
    \/ \E P \in SUBSET Platform, d \in Dedicated : Save(P, d)
    \/ SaveStep
    \/ ExpireLock \/ ExpireUserCache \/ ExpireSyncedCache \/ Revoke

Spec == Init /\ [][Next]_vars

(***************************************************************************)
(* Fairness.  A goroutine that can run does; keys with a TTL expire; the   *)
(* daily SyncAllUsers keeps asking for a sync.  It selects the users with  *)
(* calendar access and a stored token: the user here is one of them.       *)
(***************************************************************************)
Fairness ==
    /\ \A r \in Run : WF_vars(RunStep(r))
    /\ SF_vars(\E r \in Run : AcquireLock(r))
    /\ WF_vars(SaveStep)
    /\ WF_vars(ExpireLock) /\ WF_vars(ExpireUserCache) /\ WF_vars(ExpireSyncedCache)

FairSpec == Spec /\ Fairness
-----------------------------------------------------------------------------
DbType ==
    /\ user \in User \cup {None}
    /\ status \in {"pending", "syncing", "success", "failed"}
    /\ rows \subseteq Contest

ValkeyType ==
    /\ lock \in Run \cup {None}
    /\ ucache \in User \cup {None}
    /\ secache \in (SUBSET Contest) \cup {None}

GoogleType ==
    /\ cals \subseteq Cal
    /\ events \subseteq (Cal \cup {"primary"}) \X Contest
    /\ revoked \in BOOLEAN

LocalsType ==
    /\ pc \in [Run -> {"idle", "cache", "db", "fill", "mark", "verify", "forget", "create",
                       "saveCal", "dropUser", "list", "clean", "cleanRow", "synced", "rows",
                       "fillSynced", "contests", "insert", "record", "finish", "unlock"}]
    /\ u \in [Run -> User \cup {None}]
    /\ cal \in [Run -> Cal \cup {"primary", None}]
    /\ todo \in [Run -> SUBSET Contest]
    /\ cur \in [Run -> Contest \cup {None}]
    /\ synced \in [Run -> SUBSET Contest]
    /\ anySynced \in [Run -> BOOLEAN] /\ ok \in [Run -> BOOLEAN]

WebType ==
    /\ spc \in {"idle", "db", "fill", "compare", "update", "drop"}
    /\ req \in [platforms : SUBSET Platform, useDedicated : BOOLEAN] \cup {None}
    /\ scur \in User \cup {None}
    /\ saves \in 0 .. MaxSaves

FaultType ==
    /\ expiries \in 0 .. MaxExpiries
    /\ gerrs \in Nat /\ serrs \in Nat /\ gerrs + serrs <= MaxFaults

(* Every variable keeps its type. *)
TypeOK == DbType /\ ValkeyType /\ GoogleType /\ LocalsType /\ WebType /\ FaultType

Active == {r \in Run : pc[r] # "idle"}

(***************************************************************************)
(* Mutual exclusion, as far as a lock with a TTL and a Del that does not   *)
(* look at the owner gives it: every run inside SyncUser that does not own *)
(* the lock is paid for by one lock that expired under a run, so with no   *)
(* expiry there is one run at a time, and the runs that delete each        *)
(* other's locks never add up to more than the expiries.                   *)
(***************************************************************************)
OverlapBounded == Cardinality(Active \ {lock}) <= expiries

(* The lock of a user implements a mutex whose exclusion is lost only with *)
(* leases that ended under their runs: however runs crash, keep or delete  *)
(* each other's keys, none starts unless that many may be inside already.  *)
BM == INSTANCE BoundedMutex WITH inside <- Active, lost <- expiries

ImplementsMutex == BM!BSpec

AfterCleanup == {"synced", "rows", "fillSynced", "contests", "insert", "record"}

(* Once a run is past its cleanup, every row of the ledger is of a         *)
(* platform that the preferences it works from select, though preferences  *)
(* change all the time and earlier runs worked from other ones.  It is the *)
(* lock that keeps other runs out meanwhile, while none expires; a failing *)
(* query leaves the rows to the next run.                                  *)
NoUnselectedRows ==
    expiries = 0 /\ serrs = 0 =>
        \A r \in Run : pc[r] \in AfterCleanup => rows \subseteq Of(u[r].platforms)

(***************************************************************************)
(* The ledger is sound while the lock excludes other runs and no run dies  *)
(* or loses the database: a contest recorded as synced has its event in    *)
(* some calendar, unless a run is between deleting the event and the row.  *)
(* This is what "event first, row second" is for; without it a contest     *)
(* would be skipped as synced and never appear.                            *)
(***************************************************************************)
LedgerSound ==
    expiries = 0 /\ serrs = 0 =>
        \A c \in rows :
            \/ \E k \in cals \cup {"primary"} : <<k, c>> \in events
            \/ \E r \in Run : pc[r] = "cleanRow" /\ cur[r] = c

(* What a run and a save hold where they need it. *)
RunHolds(r) ==
    /\ pc[r] \notin {"idle", "cache", "db", "forget", "finish", "unlock"} => u[r] \in User
    /\ pc[r] \in {"create", "dropUser", "list", "clean", "cleanRow"} \cup AfterCleanup
          => cal[r] \in Cal \cup {"primary"}
    /\ pc[r] = "saveCal" => cal[r] \in Cal
    /\ pc[r] \in {"cleanRow", "record"} => cur[r] \in Contest

SaveHolds == spc # "idle" => req \in [platforms : SUBSET Platform, useDedicated : BOOLEAN]

LocalsHeld == SaveHolds /\ \A r \in Run : RunHolds(r)

(* Every calendar the row, the caches and the runs name exists. *)
CalendarsExist ==
    /\ \A w \in {user, ucache, scur} : w # None => w.calendar \in cals \cup {None}
    /\ \A r \in Run : /\ u[r] # None => u[r].calendar \in cals \cup {None}
                      /\ cal[r] \in cals \cup {"primary", None}

(* During the cleanup the rows of unselected platforms are those still to  *)
(* be deleted, and a contest is recorded after its event was inserted.     *)
RunInv(r) ==
    LET selected == Of(u[r].platforms) IN
    /\ pc[r] = "clean" => rows \subseteq selected \cup todo[r]
    /\ pc[r] = "cleanRow" => rows \subseteq selected \cup todo[r] \cup {cur[r]}
    /\ pc[r] \in AfterCleanup => rows \subseteq selected
    /\ pc[r] \in {"insert", "record"} => todo[r] \subseteq selected
    /\ pc[r] = "record" => cur[r] \in selected /\ <<cal[r], cur[r]>> \in events

(***************************************************************************)
(* The inductive invariant behind NoUnselectedRows and LedgerSound.        *)
(* OverlapBounded is part of it: while no lock expired there is one run at *)
(* a time, and only then what a run found out stays true until it acts.    *)
(***************************************************************************)
SyncInv ==
    /\ TypeOK /\ LocalsHeld /\ OverlapBounded /\ CalendarsExist
    /\ expiries = 0 /\ serrs = 0 => LedgerSound /\ \A r \in Run : RunInv(r)

(* A lock never outlives its holder for good: it is deleted or expires,    *)
(* also when the process that took it is gone.                             *)
LockReleased == (lock # None) ~> (lock = None)

(* A user is not left in sync_status 'syncing': the run that set it, or    *)
(* after a crash a later one, replaces it.                                 *)
SyncingEnds == (user # None /\ status = "syncing") ~> (user = None \/ status # "syncing")

Wanted == Of(user.platforms)

(***************************************************************************)
(* Convergence: once preferences stop changing and calls stop failing, the *)
(* ledger becomes and stays the contests of the selected platforms, each   *)
(* with an event, whatever stale caches the interleavings left behind.     *)
(* A crash (or a failing DELETE) between the removal of an event and of    *)
(* its row is excluded: the row survives, and when its platform is         *)
(* selected again the contest counts as synced for ever.                   *)
(***************************************************************************)
EventuallySynced ==
    <>[](\/ revoked \/ serrs > 0
         \/ /\ rows = Wanted
            /\ \A c \in Wanted : \E k \in cals \cup {"primary"} : <<k, c>> \in events)

-----------------------------------------------------------------------------
(* What the program says of itself and does not keep. *)

(* "Your calendar is being updated with the new platform selections."      *)
(* (web/src/app.js:445): a run that worked from the current preferences    *)
(* and returned nil leaves an event for each contest they select.          *)
SelectionApplied ==
    \A r \in Run :
        pc[r] = "unlock" /\ u[r] # None /\ user # None /\ ok[r] /\ u[r].platforms = user.platforms
            => \A c \in Wanted : \E k \in cals \cup {"primary"} : <<k, c>> \in events

(* "deterministic sync idempotency" (README.md:20): a dedicated calendar   *)
(* is created only for a user whose row has none.                          *)
OneDedicatedCalendar == [][cals' # cals => user = None \/ user.calendar = None]_vars

(* "Your selections are already up to date. No new sync required."         *)
(* (web/src/app.js:458): when SavePreferences finds nothing changed, the   *)
(* row has what was asked for.                                             *)
UnchangedMeansSaved ==
    [][spc = "compare" /\ spc' = "idle" /\ user # None
         => user.platforms = req.platforms /\ user.useDedicated = req.useDedicated]_vars
=============================================================================
