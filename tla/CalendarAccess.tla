---------------------------- MODULE CalendarAccess ----------------------------
(***************************************************************************)
(* What internal/api knows of one user's Google permission: logins through *)
(* GoogleLogin and GoogleCallback, ValidateCalendarAccess with its cached  *)
(* verdict, the cached profile that Me answers from, and ManualSync, which *)
(* checks all of it before it queues a sync.  Every access of database,    *)
(* Valkey or Google is a step of its own.                                  *)
(***************************************************************************)
EXTENDS Integers, FiniteSets

CONSTANTS
    Login,        \* OAuth states handed out by GoogleLogin
    Callback,     \* requests of the callback URL (it may be requested again)
    Grant,        \* refresh tokens Google issues
    Validator,    \* requests of ValidateCalendarAccess
    Reader,       \* Me, SavePreferences and SyncUser calls that fill cache:user:v2
    Click,        \* requests of ManualSync
    MaxErrs,      \* bound: failing calls
    MaxTokenless, \* bound: logins that yield no refresh token
    MaxRevokes,   \* bound: grants the user revokes
    MaxClicks,    \* bound: ManualSync requests in all
    MaxScheduled, \* bound: syncs the scheduler queues
    None

Row == [token : Grant \cup {None}, access : BOOLEAN]

Age == {"recent", "old", None}

ASSUME AccessAssumption ==
    /\ None \notin Login /\ None \notin Grant /\ None \notin Row
    /\ None \notin {"valid", "invalid"}
    /\ MaxErrs \in Nat /\ MaxTokenless \in Nat /\ MaxRevokes \in Nat /\ MaxClicks \in Nat
    /\ MaxScheduled \in Nat

VARIABLES
    grants,    \* Google: unused | full (with the calendar scope) | basic | revoked
    states,    \* table oauth_states
    exchanged, \* history: code exchanges per login
    row,       \* users row; None if there is none
    gone,      \* the row was deleted; a later login makes another user
    last,      \* users.last_sync_at: less than a minute ago, older, or NULL
    ucache,    \* cache:user:v2
    val,       \* user:cal_val: valid | invalid
    lcache,    \* user:last_sync_at
    bpc, blog, btok, bscope, \* callback requests: login, token and scope received
    vpc, vtok, vres,         \* validations: token read, verdict
    rpc, rrow,               \* fills of the cached profile
    mpc, mlast, mtok,        \* ManualSync requests
    queued,    \* a sync task of the user is in the queue
    spc, stok, \* the sync: idle | read | run | delete | drop | status | stamp; its token
    manual,    \* history: a manual sync was queued less than a minute ago
    errs, tokenless, revokes, clicks, scheduled

google   == <<grants, exchanged>>
db       == <<states, row, gone, last>>
valkey   == <<ucache, val, lcache>>
callback == <<bpc, blog, btok, bscope>>
validate == <<vpc, vtok, vres>>
reader   == <<rpc, rrow>>
click    == <<mpc, mlast, mtok, clicks>>
sync     == <<queued, spc, stok, manual>>
bounds   == <<tokenless, revokes, scheduled>>
vars     == <<google, db, valkey, callback, validate, reader, click, sync, errs, bounds>>

Init ==
    /\ grants = [g \in Grant |-> "unused"]
    /\ states = {} /\ exchanged = [l \in Login |-> 0]
    /\ row = None /\ gone = FALSE /\ last = None
    /\ ucache = None /\ val = None /\ lcache = None
    /\ bpc = [b \in Callback |-> "idle"] /\ blog = [b \in Callback |-> None]
    /\ btok = [b \in Callback |-> None] /\ bscope = [b \in Callback |-> FALSE]
    /\ vpc = [v \in Validator |-> "idle"] /\ vtok = [v \in Validator |-> None]
    /\ vres = [v \in Validator |-> None]
    /\ rpc = [r \in Reader |-> "idle"] /\ rrow = [r \in Reader |-> None]
    /\ mpc = [m \in Click |-> "idle"] /\ mlast = [m \in Click |-> None]
    /\ mtok = [m \in Click |-> None] /\ clicks = 0
    /\ queued = FALSE /\ spc = "idle" /\ stok = None /\ manual = FALSE
    /\ errs = 0 /\ tokenless = 0 /\ revokes = 0 /\ scheduled = 0

Err == errs < MaxErrs /\ errs' = errs + 1

Fine == UNCHANGED errs

Full(g) == g # None /\ grants[g] = "full"

Token == IF row = None THEN None ELSE row.token

(* Requests other than a login come with a session. *)
LoggedIn == row # None \/ gone
-----------------------------------------------------------------------------
(* GoogleLogin; a state that is not in the table was never handed out or   *)
(* is used up.                                                             *)
GoogleLogin(l) ==
    /\ l \notin states /\ exchanged[l] = 0 /\ \A b \in Callback : blog[b] # l
    /\ states' = states \cup {l}
    /\ UNCHANGED <<google, row, gone, last, valkey, callback, validate, reader, click, sync, errs,
                   bounds>>

(* CleanupOAuthStates, and the age limit in the callback's DELETE. *)
ExpireState(l) ==
    /\ l \in states
    /\ states' = states \ {l}
    /\ UNCHANGED <<google, row, gone, last, valkey, callback, validate, reader, click, sync, errs,
                   bounds>>

(* Mutant: the state is looked up but not deleted. *)
ConsumeStateKept(b, l) ==
    /\ bpc[b] = "idle" /\ l \in states
    /\ blog' = [blog EXCEPT ![b] = l]
    /\ bpc' = [bpc EXCEPT ![b] = "exchange"]
    /\ UNCHANGED <<google, db, valkey, btok, bscope, validate, reader, click, sync, errs, bounds>>

(* GoogleCallback: DELETE FROM oauth_states ... RETURNING decides who goes on. *)
ConsumeState(b, l) ==
    /\ bpc[b] = "idle" /\ l \in states
    /\ states' = states \ {l}
    /\ blog' = [blog EXCEPT ![b] = l]
    /\ bpc' = [bpc EXCEPT ![b] = "exchange"]
    /\ UNCHANGED <<google, row, gone, last, valkey, btok, bscope, validate, reader, click, sync,
                   errs, bounds>>

LeaveCallback(b) ==
    /\ bpc' = [bpc EXCEPT ![b] = "idle"]
    /\ blog' = [blog EXCEPT ![b] = None]
    /\ btok' = [btok EXCEPT ![b] = None]
    /\ bscope' = [bscope EXCEPT ![b] = FALSE]

(* The code exchange.  The user may have left out the calendar scope;      *)
(* without a refresh token (or if it cannot be encrypted) the callback     *)
(* goes on with an empty one.                                              *)
Exchange(b) ==
    /\ bpc[b] = "exchange"
    /\ exchanged' = [exchanged EXCEPT ![blog[b]] = @ + 1]
    /\ \/ \E g \in Grant, full \in BOOLEAN :
             /\ grants[g] = "unused"
             /\ grants' = [grants EXCEPT ![g] = IF full THEN "full" ELSE "basic"]
             /\ bscope' = [bscope EXCEPT ![b] = full]
             /\ \/ btok' = [btok EXCEPT ![b] = g] /\ UNCHANGED tokenless
                \/ /\ tokenless < MaxTokenless /\ tokenless' = tokenless + 1
                   /\ UNCHANGED btok
          /\ bpc' = [bpc EXCEPT ![b] = "userinfo"] /\ UNCHANGED blog /\ Fine
       \/ LeaveCallback(b) /\ UNCHANGED <<grants, tokenless>> /\ Err
    /\ UNCHANGED <<db, valkey, validate, reader, click, sync, revokes, scheduled>>

(* Who logged in; if that fails, the grant was issued for nothing. *)
UserInfo(b) ==
    /\ bpc[b] = "userinfo"
    /\ \/ bpc' = [bpc EXCEPT ![b] = "upsert"] /\ UNCHANGED <<blog, btok, bscope>> /\ Fine
       \/ LeaveCallback(b) /\ Err
    /\ UNCHANGED <<google, db, valkey, validate, reader, click, sync, bounds>>

(* Mutant: ON CONFLICT replaces the token whatever it is. *)
UpsertAnyToken(b) ==
    /\ bpc[b] = "upsert"
    /\ row' = [token |-> btok[b], access |-> bscope[b]]
    /\ bpc' = [bpc EXCEPT ![b] = "drop"] /\ UNCHANGED <<blog, btok, bscope>> /\ Fine
    /\ UNCHANGED <<google, states, gone, last, valkey, validate, reader, click, sync, bounds>>

(* Mutant: ON CONFLICT leaves has_calendar_access alone. *)
UpsertTokenOnly(b) ==
    /\ bpc[b] = "upsert"
    /\ row' = [token |-> btok[b], access |-> IF row = None THEN bscope[b] ELSE row.access]
    /\ bpc' = [bpc EXCEPT ![b] = "drop"] /\ UNCHANGED <<blog, btok, bscope>> /\ Fine
    /\ UNCHANGED <<google, states, gone, last, valkey, validate, reader, click, sync, bounds>>

(* INSERT ... ON CONFLICT: an empty token does not replace the stored one. *)
(* The platforms it returns are none when the row is new.                  *)
Upsert(b) ==
    /\ bpc[b] = "upsert"
    /\ \/ /\ ~gone
          /\ row' = [token  |-> IF btok[b] # None \/ row = None THEN btok[b] ELSE row.token,
                     access |-> bscope[b]]
          /\ bpc' = [bpc EXCEPT ![b] = IF row = None THEN "dropNew" ELSE "drop"]
          /\ UNCHANGED <<blog, btok, bscope>> /\ Fine
       \/ gone /\ LeaveCallback(b) /\ UNCHANGED row /\ Fine
       \/ LeaveCallback(b) /\ UNCHANGED row /\ Err
    /\ UNCHANGED <<google, states, gone, last, valkey, validate, reader, click, sync, bounds>>

(* Del of the cached profile and verdict, then the session.  A user with   *)
(* platforms gets a first sync queued, which may fail.                     *)
DropCaches(b) ==
    /\ bpc[b] \in {"drop", "dropNew"}
    /\ \/ ucache' = None /\ val' = None /\ Fine
       \/ UNCHANGED <<ucache, val>> /\ Err
    /\ queued' \in IF bpc[b] = "drop" THEN {queued, TRUE} ELSE {queued}
    /\ LeaveCallback(b)
    /\ UNCHANGED <<google, db, lcache, validate, reader, click, spc, stok, manual, bounds>>

CallbackStep(b) == Exchange(b) \/ UserInfo(b) \/ Upsert(b) \/ DropCaches(b)
-----------------------------------------------------------------------------
(* ValidateCalendarAccess, unless it answers from the cache. *)
ValidateMiss(v) ==
    /\ vpc[v] = "idle" /\ LoggedIn
    /\ \/ val = None /\ Fine
       \/ val # None /\ Err
    /\ vpc' = [vpc EXCEPT ![v] = "read"]
    /\ UNCHANGED <<google, db, valkey, callback, vtok, vres, reader, click, sync, bounds>>

(* No row, no token and a failing read have the same verdict. *)
ValidateRead(v) ==
    /\ vpc[v] = "read"
    /\ \/ /\ Token # None
          /\ vtok' = [vtok EXCEPT ![v] = Token]
          /\ vpc' = [vpc EXCEPT ![v] = "ask"]
          /\ UNCHANGED vres /\ Fine
       \/ /\ IF Token = None THEN Fine ELSE Err
          /\ vres' = [vres EXCEPT ![v] = "invalid"]
          /\ vpc' = [vpc EXCEPT ![v] = "write"]
          /\ UNCHANGED vtok
    /\ UNCHANGED <<google, db, valkey, callback, reader, click, sync, bounds>>

(* Token exchange and tokeninfo; whatever fails makes the access invalid. *)
ValidateAsk(v) ==
    /\ vpc[v] = "ask"
    /\ \/ vres' = [vres EXCEPT ![v] = IF Full(vtok[v]) THEN "valid" ELSE "invalid"] /\ Fine
       \/ vres' = [vres EXCEPT ![v] = "invalid"] /\ Err
    /\ vpc' = [vpc EXCEPT ![v] = "write"]
    /\ UNCHANGED <<google, db, valkey, callback, vtok, reader, click, sync, bounds>>

ValidateWrite(v) ==
    /\ vpc[v] = "write"
    /\ \/ val' = vres[v] /\ Fine
       \/ UNCHANGED val /\ Err
    /\ vpc' = [vpc EXCEPT ![v] = "idle"]
    /\ vtok' = [vtok EXCEPT ![v] = None]
    /\ vres' = [vres EXCEPT ![v] = None]
    /\ UNCHANGED <<google, db, ucache, lcache, callback, reader, click, sync, bounds>>

ValidateStep(v) == ValidateRead(v) \/ ValidateAsk(v) \/ ValidateWrite(v)
-----------------------------------------------------------------------------
(* The cached profile is read in three places; on a miss each reads the    *)
(* row and fills the cache.  Only Me selects has_calendar_access.          *)
ProfileMiss(r) ==
    /\ rpc[r] = "idle" /\ LoggedIn
    /\ \/ ucache = None /\ Fine
       \/ ucache # None /\ Err
    /\ rpc' = [rpc EXCEPT ![r] = "read"]
    /\ UNCHANGED <<google, db, valkey, callback, validate, rrow, click, sync, bounds>>

ProfileRead(r, R) ==
    /\ rpc[r] = "read"
    /\ \/ /\ row # None
          /\ rrow' = [rrow EXCEPT ![r] = R]
          /\ rpc' = [rpc EXCEPT ![r] = "fill"] /\ Fine
       \/ /\ IF row = None THEN Fine ELSE Err
          /\ rpc' = [rpc EXCEPT ![r] = "idle"] /\ UNCHANGED rrow
    /\ UNCHANGED <<google, db, valkey, callback, validate, click, sync, bounds>>

MeRead(r) == ProfileRead(r, row)

(* SyncUser and SavePreferences leave the field at its zero value. *)
OtherRead(r) == ProfileRead(r, IF row = None THEN None ELSE [row EXCEPT !.access = FALSE])

ProfileFill(r) ==
    /\ rpc[r] = "fill"
    /\ \/ ucache' = rrow[r] /\ Fine
       \/ UNCHANGED ucache /\ Err
    /\ rpc' = [rpc EXCEPT ![r] = "idle"]
    /\ rrow' = [rrow EXCEPT ![r] = None]
    /\ UNCHANGED <<google, db, val, lcache, callback, validate, click, sync, bounds>>

ReaderStep(r) == MeRead(r) \/ OtherRead(r) \/ ProfileFill(r)
-----------------------------------------------------------------------------
(* ManualSync: last_sync_at from the cache or the row, *)
ClickStart(m) ==
    /\ mpc[m] = "idle" /\ LoggedIn /\ clicks < MaxClicks
    /\ clicks' = clicks + 1
    /\ \/ /\ lcache # None
          /\ mlast' = [mlast EXCEPT ![m] = lcache]
          /\ mpc' = [mpc EXCEPT ![m] = "check"] /\ Fine
       \/ /\ IF lcache = None THEN Fine ELSE Err
          /\ mpc' = [mpc EXCEPT ![m] = "read"] /\ UNCHANGED mlast
    /\ UNCHANGED <<google, db, valkey, callback, validate, reader, mtok, sync, bounds>>

LeaveClick(m) ==
    /\ mpc' = [mpc EXCEPT ![m] = "idle"]
    /\ mlast' = [mlast EXCEPT ![m] = None]
    /\ mtok' = [mtok EXCEPT ![m] = None]

ClickRead(m) ==
    /\ mpc[m] = "read"
    /\ \/ /\ row # None
          /\ mlast' = [mlast EXCEPT ![m] = last]
          /\ mpc' = [mpc EXCEPT ![m] = IF last = None THEN "check" ELSE "fill"]
          /\ UNCHANGED mtok /\ Fine
       \/ LeaveClick(m) /\ IF row = None THEN Fine ELSE Err
    /\ UNCHANGED <<google, db, valkey, callback, validate, reader, clicks, sync, bounds>>

ClickFill(m) ==
    /\ mpc[m] = "fill"
    /\ \/ lcache' = mlast[m] /\ Fine
       \/ UNCHANGED lcache /\ Err
    /\ mpc' = [mpc EXCEPT ![m] = "check"]
    /\ UNCHANGED <<google, db, ucache, val, callback, validate, reader, mlast, mtok, clicks, sync,
                   bounds>>

(* the limit of a minute, then the stored token, *)
ClickCheck(m) ==
    /\ mpc[m] = "check"
    /\ \/ /\ mlast[m] # "recent" /\ Token # None
          /\ mtok' = [mtok EXCEPT ![m] = Token]
          /\ mpc' = [mpc EXCEPT ![m] = "verdict"]
          /\ UNCHANGED mlast /\ Fine
       \/ LeaveClick(m) /\ IF mlast[m] = "recent" \/ Token = None THEN Fine ELSE Err
    /\ UNCHANGED <<google, db, valkey, callback, validate, reader, clicks, sync, bounds>>

(* a cached verdict, which only counts against the user, *)
ClickVerdict(m) ==
    /\ mpc[m] = "verdict"
    /\ \/ val = "invalid" /\ LeaveClick(m) /\ Fine
       \/ /\ IF val = "invalid" THEN Err ELSE Fine
          /\ mpc' = [mpc EXCEPT ![m] = "ask"] /\ UNCHANGED <<mlast, mtok>>
    /\ UNCHANGED <<google, db, valkey, callback, validate, reader, clicks, sync, bounds>>

(* the scope Google reports for the token, *)
ClickAsk(m) ==
    /\ mpc[m] = "ask"
    /\ \/ /\ Full(mtok[m])
          /\ mpc' = [mpc EXCEPT ![m] = "publish"] /\ UNCHANGED <<mlast, mtok>> /\ Fine
       \/ LeaveClick(m) /\ IF Full(mtok[m]) THEN Err ELSE Fine
    /\ UNCHANGED <<google, db, valkey, callback, validate, reader, clicks, sync, bounds>>

(* and the task is published. *)
ClickPublish(m) ==
    /\ mpc[m] = "publish"
    /\ \/ queued' = TRUE /\ manual' = TRUE /\ Fine
       \/ UNCHANGED <<queued, manual>> /\ Err
    /\ LeaveClick(m)
    /\ UNCHANGED <<google, db, valkey, callback, validate, reader, clicks, spc, stok, bounds>>

ClickStep(m) ==
    \/ ClickRead(m) \/ ClickFill(m) \/ ClickCheck(m) \/ ClickVerdict(m)
    \/ ClickAsk(m) \/ ClickPublish(m)
-----------------------------------------------------------------------------
(* The scheduler queues a sync of every user with access and a token. *)
SyncAllUsers ==
    /\ row # None /\ row.access /\ row.token # None
    /\ scheduled < MaxScheduled /\ scheduled' = scheduled + 1
    /\ queued' = TRUE
    /\ UNCHANGED <<google, db, valkey, callback, validate, reader, click, spc, stok, manual, errs,
                   tokenless, revokes>>

(* The queued sync (module SyncUser has its other steps): it takes the     *)
(* token from the cached profile                                           *)
SyncStarts ==
    /\ queued /\ spc = "idle"
    /\ queued' = FALSE
    /\ \/ ucache # None /\ stok' = ucache.token /\ spc' = "run" /\ Fine
       \/ /\ IF ucache = None THEN Fine ELSE Err
          /\ spc' = "read" /\ UNCHANGED stok
    /\ UNCHANGED <<google, db, valkey, callback, validate, reader, click, manual, bounds>>

(* or else from the row,                                                   *)
SyncReads ==
    /\ spc = "read" /\ UNCHANGED queued
    /\ \/ row # None /\ stok' = row.token /\ spc' = "run" /\ Fine
       \/ /\ IF row = None THEN Fine ELSE Err
          /\ spc' = "idle" /\ UNCHANGED stok
    /\ UNCHANGED <<google, db, valkey, callback, validate, reader, click, manual, bounds>>

(* Mutant: every failing call of Google counts as a revoked token. *)
SyncJudgesAnyError ==
    /\ spc = "run" /\ UNCHANGED queued
    /\ \/ stok # None /\ spc' = "delete" /\ UNCHANGED stok /\ IF Full(stok) THEN Err ELSE Fine
       \/ (stok = None \/ Full(stok)) /\ spc' = "status" /\ stok' = None /\ Fine
    /\ UNCHANGED <<google, db, valkey, callback, validate, reader, click, manual, bounds>>

(* and calls Google; handleSyncError knows a revoked token by the answer.  *)
SyncJudges ==
    /\ spc = "run" /\ UNCHANGED queued
    /\ LET revoked == stok # None /\ grants[stok] = "revoked"
       IN  \/ revoked /\ spc' = "delete" /\ UNCHANGED stok /\ Fine
           \/ /\ IF revoked THEN Err ELSE Fine
              /\ spc' = "status" /\ stok' = None
    /\ UNCHANGED <<google, db, valkey, callback, validate, reader, click, manual, bounds>>

(* The account goes, then its cached profile; errors are not looked at.    *)
SyncDeletes ==
    /\ spc = "delete" /\ spc' = "drop" /\ stok' = None /\ UNCHANGED queued
    /\ \/ row' = None /\ last' = None /\ gone' = (gone \/ row # None) /\ Fine
       \/ UNCHANGED <<row, last, gone>> /\ Err
    /\ UNCHANGED <<google, states, valkey, callback, validate, reader, click, manual, bounds>>

SyncDrops ==
    /\ spc = "drop" /\ spc' = "status" /\ UNCHANGED <<queued, stok>>
    /\ \/ ucache' = None /\ Fine
       \/ UNCHANGED ucache /\ Err
    /\ UNCHANGED <<google, db, val, lcache, callback, validate, reader, click, manual, bounds>>

(* However it ended, last_sync_at is stamped, in the row and then in the   *)
(* cache.                                                                  *)
SyncEnds ==
    /\ spc = "status" /\ spc' = "stamp" /\ UNCHANGED <<queued, stok>>
    /\ \/ last' = (IF row = None THEN None ELSE "recent") /\ Fine
       \/ UNCHANGED last /\ Err
    /\ UNCHANGED <<google, states, row, gone, valkey, callback, validate, reader, click, manual,
                   bounds>>

SyncStamps ==
    /\ spc = "stamp" /\ spc' = "idle"
    /\ \/ lcache' = "recent" /\ Fine
       \/ UNCHANGED lcache /\ Err
    /\ UNCHANGED <<google, db, ucache, val, callback, validate, reader, click, queued, stok, manual,
                   bounds>>

SyncStep ==
    \/ SyncStarts \/ SyncReads \/ SyncJudges \/ SyncDeletes \/ SyncDrops \/ SyncEnds \/ SyncStamps

(* A minute goes by: what was recent is not any more. *)
MinutePasses ==
    /\ manual \/ last = "recent" \/ lcache = "recent" \/ \E m \in Click : mlast[m] = "recent"
    /\ LET Older(a) == IF a = "recent" THEN "old" ELSE a
       IN  /\ last' = Older(last) /\ lcache' = Older(lcache)
           /\ mlast' = [m \in Click |-> Older(mlast[m])]
    /\ manual' = FALSE
    /\ UNCHANGED <<google, states, row, gone, ucache, val, callback, validate, reader, mpc, mtok,
                   clicks, queued, spc, stok, errs, bounds>>

(* Mutant: the verdict is cached without a TTL. *)
ExpireVerdictNever == val # None /\ UNCHANGED vars

ExpireVerdict ==
    /\ val # None /\ val' = None
    /\ UNCHANGED <<google, db, ucache, lcache, callback, validate, reader, click, sync, errs, bounds>>

(* Mutant: the profile is cached without a TTL. *)
ExpireProfileNever == ucache # None /\ UNCHANGED vars

ExpireProfile ==
    /\ ucache # None /\ ucache' = None
    /\ UNCHANGED <<google, db, val, lcache, callback, validate, reader, click, sync, errs, bounds>>

ExpireLast ==
    /\ lcache # None /\ lcache' = None
    /\ UNCHANGED <<google, db, ucache, val, callback, validate, reader, click, sync, errs, bounds>>

(* The user removes the app from the Google account: every token is dead. *)
Revoke ==
    /\ revokes < MaxRevokes /\ \E g \in Grant : grants[g] \in {"full", "basic"}
    /\ grants' = [g \in Grant |-> IF grants[g] = "unused" THEN "unused" ELSE "revoked"]
    /\ revokes' = revokes + 1
    /\ UNCHANGED <<exchanged, db, valkey, callback, validate, reader, click, sync, errs, tokenless,
                   scheduled>>

Next ==
    \/ \E l \in Login : GoogleLogin(l) \/ ExpireState(l)
    \/ \E b \in Callback : (\E l \in Login : ConsumeState(b, l)) \/ CallbackStep(b)
    \/ \E v \in Validator : ValidateMiss(v) \/ ValidateStep(v)
    \/ \E r \in Reader : ProfileMiss(r) \/ ReaderStep(r)
    \/ \E m \in Click : ClickStart(m) \/ ClickStep(m)
    \/ SyncAllUsers \/ SyncStep \/ MinutePasses
    \/ ExpireVerdict \/ ExpireProfile \/ ExpireLast
    \/ Revoke

Spec == Init /\ [][Next]_vars

(* Requests that started go on, the worker consumes, cached values have a  *)
(* TTL and time passes.  Nobody has to log in, ask or click.               *)
FairSpec ==
    /\ Spec
    /\ \A b \in Callback : WF_vars(CallbackStep(b))
    /\ \A v \in Validator : WF_vars(ValidateStep(v))
    /\ \A r \in Reader : WF_vars(ReaderStep(r))
    /\ \A m \in Click : WF_vars(ClickStep(m))
    /\ WF_vars(SyncStep)
    /\ WF_vars(ExpireVerdict) /\ WF_vars(ExpireProfile)
-----------------------------------------------------------------------------
GoogleType ==
    /\ grants \in [Grant -> {"unused", "full", "basic", "revoked"}]
    /\ exchanged \in [Login -> Nat]

DbType ==
    /\ states \subseteq Login
    /\ row \in Row \cup {None} /\ gone \in BOOLEAN /\ last \in Age

ValkeyType ==
    ucache \in Row \cup {None} /\ val \in {"valid", "invalid", None} /\ lcache \in Age

CallbackType ==
    /\ bpc \in [Callback -> {"idle", "exchange", "userinfo", "upsert", "drop", "dropNew"}]
    /\ blog \in [Callback -> Login \cup {None}]
    /\ btok \in [Callback -> Grant \cup {None}] /\ bscope \in [Callback -> BOOLEAN]
    /\ \A b \in Callback : bpc[b] = "idle" <=> blog[b] = None

ValidateType ==
    /\ vpc \in [Validator -> {"idle", "read", "ask", "write"}]
    /\ vtok \in [Validator -> Grant \cup {None}]
    /\ vres \in [Validator -> {"valid", "invalid", None}]
    /\ \A v \in Validator : /\ vpc[v] = "ask" => vtok[v] # None
                            /\ vpc[v] = "write" <=> vres[v] # None

ReaderType ==
    /\ rpc \in [Reader -> {"idle", "read", "fill"}]
    /\ rrow \in [Reader -> Row \cup {None}]
    /\ \A r \in Reader : rpc[r] = "fill" <=> rrow[r] # None

ClickType ==
    /\ mpc \in [Click -> {"idle", "read", "fill", "check", "verdict", "ask", "publish"}]
    /\ mlast \in [Click -> Age] /\ mtok \in [Click -> Grant \cup {None}]
    /\ \A m \in Click : mpc[m] \in {"verdict", "ask", "publish"} <=> mtok[m] # None
    /\ clicks \in 0 .. MaxClicks

SyncType ==
    /\ queued \in BOOLEAN /\ manual \in BOOLEAN
    /\ spc \in {"idle", "read", "run", "delete", "drop", "status", "stamp"}
    /\ stok \in Grant \cup {None}

ErrType == errs \in 0 .. MaxErrs

BoundsType ==
    /\ tokenless \in 0 .. MaxTokenless /\ revokes \in 0 .. MaxRevokes
    /\ scheduled \in 0 .. MaxScheduled

(* Every variable keeps its type, and a request that got past a check      *)
(* holds what it checked.                                                  *)
TypeOK ==
    /\ GoogleType /\ DbType /\ ValkeyType /\ CallbackType /\ ValidateType /\ ReaderType
    /\ ClickType /\ SyncType /\ ErrType /\ BoundsType

(* A login is exchanged for tokens at most once, even if its callback URL  *)
(* is requested twice at the same time.                                    *)
StateUsedOnce == \A l \in Login : exchanged[l] <= 1

(* Logins never lose a stored refresh token: one that brings none leaves   *)
(* the old one, in any interleaving of logins on several devices.          *)
TokenNeverLost == [][Token # None /\ row' # None => row'.token # None]_vars

(* has_calendar_access speaks of the token stored beside it, also when two *)
(* logins with different scopes overlap.  It needs every login to bring a  *)
(* token, which the forced consent of GoogleLogin is there for.            *)
AccessMatchesToken ==
    tokenless = 0 /\ Token # None /\ grants[Token] # "revoked" => (row.access <=> Full(Token))

(* A login is in the table, with one callback, or over. *)
LoginInv ==
    /\ \A l \in states : exchanged[l] = 0 /\ \A b \in Callback : blog[b] # l
    /\ \A b \in Callback : bpc[b] = "exchange" => exchanged[blog[b]] = 0
    /\ \A a, b \in Callback : blog[a] = blog[b] /\ blog[a] # None => a = b

(* The stored token was issued, so no later login changes its scope, and a *)
(* callback holds a token together with its scope.                         *)
TokenInv ==
    /\ Token # None => grants[Token] # "unused"
    /\ \A b \in Callback :
          /\ bpc[b] \in {"idle", "exchange"} => btok[b] = None
          /\ btok[b] # None => grants[btok[b]] # "unused"
          /\ btok[b] # None /\ grants[btok[b]] # "revoked" => (bscope[b] <=> Full(btok[b]))
          /\ bpc[b] \notin {"idle", "exchange"} /\ tokenless = 0 => btok[b] # None

(* A copied token was issued, and the row it came from has one or is gone. *)
Known(g) ==
    g # None => grants[g] # "unused" /\ IF row = None THEN gone ELSE row.token # None

(* The copies of the token: in the cached profile, in a fill of it under   *)
(* way and in the sync, which deletes only over a revoked one.             *)
CopyInv ==
    /\ ucache # None => Known(ucache.token)
    /\ \A r \in Reader : rrow[r] # None => Known(rrow[r].token)
    /\ Known(stok)
    /\ spc = "delete" => stok # None /\ grants[stok] = "revoked"

(* The inductive invariant behind the properties above and below. *)
AccessInv ==
    TypeOK /\ LoginInv /\ StateUsedOnce /\ TokenInv /\ AccessMatchesToken /\ CopyInv

(* Google has issued no second token to the user. *)
OneGrant ==
    \A g, h \in Grant : grants[g] # "unused" /\ grants[h] # "unused" => g = h

(***************************************************************************)
(* A user who logged in once loses the account to a sync only by revoking  *)
(* the grant: whatever calls fail, and from wherever the sync took its     *)
(* token, when the DELETE of handleSyncError runs the stored token is one  *)
(* that Google refuses.  (With a second login DeletedOnlyIfRevoked fails.) *)
(***************************************************************************)
OneLoginSafe ==
    [][gone' /\ ~gone /\ OneGrant => Token # None /\ grants[Token] = "revoked"]_vars

(* A validation that was under way during a login or a revocation may      *)
(* cache an outdated verdict after the callback dropped it; in the end the *)
(* cached verdict is that of the stored token.                             *)
VerdictConverges == <>[](val # None => (val = "valid" <=> Full(Token)))

(* The same for the cached profile, which SyncUser takes the token from:   *)
(* an outdated fill does not outlive its TTL.                              *)
ProfileConverges == <>[](ucache # None => row # None /\ ucache.token = row.token)

(* "user google oauth token has been revoked or expired, deleting account  *)
(* data" (internal/sync/sync.go:484): a sync deletes the account only if   *)
(* the token stored for it is revoked.                                     *)
DeletedOnlyIfRevoked ==
    [][gone' /\ ~gone => Token # None /\ grants[Token] = "revoked"]_vars

(* "without scope drift" (README.md:67): with no request under way, Me     *)
(* answers from the cached profile what the row says of the access.        *)
MeTruthful ==
    /\ ucache # None /\ row # None
    /\ \A b \in Callback : bpc[b] = "idle"
    /\ \A r \in Reader : rpc[r] = "idle"
    /\ errs = 0
    => ucache.access = row.access

(* "Please wait 1 minute between manual syncs." (internal/api/handlers.go:89): *)
(* no manual sync is queued less than a minute after another.                  *)
ManualSyncSpaced == [][\A m \in Click : ClickPublish(m) /\ manual' => ~manual]_vars
=============================================================================
