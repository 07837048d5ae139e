---------------------------- MODULE SyncUserProofs ----------------------------
(***************************************************************************)
(* Proofs about SyncUser for any number of runs, platforms, contests,      *)
(* calendars, saves, expiries and faults.                                  *)
(***************************************************************************)
EXTENDS SyncUser, FiniteSetTheorems, TLAPS

(* The contests of platforms are contests. *)
LEMMA OfContest == ASSUME NEW P PROVE Of(P) \subseteq Contest
  BY ZenonT(30) DEF Of

(* Handing the lock on exchanges one run of a set for another. *)
LEMMA EqualSize ==
    ASSUME NEW B, IsFiniteSet(B), NEW x, NEW y, x \notin B, y \notin B
    PROVE  Cardinality(B \cup {x}) = Cardinality(B \cup {y})
  BY FS_AddElement, ZenonT(30)

(* A function of flags stays one when the flag of a run is set. *)
LEMMA FlagSet ==
    ASSUME NEW f \in [Run -> BOOLEAN], NEW r
    PROVE  /\ [f EXCEPT ![r] = TRUE] \in [Run -> BOOLEAN]
           /\ [f EXCEPT ![r] = FALSE] \in [Run -> BOOLEAN]
  BY ZenonT(30)

(* A step of run r touches the locals of no other run. *)
LEMMA OtherRuns ==
    ASSUME LocalsType, NEW r \in Run, RunStep(r) \/ AcquireLock(r) \/ Crash(r),
           NEW q \in Run, q # r
    PROVE  /\ pc'[q] = pc[q] /\ u'[q] = u[q] /\ cal'[q] = cal[q]
           /\ todo'[q] = todo[q] /\ cur'[q] = cur[q]
  <1> DEFINE Goal == /\ pc'[q] = pc[q] /\ u'[q] = u[q] /\ cal'[q] = cal[q]
                     /\ todo'[q] = todo[q] /\ cur'[q] = cur[q]
  <1> USE ZenonT(30)
  <1>1. CASE ReadUserCache(r) \/ ReadUser(r) \/ FillUserCache(r) \/ MarkSyncing(r)
    BY <1>1 DEF ReadUserCache, Goto, ReadUser, FillUserCache, MarkSyncing, LocalsType
  <1>2. CASE VerifyAccess(r) \/ VerifyFails(r) \/ DeleteUser(r) \/ ForgetUser(r)
    BY <1>2 DEF VerifyAccess, Goto, VerifyFails, Return, DeleteUser, ForgetUser, LocalsType
  <1>3. CASE CreateCalendar(r) \/ SaveCalendar(r) \/ DropUserCache(r) \/ ListUnselected(r)
    BY <1>3 DEF CreateCalendar, Goto, SaveCalendar, DropUserCache, ListUnselected, LocalsType
  <1>4. CASE DeleteEvent(r) \/ DeleteRow(r) \/ ReadSyncedCache(r) \/ ReadRows(r)
    BY <1>4 DEF DeleteEvent, Goto, DeleteRow, ReadSyncedCache, ReadRows, LocalsType
  <1>5. CASE FillSyncedCache(r) \/ LoadContests(r) \/ InsertEvent(r) \/ RecordRow(r)
    BY <1>5 DEF FillSyncedCache, Goto, LoadContests, Return, InsertEvent, RecordRow, LocalsType
  <1>6. CASE DropSyncedCache(r) \/ Finish(r) \/ Unlock(r)
    BY <1>6 DEF DropSyncedCache, Return, Goto, Finish, Unlock, Clear, LocalsType
  <1>7. CASE AcquireLock(r) \/ Crash(r)
    BY <1>7 DEF AcquireLock, Crash, Clear, Goto, LocalsType
  <1> QED
    BY <1>1, <1>2, <1>3, <1>4, <1>5, <1>6, <1>7 DEF RunStep

(* The locals of the run that moves keep their type, and it holds what its *)
(* next step needs.                                                        *)
LEMMA RunLocals ==
    ASSUME DbType, ValkeyType, LocalsType, NEW r \in Run, RunHolds(r), RunStep(r)
    PROVE  LocalsType' /\ RunHolds(r)'
  <1> USE ZenonT(30) DEF RunHolds, AfterCleanup
  <1>1. CASE ReadUserCache(r)
    BY <1>1, SMTT(30) DEF ReadUserCache, Goto, LocalsType, ValkeyType
  <1>2. CASE ReadUser(r)
    BY <1>2, SMTT(30) DEF ReadUser, Goto, LocalsType, DbType
  <1>3. CASE FillUserCache(r)
    BY <1>3 DEF FillUserCache, Goto, LocalsType
  <1>4. CASE MarkSyncing(r)
    BY <1>4 DEF MarkSyncing, Goto, LocalsType
  <1>5. CASE VerifyAccess(r)
    BY <1>5 DEF VerifyAccess, Goto, LocalsType, User
  <1>6. CASE VerifyFails(r)
    BY <1>6 DEF VerifyFails, Return, Goto, LocalsType
  <1>7. CASE DeleteUser(r)
    BY <1>7 DEF DeleteUser, Goto, LocalsType
  <1>8. CASE ForgetUser(r)
    BY <1>8 DEF ForgetUser, Return, Goto, LocalsType
  <1>9. CASE CreateCalendar(r)
    BY <1>9, SMTT(30) DEF CreateCalendar, Goto, LocalsType
  <1>10. CASE SaveCalendar(r)
    BY <1>10 DEF SaveCalendar, Goto, LocalsType
  <1>11. CASE DropUserCache(r)
    BY <1>11 DEF DropUserCache, Goto, LocalsType
  <1>12. CASE ListUnselected(r)
    BY <1>12, SMTT(30) DEF ListUnselected, Goto, LocalsType, DbType
  <1>13. CASE DeleteEvent(r)
    BY <1>13, SMTT(30) DEF DeleteEvent, Goto, LocalsType
  <1>14. CASE DeleteRow(r)
    BY <1>14 DEF DeleteRow, Goto, LocalsType
  <1>15. CASE ReadSyncedCache(r)
    BY <1>15 DEF ReadSyncedCache, Goto, LocalsType, ValkeyType
  <1>16. CASE ReadRows(r)
    BY <1>16 DEF ReadRows, Goto, LocalsType, DbType
  <1>17. CASE FillSyncedCache(r)
    BY <1>17 DEF FillSyncedCache, Goto, LocalsType
  <1>18. CASE LoadContests(r)
    <2>1. Of(u[r].platforms) \ synced[r] \subseteq Contest
      BY OfContest
    <2>2. \/ todo' = todo
          \/ todo' = [todo EXCEPT ![r] = Of(u[r].platforms) \ synced[r]]
      BY <1>18 DEF LoadContests, Return
    <2>3. \/ ok' = ok
          \/ ok' = [ok EXCEPT ![r] = TRUE]
          \/ ok' = [ok EXCEPT ![r] = FALSE]
      BY <1>18 DEF LoadContests, Return
    <2>4. todo' \in [Run -> SUBSET Contest]
      BY <2>1, <2>2 DEF LocalsType
    <2>5. ok' \in [Run -> BOOLEAN]
      BY <2>3, FlagSet DEF LocalsType
    <2>6. \E l \in {"insert", "finish"} : pc' = [pc EXCEPT ![r] = l]
      BY <1>18 DEF LoadContests, Return, Goto
    <2> QED
      BY <1>18, <2>4, <2>5, <2>6 DEF LoadContests, LocalsType
  <1>19. CASE InsertEvent(r)
    BY <1>19, SMTT(30) DEF InsertEvent, Goto, LocalsType
  <1>20. CASE RecordRow(r)
    <2>1. \/ anySynced' = anySynced
          \/ anySynced' = [anySynced EXCEPT ![r] = TRUE]
      BY <1>20 DEF RecordRow
    <2>2. anySynced' \in [Run -> BOOLEAN]
      BY <2>1, FlagSet DEF LocalsType
    <2>3. /\ pc' = [pc EXCEPT ![r] = "insert"] /\ cur' = [cur EXCEPT ![r] = None]
          /\ pc[r] = "record" /\ UNCHANGED <<u, cal, todo, synced, ok>>
      BY <1>20 DEF RecordRow, Goto
    <2> QED
      BY <2>2, <2>3 DEF LocalsType
  <1>21. CASE DropSyncedCache(r)
    BY <1>21 DEF DropSyncedCache, Return, Goto, LocalsType
  <1>22. CASE Finish(r)
    BY <1>22 DEF Finish, Goto, LocalsType
  <1>23. CASE Unlock(r)
    BY <1>23 DEF Unlock, Clear, Goto, LocalsType
  <1> QED
    BY <1>1, <1>2, <1>3, <1>4, <1>5, <1>6, <1>7, <1>8, <1>9, <1>10, <1>11, <1>12, <1>13,
       <1>14, <1>15, <1>16, <1>17, <1>18, <1>19, <1>20, <1>21, <1>22, <1>23 DEF RunStep

(* A step of a run writes to one store at most: the database, Valkey or    *)
(* Google.  Its call succeeds or fails.                                    *)
WritesDb(r) ==
    \/ MarkSyncing(r) \/ DeleteUser(r) \/ SaveCalendar(r) \/ DeleteRow(r) \/ RecordRow(r)
    \/ Finish(r)

WritesValkey(r) ==
    \/ FillUserCache(r) \/ ForgetUser(r) \/ DropUserCache(r) \/ FillSyncedCache(r)
    \/ DropSyncedCache(r) \/ Unlock(r)

WritesGoogle(r) == CreateCalendar(r) \/ DeleteEvent(r) \/ InsertEvent(r)

Outcome == UNCHANGED web /\ (Fine \/ GoogleErr \/ StoreErr)

(* Which steps of a run write to the database, to Valkey and to Google;    *)
(* all others leave them alone.                                            *)
LEMMA RunWrites ==
    ASSUME NEW r, RunStep(r)
    PROVE  /\ Outcome
           /\ \/ UNCHANGED valkey /\ UNCHANGED google /\ (WritesDb(r) \/ UNCHANGED db)
              \/ UNCHANGED db /\ UNCHANGED google /\ WritesValkey(r)
              \/ UNCHANGED db /\ UNCHANGED valkey /\ WritesGoogle(r)
  <1> USE ZenonT(30) DEF Outcome, Granted, GoogleFails, Return
  <1>1. ASSUME MarkSyncing(r) \/ DeleteUser(r) \/ SaveCalendar(r)
       PROVE  Outcome /\ UNCHANGED valkey /\ UNCHANGED google
    BY <1>1 DEF MarkSyncing, DeleteUser, SaveCalendar
  <1>2. ASSUME DeleteRow(r) \/ RecordRow(r) \/ Finish(r)
       PROVE  Outcome /\ UNCHANGED valkey /\ UNCHANGED google
    BY <1>2 DEF DeleteRow, RecordRow, Finish
  <1>3. ASSUME FillUserCache(r) \/ ForgetUser(r)
       PROVE  Outcome /\ UNCHANGED db /\ UNCHANGED google
    BY <1>3 DEF FillUserCache, ForgetUser
  <1>4. ASSUME DropUserCache(r) \/ FillSyncedCache(r)
       PROVE  Outcome /\ UNCHANGED db /\ UNCHANGED google
    BY <1>4 DEF DropUserCache, FillSyncedCache
  <1>5. ASSUME DropSyncedCache(r) \/ Unlock(r)
       PROVE  Outcome /\ UNCHANGED db /\ UNCHANGED google
    BY <1>5 DEF DropSyncedCache, Unlock
  <1>6. ASSUME CreateCalendar(r) \/ DeleteEvent(r) \/ InsertEvent(r)
       PROVE  Outcome /\ UNCHANGED db /\ UNCHANGED valkey
    BY <1>6 DEF CreateCalendar, DeleteEvent, InsertEvent
  <1>7. ASSUME ReadUserCache(r) \/ ReadUser(r)
       PROVE  Outcome /\ UNCHANGED db /\ UNCHANGED valkey /\ UNCHANGED google
    BY <1>7 DEF ReadUserCache, ReadUser
  <1>8. ASSUME VerifyAccess(r) \/ VerifyFails(r)
       PROVE  Outcome /\ UNCHANGED db /\ UNCHANGED valkey /\ UNCHANGED google
    BY <1>8 DEF VerifyAccess, VerifyFails
  <1>9. ASSUME ListUnselected(r) \/ ReadSyncedCache(r)
       PROVE  Outcome /\ UNCHANGED db /\ UNCHANGED valkey /\ UNCHANGED google
    BY <1>9 DEF ListUnselected, ReadSyncedCache
  <1>10. ASSUME ReadRows(r) \/ LoadContests(r)
       PROVE  Outcome /\ UNCHANGED db /\ UNCHANGED valkey /\ UNCHANGED google
    BY <1>10 DEF ReadRows, LoadContests
  <1> HIDE DEF Outcome
  <1> QED
    BY <1>1, <1>2, <1>3, <1>4, <1>5, <1>6, <1>7, <1>8, <1>9, <1>10
       DEF RunStep, WritesDb, WritesValkey, WritesGoogle

(* A record that is made into a user row is one. *)
LEMMA UserUpdates ==
    /\ \A w \in User, k \in Cal : [w EXCEPT !.calendar = k] \in User
    /\ \A w \in User, q \in [platforms : SUBSET Platform, useDedicated : BOOLEAN] :
          [platforms |-> q.platforms, useDedicated |-> q.useDedicated,
           calendar |-> IF q.useDedicated THEN w.calendar ELSE None] \in User
  BY ZenonT(30) DEF User

(* Database, Valkey and Google keep their types under every step of a run. *)
LEMMA RunStores ==
    ASSUME TypeOK, NEW r \in Run, RunHolds(r), RunStep(r)
    PROVE  DbType' /\ ValkeyType' /\ GoogleType'
  <1> USE ZenonT(30)
  <1> DbType /\ ValkeyType /\ GoogleType /\ LocalsType
    BY DEF TypeOK
  <1>1. /\ UNCHANGED db => DbType'
        /\ UNCHANGED valkey => ValkeyType'
        /\ UNCHANGED google => GoogleType'
    BY DEF db, valkey, google, DbType, ValkeyType, GoogleType
  <1>2. ASSUME WritesDb(r) PROVE DbType'
    <2>1. CASE MarkSyncing(r)
      BY <2>1 DEF MarkSyncing, DbType
    <2>2. CASE DeleteUser(r)
      BY <2>2 DEF DeleteUser, DbType
    <2>3. CASE SaveCalendar(r)
      BY <2>3, UserUpdates DEF SaveCalendar, DbType, RunHolds
    <2>4. CASE DeleteRow(r)
      BY <2>4 DEF DeleteRow, DbType
    <2>5. CASE RecordRow(r)
      BY <2>5 DEF RecordRow, DbType, RunHolds
    <2>6. CASE Finish(r)
      BY <2>6 DEF Finish, DbType
    <2> QED
      BY <1>2, <2>1, <2>2, <2>3, <2>4, <2>5, <2>6 DEF WritesDb
  <1>3. ASSUME WritesValkey(r) PROVE ValkeyType'
    <2>1. CASE FillUserCache(r)
      BY <2>1 DEF FillUserCache, ValkeyType, LocalsType
    <2>2. CASE ForgetUser(r)
      BY <2>2 DEF ForgetUser, ValkeyType
    <2>3. CASE DropUserCache(r)
      BY <2>3 DEF DropUserCache, ValkeyType
    <2>4. CASE FillSyncedCache(r)
      BY <2>4 DEF FillSyncedCache, ValkeyType, LocalsType
    <2>5. CASE DropSyncedCache(r)
      BY <2>5 DEF DropSyncedCache, ValkeyType
    <2>6. CASE Unlock(r)
      BY <2>6 DEF Unlock, ValkeyType
    <2> QED
      BY <1>3, <2>1, <2>2, <2>3, <2>4, <2>5, <2>6 DEF WritesValkey
  <1>4. ASSUME WritesGoogle(r) PROVE GoogleType'
    <2>1. CASE CreateCalendar(r)
      BY <2>1 DEF CreateCalendar, GoogleType
    <2>2. CASE DeleteEvent(r)
      BY <2>2 DEF DeleteEvent, GoogleType
    <2>3. CASE InsertEvent(r)
      <3>1. /\ cal[r] \in Cal \cup {"primary"} /\ todo[r] \subseteq Contest
            /\ UNCHANGED <<cals, revoked>>
        BY <2>3 DEF InsertEvent, RunHolds, AfterCleanup, LocalsType
      <3>2. \E c \in todo[r] : events' \in {events, events \cup {<<cal[r], c>>}}
        BY <2>3 DEF InsertEvent
      <3> QED
        BY <3>1, <3>2, SMTT(30) DEF GoogleType
    <2> QED
      BY <1>4, <2>1, <2>2, <2>3 DEF WritesGoogle
  <1> QED
    BY <1>1, <1>2, <1>3, <1>4, RunWrites

(* Failing calls stay counted within their bound. *)
LEMMA FaultTypes == FaultType /\ (Fine \/ GoogleErr \/ StoreErr) => FaultType'
  BY SyncUserAssumption, SMTT(30) DEF FaultType, Fine, faults, GoogleErr, StoreErr, MayFail

(* What a step leaves alone keeps its type. *)
LEMMA TypeFrame ==
    /\ DbType /\ UNCHANGED db => DbType'
    /\ ValkeyType /\ UNCHANGED valkey => ValkeyType'
    /\ GoogleType /\ UNCHANGED google => GoogleType'
    /\ LocalsType /\ UNCHANGED locals => LocalsType'
    /\ WebType /\ UNCHANGED web => WebType'
    /\ (\A r \in Run : RunHolds(r)) /\ UNCHANGED locals => \A r \in Run : RunHolds(r)'
  <1>1. DbType /\ UNCHANGED db => DbType'
    BY ZenonT(30) DEF DbType, db
  <1>2. ValkeyType /\ UNCHANGED valkey => ValkeyType'
    BY ZenonT(30) DEF ValkeyType, valkey
  <1>3. GoogleType /\ UNCHANGED google => GoogleType'
    BY ZenonT(30) DEF GoogleType, google
  <1>4. LocalsType /\ UNCHANGED locals => LocalsType'
    BY ZenonT(30) DEF LocalsType, locals
  <1>5. WebType /\ UNCHANGED web => WebType'
    BY ZenonT(30) DEF WebType, web
  <1>6. (\A r \in Run : RunHolds(r)) /\ UNCHANGED locals => \A r \in Run : RunHolds(r)'
    BY ZenonT(30) DEF RunHolds, locals
  <1> QED
    BY <1>1, <1>2, <1>3, <1>4, <1>5, <1>6, ZenonT(30)

(* SavePreferences touches neither the ledger nor the lock, the calendars  *)
(* or the runs.                                                            *)
LEMMA SaveFrame ==
    ASSUME (\E P \in SUBSET Platform, d \in Dedicated : Save(P, d)) \/ SaveStep
    PROVE  UNCHANGED <<rows, lock, cals, events, pc, u, cal, todo, cur, expiries>>
  <1> USE ZenonT(30) DEF db, valkey, google, locals, Fine, faults, StoreErr
  <1> DEFINE Goal == UNCHANGED <<rows, lock, cals, events, pc, u, cal, todo, cur, expiries>>
  <1>1. ASSUME NEW P, NEW d, Save(P, d) PROVE Goal
    BY <1>1 DEF Save
  <1>2. ASSUME SaveReadUser \/ SaveFillCache \/ SaveCompare PROVE Goal
    BY <1>2 DEF SaveReadUser, SaveFillCache, SaveCompare
  <1>3. ASSUME SaveUpdate \/ SaveDropCache PROVE Goal
    BY <1>3 DEF SaveUpdate, SaveDropCache
  <1> QED
    BY <1>1, <1>2, <1>3 DEF SaveStep

(* A step of SavePreferences keeps the types. *)
LEMMA SaveTypes ==
    ASSUME TypeOK, SaveHolds,
           (\E P \in SUBSET Platform, d \in Dedicated : Save(P, d)) \/ SaveStep
    PROVE  /\ DbType' /\ ValkeyType' /\ WebType' /\ FaultType' /\ SaveHolds'
           /\ UNCHANGED google /\ UNCHANGED locals
  <1> DEFINE Goal == /\ DbType' /\ ValkeyType' /\ WebType' /\ FaultType' /\ SaveHolds'
                     /\ UNCHANGED google /\ UNCHANGED locals
  <1> DbType /\ ValkeyType /\ WebType /\ FaultType
    BY ZenonT(30) DEF TypeOK
  <1> USE ZenonT(30)
  <1>1. ASSUME NEW P \in SUBSET Platform, NEW d \in Dedicated, Save(P, d) PROVE Goal
    <2>1. req' \in [platforms : SUBSET Platform, useDedicated : BOOLEAN]
      BY <1>1, SyncUserAssumption DEF Save
    <2>2. WebType' /\ SaveHolds'
      BY <1>1, <2>1, SyncUserAssumption, SMTT(30) DEF Save, WebType, ValkeyType, SaveHolds
    <2> QED
      BY <1>1, <2>2, TypeFrame, FaultTypes DEF Save, db, valkey
  <1>2. CASE SaveReadUser
    <2>1. WebType' /\ SaveHolds'
      BY <1>2 DEF SaveReadUser, SaveReturn, WebType, DbType, SaveHolds
    <2> QED
      BY <1>2, <2>1, TypeFrame, FaultTypes DEF SaveReadUser, db, valkey
  <1>3. CASE SaveFillCache
    <2>1. ValkeyType' /\ WebType' /\ SaveHolds'
      BY <1>3 DEF SaveFillCache, WebType, ValkeyType, SaveHolds
    <2> QED
      BY <1>3, <2>1, TypeFrame, FaultTypes DEF SaveFillCache, db
  <1>4. CASE SaveCompare
    <2>1. WebType' /\ SaveHolds'
      BY <1>4 DEF SaveCompare, SaveReturn, WebType, SaveHolds
    <2>2. Fine
      BY <1>4 DEF SaveCompare, Fine
    <2> QED
      BY <1>4, <2>1, <2>2, TypeFrame, FaultTypes DEF SaveCompare, db, valkey
  <1>5. CASE SaveUpdate
    <2>1. DbType'
      BY <1>5, UserUpdates DEF SaveUpdate, DbType, SaveHolds
    <2>2. WebType' /\ SaveHolds'
      BY <1>5 DEF SaveUpdate, SaveReturn, WebType, SaveHolds
    <2> QED
      BY <1>5, <2>1, <2>2, TypeFrame, FaultTypes DEF SaveUpdate, valkey
  <1>6. CASE SaveDropCache
    BY <1>6, TypeFrame, FaultTypes
       DEF SaveDropCache, SaveReturn, WebType, ValkeyType, SaveHolds, db
  <1> QED
    BY <1>1, <1>2, <1>3, <1>4, <1>5, <1>6 DEF SaveStep

(* Every step keeps the types. *)
LEMMA NextTypes == TypeOK /\ LocalsHeld /\ [Next]_vars => TypeOK' /\ LocalsHeld'
  <1> SUFFICES ASSUME TypeOK, LocalsHeld, [Next]_vars PROVE TypeOK' /\ LocalsHeld'
    BY ZenonT(30)
  <1> /\ DbType /\ ValkeyType /\ GoogleType /\ LocalsType /\ WebType /\ FaultType
      /\ (\A r \in Run : RunHolds(r)) /\ SaveHolds
    BY ZenonT(30) DEF TypeOK, LocalsHeld
  <1> DEFINE Goal == /\ DbType' /\ ValkeyType' /\ GoogleType' /\ LocalsType' /\ WebType'
                     /\ FaultType' /\ (\A r \in Run : RunHolds(r)') /\ SaveHolds'
  <1> SUFFICES Goal
    BY ZenonT(30) DEF TypeOK, LocalsHeld
  <1> USE ZenonT(30)
  <1>0. UNCHANGED web => WebType' /\ SaveHolds'
    BY TypeFrame DEF web, SaveHolds
  <1>1. ASSUME NEW r \in Run, RunStep(r) PROVE Goal
    <2>1. LocalsType' /\ RunHolds(r)'
      BY <1>1, RunLocals
    <2>2. ASSUME NEW q \in Run, q # r PROVE RunHolds(q)'
      BY <1>1, <2>2, OtherRuns DEF RunHolds
    <2>3. WebType' /\ SaveHolds' /\ FaultType'
      BY <1>0, <1>1, RunWrites, FaultTypes DEF Outcome
    <2> QED
      BY <1>1, <2>1, <2>2, <2>3, RunStores
  <1>2. ASSUME NEW r \in Run, AcquireLock(r) PROVE Goal
    <2>1. LocalsType' /\ RunHolds(r)'
      BY <1>2 DEF AcquireLock, Goto, LocalsType, RunHolds, AfterCleanup
    <2>2. ASSUME NEW q \in Run, q # r PROVE RunHolds(q)'
      BY <1>2, <2>2, OtherRuns DEF RunHolds
    <2>3. ValkeyType'
      BY <1>2 DEF AcquireLock, ValkeyType
    <2> QED
      BY <1>0, <1>2, <2>1, <2>2, <2>3, TypeFrame, FaultTypes DEF AcquireLock
  <1>3. ASSUME NEW r \in Run, Crash(r) PROVE Goal
    <2>1. LocalsType' /\ RunHolds(r)'
      BY <1>3 DEF Crash, Clear, Goto, LocalsType, RunHolds, AfterCleanup
    <2>2. ASSUME NEW q \in Run, q # r PROVE RunHolds(q)'
      BY <1>3, <2>2, OtherRuns DEF RunHolds
    <2> QED
      BY <1>0, <1>3, <2>1, <2>2, TypeFrame, FaultTypes DEF Crash
  <1>4. CASE (\E P \in SUBSET Platform, d \in Dedicated : Save(P, d)) \/ SaveStep
    <2>1. /\ DbType' /\ ValkeyType' /\ WebType' /\ FaultType' /\ SaveHolds'
          /\ UNCHANGED google /\ UNCHANGED locals
      BY <1>4, SaveTypes
    <2> QED
      BY <2>1, TypeFrame
  <1>5. CASE ExpireLock
    <2>1. ValkeyType'
      BY <1>5 DEF ExpireLock, ValkeyType
    <2>2. FaultType'
      BY <1>5, SyncUserAssumption, SMTT(30) DEF ExpireLock, FaultType
    <2> QED
      BY <1>0, <1>5, <2>1, <2>2, TypeFrame DEF ExpireLock
  <1>6. CASE ExpireUserCache \/ ExpireSyncedCache
    <2>1. ValkeyType'
      BY <1>6 DEF ExpireUserCache, ExpireSyncedCache, ValkeyType
    <2>2. Fine
      BY <1>6 DEF ExpireUserCache, ExpireSyncedCache, Fine
    <2> QED
      BY <1>0, <1>6, <2>1, <2>2, TypeFrame, FaultTypes DEF ExpireUserCache, ExpireSyncedCache
  <1>7. CASE Revoke
    <2>1. GoogleType'
      BY <1>7 DEF Revoke, GoogleType
    <2> QED
      BY <1>0, <1>7, <2>1, TypeFrame, FaultTypes DEF Revoke
  <1>8. CASE UNCHANGED vars
    <2>1. /\ UNCHANGED db /\ UNCHANGED valkey /\ UNCHANGED google /\ UNCHANGED locals
          /\ UNCHANGED web /\ Fine
      BY <1>8 DEF vars, Fine
    <2> QED
      BY <1>0, <2>1, TypeFrame, FaultTypes
  <1> QED
    BY <1>1, <1>2, <1>3, <1>4, <1>5, <1>6, <1>7, <1>8 DEF Next
-----------------------------------------------------------------------------
(* A run that moves is inside SyncUser, and stays there with the lock as   *)
(* it was, unless the step is its last.                                    *)
LEMMA RunMoves ==
    ASSUME LocalsType, NEW r \in Run, RunStep(r)
    PROVE  /\ pc[r] # "idle" /\ expiries' = expiries
           /\ \/ Unlock(r)
              \/ pc'[r] # "idle" /\ lock' = lock
  <1> USE ZenonT(30)
  <1>1. expiries' = expiries
    BY RunWrites DEF Outcome, Fine, faults, GoogleErr, StoreErr
  <1>2. ASSUME ReadUserCache(r) \/ ReadUser(r) \/ FillUserCache(r)
       PROVE  pc[r] # "idle" /\ pc'[r] # "idle" /\ lock' = lock
    BY <1>2 DEF ReadUserCache, ReadUser, FillUserCache, Return, Goto, LocalsType, valkey
  <1>3. ASSUME MarkSyncing(r) \/ VerifyAccess(r) \/ VerifyFails(r)
       PROVE  pc[r] # "idle" /\ pc'[r] # "idle" /\ lock' = lock
    BY <1>3 DEF MarkSyncing, VerifyAccess, VerifyFails, Return, Goto, LocalsType, valkey
  <1>4. ASSUME DeleteUser(r) \/ ForgetUser(r) \/ CreateCalendar(r)
       PROVE  pc[r] # "idle" /\ pc'[r] # "idle" /\ lock' = lock
    BY <1>4 DEF DeleteUser, ForgetUser, CreateCalendar, Return, Goto, LocalsType, valkey
  <1>5. ASSUME SaveCalendar(r) \/ DropUserCache(r) \/ ListUnselected(r)
       PROVE  pc[r] # "idle" /\ pc'[r] # "idle" /\ lock' = lock
    BY <1>5 DEF SaveCalendar, DropUserCache, ListUnselected, Return, Goto, LocalsType, valkey
  <1>6. ASSUME DeleteEvent(r) \/ DeleteRow(r) \/ ReadSyncedCache(r)
       PROVE  pc[r] # "idle" /\ pc'[r] # "idle" /\ lock' = lock
    BY <1>6 DEF DeleteEvent, DeleteRow, ReadSyncedCache, Return, Goto, LocalsType, valkey
  <1>7. ASSUME ReadRows(r) \/ FillSyncedCache(r) \/ LoadContests(r)
       PROVE  pc[r] # "idle" /\ pc'[r] # "idle" /\ lock' = lock
    BY <1>7 DEF ReadRows, FillSyncedCache, LoadContests, Return, Goto, LocalsType, valkey
  <1>8. ASSUME InsertEvent(r) \/ RecordRow(r) \/ DropSyncedCache(r)
       PROVE  pc[r] # "idle" /\ pc'[r] # "idle" /\ lock' = lock
    BY <1>8 DEF InsertEvent, RecordRow, DropSyncedCache, Return, Goto, LocalsType, valkey
  <1>9. ASSUME Finish(r)
       PROVE  pc[r] # "idle" /\ pc'[r] # "idle" /\ lock' = lock
    BY <1>9 DEF Finish, Return, Goto, LocalsType, valkey
  <1>10. ASSUME Unlock(r) PROVE pc[r] # "idle"
    BY <1>10 DEF Unlock
  <1> QED
    BY <1>1, <1>2, <1>3, <1>4, <1>5, <1>6, <1>7, <1>8, <1>9, <1>10 DEF RunStep

(* The runs without the lock are paid for by expiries: no step but         *)
(* ExpireLock adds one.                                                    *)
LEMMA NextOverlap == TypeOK /\ OverlapBounded /\ [Next]_vars => OverlapBounded'
  <1> SUFFICES ASSUME TypeOK, OverlapBounded, [Next]_vars PROVE OverlapBounded'
    BY ZenonT(30)
  <1> LocalsType /\ ValkeyType /\ FaultType
    BY ZenonT(30) DEF TypeOK
  <1> USE ZenonT(30), SyncUserAssumption
  <1>1. IsFiniteSet(Active) /\ IsFiniteSet(Active')
    BY FS_Subset DEF Active
  <1>2. /\ IsFiniteSet(Active \ {lock}) /\ Cardinality(Active \ {lock}) \in Nat
        /\ IsFiniteSet(Active' \ {lock'}) /\ Cardinality(Active' \ {lock'}) \in Nat
    BY <1>1, FS_Subset, FS_CardinalityType
  <1>3. ASSUME Active' \ {lock'} \subseteq Active \ {lock}, expiries' = expiries
        PROVE  OverlapBounded'
    <2>1. Cardinality(Active' \ {lock'}) <= Cardinality(Active \ {lock})
      BY <1>2, <1>3, FS_Subset
    <2> QED
      BY <1>2, <1>3, <2>1, SMTT(30) DEF OverlapBounded, FaultType
  <1>4. ASSUME UNCHANGED <<pc, lock, expiries>> PROVE OverlapBounded'
    BY <1>3, <1>4 DEF Active
  <1>5. ASSUME NEW r \in Run, Unlock(r) PROVE OverlapBounded'
    <2>1. pc[r] = "unlock" /\ pc' = [pc EXCEPT ![r] = "idle"] /\ expiries' = expiries
      BY <1>5 DEF Unlock, Clear, Goto, Fine, faults, StoreErr
    <2>2. Active' = Active \ {r} /\ r \in Active
      BY <2>1 DEF Active, LocalsType
    <2>3. CASE lock' = lock \/ lock \notin Active \/ lock = r
      <3>1. Active' \ {lock'} \subseteq Active \ {lock}
        BY <2>2, <2>3
      <3> QED
        BY <1>3, <2>1, <3>1
    <2>4. CASE lock' = None /\ lock \in Active /\ lock # r
      <3> DEFINE B == Active \ {r, lock}
      <3>1. IsFiniteSet(B) /\ Cardinality(B) \in Nat
        BY <1>1, FS_Subset, FS_CardinalityType
      <3>2. /\ Active \ {lock} = B \cup {r}
            /\ Active' \ {lock'} = B \cup {lock}
        BY <2>2, <2>4 DEF Active
      <3>3. r \notin B /\ lock \notin B
        OBVIOUS
      <3>4. Cardinality(Active' \ {lock'}) = Cardinality(Active \ {lock})
        <4> HIDE DEF B
        <4>1. Cardinality(B \cup {lock}) = Cardinality(B \cup {r})
          BY <3>1, <3>3, EqualSize
        <4> QED
          BY <3>2, <4>1
      <3> QED
        BY <2>1, <3>4 DEF OverlapBounded
    <2> QED
      BY <1>5, <2>3, <2>4 DEF Unlock
  <1>6. ASSUME NEW r \in Run, RunStep(r) PROVE OverlapBounded'
    <2>1. CASE Unlock(r)
      BY <1>5, <2>1
    <2>2. CASE ~Unlock(r)
      <3>1. pc[r] # "idle" /\ pc'[r] # "idle" /\ lock' = lock /\ expiries' = expiries
        BY <1>6, <2>2, RunMoves
      <3>2. \A q \in Run : q # r => pc'[q] = pc[q]
        BY <1>6, OtherRuns
      <3>3. Active' = Active
        BY <3>1, <3>2 DEF Active
      <3> QED
        BY <1>3, <3>1, <3>3
    <2> QED
      BY <2>1, <2>2
  <1>7. ASSUME NEW r \in Run, AcquireLock(r) PROVE OverlapBounded'
    <2>1. /\ lock = None /\ lock' = r /\ expiries' = expiries
          /\ pc' = pc \/ pc' = [pc EXCEPT ![r] = "cache"]
      BY <1>7 DEF AcquireLock, Goto, Fine, faults, StoreErr
    <2>2. Active' \ {lock'} \subseteq Active \ {lock}
      BY <2>1 DEF Active, LocalsType
    <2> QED
      BY <1>3, <2>1, <2>2
  <1>8. ASSUME NEW r \in Run, Crash(r) PROVE OverlapBounded'
    <2>1. lock' = lock /\ expiries' = expiries /\ pc' = [pc EXCEPT ![r] = "idle"]
      BY <1>8 DEF Crash, Clear, Goto, StoreErr, valkey
    <2>2. Active' \ {lock'} \subseteq Active \ {lock}
      BY <2>1 DEF Active, LocalsType
    <2> QED
      BY <1>3, <2>1, <2>2
  <1>9. CASE ExpireLock
    <2>1. lock # None /\ lock \in Run /\ lock' = None /\ pc' = pc
      BY <1>9 DEF ExpireLock, ValkeyType, locals
    <2>2. CASE pc[lock] = "idle"
      <3>1. Active' \ {lock'} \subseteq Active \ {lock} /\ expiries' = expiries
        BY <1>9, <2>1, <2>2 DEF Active, ExpireLock
      <3> QED
        BY <1>3, <3>1
    <2>3. CASE pc[lock] # "idle"
      <3>1. expiries' = expiries + 1
        BY <1>9, <2>3 DEF ExpireLock
      <3>2. Active' \ {lock'} = (Active \ {lock}) \cup {lock}
        BY <2>1, <2>3 DEF Active
      <3>3. Cardinality(Active' \ {lock'}) <= Cardinality(Active \ {lock}) + 1
        BY <1>2, <3>2, FS_AddElement, SMTT(30)
      <3> QED
        BY <1>2, <3>1, <3>3, SMTT(30) DEF OverlapBounded, FaultType
    <2> QED
      BY <2>2, <2>3
  <1>10. CASE (\E P \in SUBSET Platform, d \in Dedicated : Save(P, d)) \/ SaveStep
    <2>1. UNCHANGED <<pc, lock, expiries>>
      BY <1>10, SaveFrame
    <2> QED
      BY <1>4, <2>1
  <1>11. CASE ExpireUserCache \/ ExpireSyncedCache \/ Revoke
    BY <1>4, <1>11 DEF ExpireUserCache, ExpireSyncedCache, Revoke, GoogleErr, valkey, locals, faults
  <1>12. CASE UNCHANGED vars
    BY <1>4, <1>12 DEF vars, valkey, locals, faults
  <1> QED
    BY <1>6, <1>7, <1>8, <1>9, <1>10, <1>11, <1>12 DEF Next

(* While no lock expired there is one run at a time. *)
LEMMA Exclusive ==
    ASSUME TypeOK, OverlapBounded, expiries = 0, NEW r \in Run, NEW q \in Run,
           pc[r] # "idle", pc[q] # "idle"
    PROVE  q = r
  <1> USE ZenonT(30), SyncUserAssumption
  <1>1. IsFiniteSet(Active \ {lock})
    BY FS_Subset DEF Active
  <1>2. Cardinality(Active \ {lock}) \in Nat
    BY <1>1, FS_CardinalityType
  <1>3. Cardinality(Active \ {lock}) = 0
    BY <1>2, SMTT(30) DEF OverlapBounded
  <1>4. Active \ {lock} = {}
    BY <1>1, <1>3, FS_EmptySet
  <1> QED
    BY <1>4, SMTT(30) DEF Active

(* Calendars are never removed here, and what is remembered of one comes   *)
(* from its creation.                                                      *)
LEMMA NextCalendars ==
    TypeOK /\ LocalsHeld /\ CalendarsExist /\ [Next]_vars => CalendarsExist'
  <1> SUFFICES ASSUME TypeOK, LocalsHeld, CalendarsExist, [Next]_vars PROVE CalendarsExist'
    BY ZenonT(30)
  <1> DbType /\ ValkeyType /\ GoogleType /\ LocalsType /\ WebType
    BY ZenonT(30) DEF TypeOK
  <1> USE ZenonT(30)
  <1> DEFINE Known(w) == w # None => w.calendar \in cals \cup {None}
             KnownOf(r) == Known(u[r]) /\ cal[r] \in cals \cup {"primary", None}
  <1>1. Known(user) /\ Known(ucache) /\ Known(scur) /\ \A r \in Run : KnownOf(r)
    BY DEF CalendarsExist
  <1>2. ASSUME cals \subseteq cals',
               user' \in {user, None}, ucache' \in {ucache, user, scur, None} \cup {u[r] : r \in Run},
               scur' \in {scur, user, ucache, None},
               \A r \in Run : /\ u'[r] \in {u[r], user, ucache, None}
                             /\ cal'[r] \in {cal[r], None}
        PROVE  CalendarsExist'
    BY <1>1, <1>2 DEF CalendarsExist
  <1>3. ASSUME UNCHANGED <<user, ucache, scur, cals, u, cal>> PROVE CalendarsExist'
    BY <1>2, <1>3
  <1>4. ASSUME NEW r \in Run, RunStep(r) PROVE CalendarsExist'
    <2>0. UNCHANGED scur /\ \A q \in Run : q # r => u'[q] = u[q] /\ cal'[q] = cal[q]
      BY <1>4, OtherRuns, RunWrites DEF Outcome, web
    <2>1. CASE ReadUserCache(r) \/ ReadUser(r)
      <3>1. /\ UNCHANGED <<user, ucache, cals, cal>>
            /\ u' \in {u, [u EXCEPT ![r] = user], [u EXCEPT ![r] = ucache]}
        BY <2>1 DEF ReadUserCache, ReadUser, db, valkey, google
      <3> QED
        BY <1>2, <2>0, <3>1 DEF LocalsType
    <2>2. CASE FillUserCache(r)
      BY <1>2, <2>0, <2>2 DEF FillUserCache, db, google
    <2>3. CASE ForgetUser(r) \/ DropUserCache(r)
      BY <1>2, <2>0, <2>3 DEF ForgetUser, DropUserCache, Return, db, google
    <2>4. CASE DeleteUser(r)
      BY <1>2, <2>0, <2>4 DEF DeleteUser, valkey, google
    <2>5. CASE VerifyAccess(r)
      <3>1. UNCHANGED <<user, ucache, scur, cals, u>>
        BY <2>0, <2>5 DEF VerifyAccess, db, valkey, google
      <3>2. \/ cal' = [cal EXCEPT ![r] = u[r].calendar]
            \/ cal' = [cal EXCEPT ![r] = "primary"]
        BY <2>5 DEF VerifyAccess
      <3>3. u[r] # None
        BY <2>5, SyncUserAssumption DEF LocalsHeld, RunHolds, VerifyAccess
      <3> QED
        BY <1>1, <3>1, <3>2, <3>3 DEF CalendarsExist, LocalsType
    <2>6. CASE CreateCalendar(r)
      <3>1. /\ UNCHANGED <<user, ucache, scur, u>> /\ cals \subseteq cals'
            /\ \/ cal' = cal
               \/ \E k \in cals' : cal' = [cal EXCEPT ![r] = k]
        BY <2>0, <2>6 DEF CreateCalendar, db, valkey
      <3> QED
        BY <1>1, <3>1 DEF CalendarsExist, LocalsType
    <2>7. CASE SaveCalendar(r)
      <3>1. /\ UNCHANGED <<ucache, scur, cals, u, cal>>
            /\ \/ user' \in {user, None}
               \/ user # None /\ user' = [user EXCEPT !.calendar = cal[r]]
        BY <2>0, <2>7 DEF SaveCalendar, valkey, google
      <3>2. cal[r] \in Cal /\ cal[r] \in cals
        BY <1>1, <2>7, SyncUserAssumption DEF LocalsHeld, RunHolds, SaveCalendar
      <3> QED
        BY <1>1, <3>1, <3>2 DEF CalendarsExist, DbType, User
    <2>8. CASE Unlock(r)
      BY <1>2, <2>0, <2>8 DEF Unlock, Clear, db, google, LocalsType
    <2>9. CASE MarkSyncing(r) \/ VerifyFails(r) \/ ListUnselected(r)
      BY <1>3, <2>0, <2>9 DEF MarkSyncing, VerifyFails, ListUnselected, Return, db, valkey, google
    <2>10. CASE DeleteEvent(r) \/ DeleteRow(r) \/ ReadSyncedCache(r)
      BY <1>3, <2>0, <2>10 DEF DeleteEvent, DeleteRow, ReadSyncedCache, Return, db, valkey, google
    <2>11. CASE ReadRows(r) \/ FillSyncedCache(r) \/ LoadContests(r)
      BY <1>3, <2>0, <2>11 DEF ReadRows, FillSyncedCache, LoadContests, Return, db, valkey, google
    <2>12. CASE InsertEvent(r) \/ RecordRow(r) \/ DropSyncedCache(r)
      BY <1>3, <2>0, <2>12 DEF InsertEvent, RecordRow, DropSyncedCache, Return, db, valkey, google
    <2>13. CASE Finish(r)
      BY <1>3, <2>0, <2>13 DEF Finish, Return, db, valkey, google
    <2> QED
      BY <1>4, <2>1, <2>2, <2>3, <2>4, <2>5, <2>6, <2>7, <2>8, <2>9, <2>10, <2>11, <2>12, <2>13 DEF RunStep
  <1>5. ASSUME NEW r \in Run, AcquireLock(r) PROVE CalendarsExist'
    BY <1>3, <1>5 DEF AcquireLock, db, google, web
  <1>6. ASSUME NEW r \in Run, Crash(r) PROVE CalendarsExist'
    BY <1>2, <1>6 DEF Crash, Clear, db, valkey, google, web, LocalsType
  <1>7. CASE (\E P \in SUBSET Platform, d \in Dedicated : Save(P, d)) \/ SaveStep
    <2>0. UNCHANGED <<cals, u, cal>>
      BY <1>7, SaveFrame
    <2>1. ASSUME NEW P, NEW d, Save(P, d) PROVE CalendarsExist'
      BY <1>2, <2>0, <2>1 DEF Save, db, valkey
    <2>2. CASE SaveReadUser
      BY <1>2, <2>0, <2>2 DEF SaveReadUser, SaveReturn, db, valkey
    <2>3. CASE SaveFillCache
      BY <1>2, <2>0, <2>3 DEF SaveFillCache, db
    <2>4. CASE SaveCompare
      BY <1>2, <2>0, <2>4 DEF SaveCompare, SaveReturn, db, valkey
    <2>5. CASE SaveUpdate
      <3>1. /\ UNCHANGED ucache /\ scur' \in {scur, None}
            /\ \/ user' \in {user, None}
               \/ user # None /\ user'.calendar \in {user.calendar, None}
        BY <2>5, SMTT(30) DEF SaveUpdate, SaveReturn, valkey
      <3> QED
        BY <1>1, <2>0, <3>1 DEF CalendarsExist
    <2>6. CASE SaveDropCache
      BY <1>2, <2>0, <2>6 DEF SaveDropCache, SaveReturn, db
    <2> QED
      BY <1>7, <2>1, <2>2, <2>3, <2>4, <2>5, <2>6 DEF SaveStep
  <1>8. CASE ExpireLock \/ Revoke
    BY <1>3, <1>8 DEF ExpireLock, Revoke, db, valkey, locals, google, web
  <1>9. CASE ExpireUserCache \/ ExpireSyncedCache
    BY <1>2, <1>9 DEF ExpireUserCache, ExpireSyncedCache, db, locals, google, web
  <1>10. CASE UNCHANGED vars
    BY <1>3, <1>10 DEF vars, db, valkey, google, locals, web
  <1> QED
    BY <1>4, <1>5, <1>6, <1>7, <1>8, <1>9, <1>10 DEF Next
-----------------------------------------------------------------------------
Undisturbed == expiries = 0 /\ serrs = 0

(* Expiries and failing store operations stay counted. *)
LEMMA UndisturbedBefore ==
    ASSUME FaultType, [Next]_vars, Undisturbed'
    PROVE  Undisturbed /\ ~StoreErr
  <1> USE ZenonT(30)
  <1>1. expiries \in Nat /\ serrs \in Nat /\ expiries' = 0 /\ serrs' = 0
    BY SyncUserAssumption, SMTT(30) DEF FaultType, Undisturbed
  <1>2. ~StoreErr
    BY <1>1, SMTT(30) DEF StoreErr
  <1>3. ASSUME Fine \/ GoogleErr PROVE Undisturbed
    BY <1>1, <1>3 DEF Fine, faults, GoogleErr, Undisturbed
  <1>4. ASSUME NEW r \in Run, RunStep(r) PROVE Undisturbed
    BY <1>2, <1>3, <1>4, RunWrites DEF Outcome
  <1>5. ASSUME NEW r \in Run, AcquireLock(r) \/ Crash(r) PROVE Undisturbed
    BY <1>2, <1>3, <1>5 DEF AcquireLock, Crash
  <1>6. ASSUME NEW P, NEW d, Save(P, d) PROVE Undisturbed
    BY <1>2, <1>3, <1>6 DEF Save
  <1>7. ASSUME SaveStep PROVE Undisturbed
    <2>1. Fine \/ StoreErr
      BY <1>7 DEF SaveStep, SaveReadUser, SaveFillCache, SaveCompare, SaveUpdate, SaveDropCache,
                  SaveReturn, Fine
    <2> QED
      BY <1>2, <1>3, <2>1
  <1>8. ASSUME ExpireLock PROVE Undisturbed
    BY <1>1, <1>8, SMTT(30) DEF ExpireLock, Undisturbed
  <1>9. ASSUME ExpireUserCache \/ ExpireSyncedCache \/ Revoke \/ UNCHANGED vars PROVE Undisturbed
    BY <1>3, <1>9 DEF ExpireUserCache, ExpireSyncedCache, Revoke, vars, Fine
  <1> QED
    BY <1>2, <1>4, <1>5, <1>6, <1>7, <1>8, <1>9 DEF Next

(* A step of a run that is alone and whose calls do not fail keeps what    *)
(* the run has found out.                                                  *)
LEMMA OwnRunInv ==
    ASSUME TypeOK, NEW r \in Run, RunInv(r), RunStep(r), ~StoreErr
    PROVE  RunInv(r)'
  <1> LocalsType /\ DbType
    BY ZenonT(30) DEF TypeOK
  <1> USE ZenonT(30) DEF RunInv, AfterCleanup, LocalsType
  <1>1. CASE ReadUserCache(r) \/ ReadUser(r) \/ FillUserCache(r)
    BY <1>1 DEF ReadUserCache, ReadUser, FillUserCache, Return, Goto
  <1>2. CASE MarkSyncing(r) \/ VerifyAccess(r) \/ VerifyFails(r)
    BY <1>2 DEF MarkSyncing, VerifyAccess, VerifyFails, Return, Goto
  <1>3. CASE DeleteUser(r) \/ ForgetUser(r) \/ CreateCalendar(r)
    BY <1>3 DEF DeleteUser, ForgetUser, CreateCalendar, Return, Goto
  <1>4. CASE SaveCalendar(r) \/ DropUserCache(r) \/ DropSyncedCache(r)
    BY <1>4 DEF SaveCalendar, DropUserCache, DropSyncedCache, Return, Goto
  <1>5. CASE Finish(r) \/ Unlock(r)
    BY <1>5 DEF Finish, Unlock, Return, Goto, Clear
  <1>6. CASE ListUnselected(r)
    BY <1>6, SMTT(30) DEF ListUnselected, Goto, db
  <1>7. CASE DeleteEvent(r)
    BY <1>7, SMTT(30) DEF DeleteEvent, Goto, db
  <1>8. CASE DeleteRow(r)
    BY <1>8 DEF DeleteRow, Goto
  <1>9. CASE ReadSyncedCache(r)
    BY <1>9 DEF ReadSyncedCache, Goto, db
  <1>10. CASE ReadRows(r)
    BY <1>10 DEF ReadRows, Goto, db
  <1>11. CASE FillSyncedCache(r)
    BY <1>11 DEF FillSyncedCache, Goto, db
  <1>12. CASE LoadContests(r)
    BY <1>12, SMTT(30) DEF LoadContests, Return, Goto, db
  <1>13. CASE InsertEvent(r)
    BY <1>13, SMTT(30) DEF InsertEvent, Goto, db
  <1>14. CASE RecordRow(r)
    BY <1>14 DEF RecordRow, Goto, google
  <1> QED
    BY <1>1, <1>2, <1>3, <1>4, <1>5, <1>6, <1>7, <1>8, <1>9, <1>10, <1>11, <1>12, <1>13, <1>14 DEF RunStep

(* While runs are alone and undisturbed, the rows a run has looked at      *)
(* change only under its own hands.                                        *)
LEMMA NextRunInv ==
    ASSUME TypeOK, OverlapBounded, Undisturbed => \A r \in Run : RunInv(r), [Next]_vars,
           Undisturbed'
    PROVE  \A r \in Run : RunInv(r)'
  <1> DEFINE Goal == \A r \in Run : RunInv(r)'
  <1> USE ZenonT(30)
  <1>1. FaultType /\ LocalsType
    BY DEF TypeOK
  <1>2. Undisturbed /\ ~StoreErr /\ expiries = 0
    BY <1>1, UndisturbedBefore DEF Undisturbed
  <1>3. \A r \in Run : RunInv(r)
    BY <1>2
  <1>4. ASSUME UNCHANGED <<rows, events, pc, u, cal, todo, cur>> PROVE Goal
    BY <1>3, <1>4 DEF RunInv
  <1>5. ASSUME NEW r \in Run, RunStep(r) PROVE Goal
    <2>1. RunInv(r)'
      BY <1>2, <1>3, <1>5, OwnRunInv
    <2>2. ASSUME NEW q \in Run, q # r PROVE RunInv(q)'
      <3>1. pc[q] = "idle"
        BY <1>1, <1>2, <1>5, <2>2, RunMoves, Exclusive
      <3>2. pc'[q] = "idle"
        BY <1>1, <1>5, <2>2, <3>1, OtherRuns
      <3> QED
        BY <3>2 DEF RunInv, AfterCleanup
    <2> QED
      BY <2>1, <2>2
  <1>6. ASSUME NEW r \in Run, AcquireLock(r) PROVE Goal
    <2>1. UNCHANGED <<rows, events, u, cal, todo, cur>> /\ pc' = [pc EXCEPT ![r] = "cache"]
      BY <1>2, <1>6 DEF AcquireLock, Goto, db, google
    <2> QED
      BY <1>1, <1>3, <2>1 DEF RunInv, AfterCleanup, LocalsType
  <1>7. ASSUME NEW r \in Run, Crash(r) PROVE Goal
    BY <1>2, <1>7 DEF Crash
  <1>8. CASE (\E P \in SUBSET Platform, d \in Dedicated : Save(P, d)) \/ SaveStep
    <2>1. UNCHANGED <<rows, events, pc, u, cal, todo, cur>>
      BY <1>8, SaveFrame
    <2> QED
      BY <1>4, <2>1
  <1>9. CASE ExpireLock \/ ExpireUserCache \/ ExpireSyncedCache \/ Revoke \/ UNCHANGED vars
    <2>1. UNCHANGED <<rows, events, pc, u, cal, todo, cur>>
      BY <1>9 DEF ExpireLock, ExpireUserCache, ExpireSyncedCache, Revoke, vars, db, google, locals
    <2> QED
      BY <1>4, <2>1
  <1> QED
    BY <1>5, <1>6, <1>7, <1>8, <1>9 DEF Next

Backed(c) ==
    \/ \E k \in cals \cup {"primary"} : <<k, c>> \in events
    \/ \E r \in Run : pc[r] = "cleanRow" /\ cur[r] = c

(* A step of a run keeps the events of the rows, whatever other runs do. *)
LEMMA OwnLedger ==
    ASSUME TypeOK, CalendarsExist, NEW r \in Run, RunHolds(r), RunInv(r), \A c \in rows : Backed(c),
           RunStep(r), ~StoreErr
    PROVE  \A c \in rows' : Backed(c)'
  <1> DEFINE Goal == \A c \in rows' : Backed(c)'
  <1> LocalsType /\ DbType
    BY ZenonT(30) DEF TypeOK
  <1> SUFFICES Goal
    BY ZenonT(30)
  <1> USE ZenonT(30) DEF LocalsType
  <1>1. ASSUME rows' \subseteq rows, events \subseteq events', cals \subseteq cals',
               \A q \in Run : pc[q] = "cleanRow" => pc'[q] = "cleanRow" /\ cur'[q] = cur[q]
        PROVE  Goal
    BY <1>1 DEF Backed
  <1>2. CASE ReadUserCache(r) \/ ReadUser(r) \/ FillUserCache(r)
    <2>1. rows' = rows /\ events' = events /\ cals \subseteq cals'
      BY <1>2 DEF ReadUserCache, ReadUser, FillUserCache, Return, Goto, db, google
    <2>2. \A q \in Run : pc[q] = "cleanRow" => pc'[q] = "cleanRow" /\ cur'[q] = cur[q]
      BY <1>2 DEF ReadUserCache, ReadUser, FillUserCache, Return, Goto, db, google
    <2> QED
      BY <1>1, <2>1, <2>2
  <1>3. CASE MarkSyncing(r) \/ VerifyAccess(r) \/ VerifyFails(r)
    <2>1. rows' = rows /\ events' = events /\ cals \subseteq cals'
      BY <1>3 DEF MarkSyncing, VerifyAccess, VerifyFails, Return, Goto, db, google
    <2>2. \A q \in Run : pc[q] = "cleanRow" => pc'[q] = "cleanRow" /\ cur'[q] = cur[q]
      BY <1>3 DEF MarkSyncing, VerifyAccess, VerifyFails, Return, Goto, db, google
    <2> QED
      BY <1>1, <2>1, <2>2
  <1>4. CASE ForgetUser(r) \/ CreateCalendar(r) \/ SaveCalendar(r)
    <2>1. rows' = rows /\ events' = events /\ cals \subseteq cals'
      BY <1>4, SMTT(30) DEF ForgetUser, CreateCalendar, SaveCalendar, Return, Goto, db, google
    <2>2. \A q \in Run : pc[q] = "cleanRow" => pc'[q] = "cleanRow" /\ cur'[q] = cur[q]
      BY <1>4 DEF ForgetUser, CreateCalendar, SaveCalendar, Return, Goto, db, google
    <2> QED
      BY <1>1, <2>1, <2>2
  <1>5. CASE DropUserCache(r) \/ ListUnselected(r) \/ ReadSyncedCache(r)
    <2>1. rows' = rows /\ events' = events /\ cals \subseteq cals'
      BY <1>5 DEF DropUserCache, ListUnselected, ReadSyncedCache, Return, Goto, db, google
    <2>2. \A q \in Run : pc[q] = "cleanRow" => pc'[q] = "cleanRow" /\ cur'[q] = cur[q]
      BY <1>5 DEF DropUserCache, ListUnselected, ReadSyncedCache, Return, Goto, db, google
    <2> QED
      BY <1>1, <2>1, <2>2
  <1>6. CASE ReadRows(r) \/ FillSyncedCache(r) \/ LoadContests(r)
    <2>1. rows' = rows /\ events' = events /\ cals \subseteq cals'
      BY <1>6 DEF ReadRows, FillSyncedCache, LoadContests, Return, Goto, db, google
    <2>2. \A q \in Run : pc[q] = "cleanRow" => pc'[q] = "cleanRow" /\ cur'[q] = cur[q]
      BY <1>6 DEF ReadRows, FillSyncedCache, LoadContests, Return, Goto, db, google
    <2> QED
      BY <1>1, <2>1, <2>2
  <1>7. CASE DropSyncedCache(r) \/ Finish(r) \/ Unlock(r)
    <2>1. rows' = rows /\ events' = events /\ cals \subseteq cals'
      BY <1>7 DEF DropSyncedCache, Finish, Unlock, Return, Goto, db, google, Clear
    <2>2. \A q \in Run : pc[q] = "cleanRow" => pc'[q] = "cleanRow" /\ cur'[q] = cur[q]
      BY <1>7 DEF DropSyncedCache, Finish, Unlock, Return, Goto, db, google, Clear
    <2> QED
      BY <1>1, <2>1, <2>2
  <1>8. CASE DeleteUser(r)
    BY <1>8 DEF DeleteUser
  <1>9. CASE DeleteEvent(r)
    BY <1>9, SMTT(30) DEF DeleteEvent, Goto, db, Backed
  <1>10. CASE DeleteRow(r)
    BY <1>10, SMTT(30) DEF DeleteRow, Goto, google, Backed
  <1>11. CASE InsertEvent(r)
    BY <1>11 DEF InsertEvent, Goto, db, Backed
  <1>12. CASE RecordRow(r)
    <2>1. cal[r] \in cals \cup {"primary"} /\ <<cal[r], cur[r]>> \in events
      BY <1>12, SyncUserAssumption DEF RecordRow, RunInv, RunHolds, CalendarsExist, AfterCleanup
    <2>2. rows' \subseteq rows \cup {cur[r]} /\ UNCHANGED <<events, cals>>
      BY <1>12 DEF RecordRow, google
    <2>3. \A q \in Run : pc[q] = "cleanRow" => pc'[q] = "cleanRow" /\ cur'[q] = cur[q]
      BY <1>12 DEF RecordRow, Goto
    <2>4. ASSUME NEW c, c = cur[r] PROVE Backed(c)'
      BY <2>1, <2>2, <2>4 DEF Backed
    <2>5. \A c \in rows : Backed(c)'
      BY <2>2, <2>3 DEF Backed
    <2>6. \A c \in rows' : c \in rows \/ c = cur[r]
      BY <2>2
    <2> QED
      BY <2>4, <2>5, <2>6
  <1> QED
    BY <1>2, <1>3, <1>4, <1>5, <1>6, <1>7, <1>8, <1>9, <1>10, <1>11, <1>12 DEF RunStep

(* No step takes the event of a row away while the runs are undisturbed. *)
LEMMA NextLedger ==
    ASSUME TypeOK, LocalsHeld, CalendarsExist, [Next]_vars, Undisturbed',
           Undisturbed => (\A c \in rows : Backed(c)) /\ \A r \in Run : RunInv(r)
    PROVE  \A c \in rows' : Backed(c)'
  <1> DEFINE Goal == \A c \in rows' : Backed(c)'
  <1> USE ZenonT(30)
  <1>1. FaultType /\ LocalsType
    BY DEF TypeOK
  <1>2. Undisturbed /\ ~StoreErr
    BY <1>1, UndisturbedBefore
  <1>3. (\A c \in rows : Backed(c)) /\ \A r \in Run : RunInv(r)
    BY <1>2
  <1>4. ASSUME UNCHANGED <<rows, cals, events, pc, cur>> PROVE Goal
    BY <1>3, <1>4 DEF Backed
  <1>5. ASSUME NEW r \in Run, RunStep(r) PROVE Goal
    BY <1>2, <1>3, <1>5, OwnLedger DEF LocalsHeld
  <1>6. ASSUME NEW r \in Run, AcquireLock(r) PROVE Goal
    <2>1. UNCHANGED <<rows, cals, events, cur>> /\ pc[r] = "idle" /\ pc' = [pc EXCEPT ![r] = "cache"]
      BY <1>2, <1>6 DEF AcquireLock, Goto, db, google
    <2> QED
      BY <1>1, <1>3, <2>1 DEF Backed, LocalsType
  <1>7. ASSUME NEW r \in Run, Crash(r) PROVE Goal
    BY <1>2, <1>7 DEF Crash
  <1>8. CASE (\E P \in SUBSET Platform, d \in Dedicated : Save(P, d)) \/ SaveStep
    <2>1. UNCHANGED <<rows, cals, events, pc, cur>>
      BY <1>8, SaveFrame
    <2> QED
      BY <1>4, <2>1
  <1>9. CASE ExpireLock \/ ExpireUserCache \/ ExpireSyncedCache \/ Revoke \/ UNCHANGED vars
    <2>1. UNCHANGED <<rows, cals, events, pc, cur>>
      BY <1>9 DEF ExpireLock, ExpireUserCache, ExpireSyncedCache, Revoke, vars, db, google, locals
    <2> QED
      BY <1>4, <2>1
  <1> QED
    BY <1>5, <1>6, <1>7, <1>8, <1>9 DEF Next

-----------------------------------------------------------------------------
(* The initial states have the types. *)
LEMMA InitTypes == Init => TypeOK /\ LocalsHeld
  <1> SUFFICES ASSUME Init PROVE TypeOK /\ LocalsHeld
    BY ZenonT(30)
  <1> USE ZenonT(30)
  <1>1. DbType
    BY SyncUserAssumption, SMTT(30) DEF Init, DbType, User
  <1>2. ValkeyType
    BY DEF Init, ValkeyType
  <1>3. GoogleType
    <2>1. revoked \in BOOLEAN
      BY DEF Init
    <2> QED
      BY <2>1 DEF Init, GoogleType
  <1>4. LocalsType
    <2>1. anySynced \in [Run -> BOOLEAN] /\ ok \in [Run -> BOOLEAN]
      BY DEF Init
    <2> QED
      BY <2>1 DEF Init, LocalsType
  <1>5. WebType
    BY SyncUserAssumption, SMTT(30) DEF Init, WebType
  <1>6. FaultType
    BY SyncUserAssumption, SMTT(30) DEF Init, FaultType
  <1>7. LocalsHeld
    BY DEF Init, LocalsHeld, SaveHolds, RunHolds, AfterCleanup
  <1> QED
    BY <1>1, <1>2, <1>3, <1>4, <1>5, <1>6, <1>7 DEF TypeOK

(* The initial states satisfy the inductive invariant. *)
LEMMA InitSyncInv == Init => SyncInv
  <1> SUFFICES ASSUME Init PROVE SyncInv
    BY ZenonT(30)
  <1> USE ZenonT(30)
  <1>1. OverlapBounded
    <2>1. Active \ {lock} = {} /\ expiries = 0
      BY DEF Init, Active
    <2> QED
      BY <2>1, FS_EmptySet, SMTT(30) DEF OverlapBounded
  <1>2. CalendarsExist
    BY SMTT(30) DEF Init, CalendarsExist
  <1>3. LedgerSound /\ \A r \in Run : RunInv(r)
    BY DEF Init, LedgerSound, RunInv, AfterCleanup
  <1> QED
    BY <1>1, <1>2, <1>3, InitTypes DEF SyncInv

(* SyncInv holds in every reachable state, for any platforms, contests,    *)
(* calendars and runs, and any number of faults.                           *)
THEOREM Invariance == Spec => []SyncInv
  <1>1. SyncInv /\ [Next]_vars => SyncInv'
    <2> SUFFICES ASSUME SyncInv, [Next]_vars PROVE SyncInv'
      BY ZenonT(30)
    <2> USE SMTT(30)
    <2>1. TypeOK /\ LocalsHeld /\ OverlapBounded /\ CalendarsExist
      BY ZenonT(30) DEF SyncInv
    <2>2. TypeOK' /\ LocalsHeld'
      BY <2>1, NextTypes, ZenonT(30)
    <2>3. OverlapBounded'
      BY <2>1, NextOverlap, ZenonT(30)
    <2>4. CalendarsExist'
      BY <2>1, NextCalendars, ZenonT(30)
    <2>5. ASSUME Undisturbed' PROVE LedgerSound' /\ \A r \in Run : RunInv(r)'
      <3>1. Undisturbed => (\A c \in rows : Backed(c)) /\ \A r \in Run : RunInv(r)
        BY ZenonT(30) DEF SyncInv, LedgerSound, Backed, Undisturbed
      <3>2. \A r \in Run : RunInv(r)'
        BY <2>1, <2>5, <3>1, NextRunInv, ZenonT(30)
      <3>3. \A c \in rows' : Backed(c)'
        BY <2>1, <2>5, <3>1, NextLedger, ZenonT(30)
      <3> QED
        BY <3>2, <3>3, ZenonT(30) DEF LedgerSound, Backed
    <2> QED
      BY <2>2, <2>3, <2>4, <2>5, ZenonT(30) DEF SyncInv, Undisturbed
  <1> QED
    BY InitSyncInv, <1>1, PTL DEF Spec

(* The row, the caches and the locals of the runs keep their types. *)
THEOREM TypeCorrect == Spec => []TypeOK
  <1>1. SyncInv => TypeOK
    BY ZenonT(30) DEF SyncInv
  <1> QED
    BY Invariance, <1>1, PTL

(* The runs inside SyncUser that do not own the lock never outnumber the   *)
(* expired locks: the bound behind "one run per user at a time".           *)
THEOREM Overlap == Spec => []OverlapBounded
  <1>1. SyncInv => OverlapBounded
    BY ZenonT(30) DEF SyncInv
  <1> QED
    BY Invariance, <1>1, PTL

(* Past the cleanup no row of an unselected platform is left. *)
THEOREM Selected == Spec => []NoUnselectedRows
  <1>1. SyncInv => NoUnselectedRows
    BY ZenonT(30) DEF SyncInv, NoUnselectedRows, RunInv
  <1> QED
    BY Invariance, <1>1, PTL

(* A contest recorded as synced has its event in some calendar. *)
THEOREM Ledger == Spec => []LedgerSound
  <1>1. SyncInv => LedgerSound
    BY ZenonT(30) DEF SyncInv, LedgerSound
  <1> QED
    BY Invariance, <1>1, PTL

(* Under the invariant every step of the runs, the saves and the           *)
(* environment is a step of BoundedMutex or leaves its state alone.        *)
LEMMA MutexStep ==
    ASSUME SyncInv, [Next]_vars PROVE [BM!BNext]_(BM!bvars)
  <1> USE ZenonT(30)
  <1> TypeOK /\ OverlapBounded
    BY DEF SyncInv
  <1> LocalsType /\ ValkeyType
    BY DEF TypeOK
  <1> DEFINE same == Active' = Active /\ expiries' = expiries
  <1>1. SUFFICES same \/ \E r \in Run : BM!Enter(r) \/ BM!Leave(r) \/ BM!Lose(r)
    BY DEF BM!BNext, BM!bvars
  <1>2. ASSUME NEW r \in Run, AcquireLock(r) PROVE same \/ BM!Enter(r)
    <2>1. /\ pc[r] = "idle" /\ lock = None /\ expiries' = expiries
          /\ pc' = pc \/ pc' = [pc EXCEPT ![r] = "cache"]
      BY <1>2 DEF AcquireLock, Goto, Fine, faults, StoreErr
    <2>2. Active \ {lock} = Active
      BY <2>1, SyncUserAssumption DEF Active
    <2>3. Cardinality(Active) <= expiries
      BY <2>2 DEF OverlapBounded
    <2>4. CASE pc' = pc
      BY <2>1, <2>4 DEF Active
    <2>5. CASE pc' = [pc EXCEPT ![r] = "cache"]
      <3>1. r \notin Active /\ Active' = Active \cup {r}
        BY <2>1, <2>5 DEF Active, LocalsType
      <3> QED
        BY <2>1, <2>3, <3>1 DEF BM!Enter, BM!Cardinality, Cardinality
    <2> QED
      BY <2>1, <2>4, <2>5
  <1>3. ASSUME NEW r \in Run, pc[r] # "idle", pc' = [pc EXCEPT ![r] = "idle"], expiries' = expiries
        PROVE  BM!Leave(r)
    <2>1. r \in Active /\ Active' = Active \ {r}
      BY <1>3 DEF Active, LocalsType
    <2> QED
      BY <1>3, <2>1 DEF BM!Leave
  <1>4. ASSUME NEW r \in Run, RunStep(r) PROVE same \/ BM!Leave(r)
    <2>1. pc[r] # "idle" /\ expiries' = expiries
      BY <1>4, RunMoves
    <2>2. CASE Unlock(r)
      <3>1. pc' = [pc EXCEPT ![r] = "idle"]
        BY <2>2 DEF Unlock, Clear, Goto
      <3> QED
        BY <1>3, <2>1, <3>1
    <2>3. CASE ~Unlock(r)
      <3>1. pc'[r] # "idle" /\ \A q \in Run : q # r => pc'[q] = pc[q]
        BY <1>4, <2>3, RunMoves, OtherRuns
      <3>2. Active' = Active
        BY <2>1, <3>1 DEF Active
      <3> QED
        BY <2>1, <3>2
    <2> QED
      BY <2>2, <2>3
  <1>5. ASSUME NEW r \in Run, Crash(r) PROVE BM!Leave(r)
    <2>1. pc[r] # "idle" /\ expiries' = expiries /\ pc' = [pc EXCEPT ![r] = "idle"]
      BY <1>5 DEF Crash, Clear, Goto, StoreErr
    <2> QED
      BY <1>3, <2>1
  <1>6. CASE ExpireLock
    <2>1. lock \in Run /\ pc' = pc /\ Active' = Active
      BY <1>6 DEF ExpireLock, ValkeyType, locals, Active
    <2>2. CASE pc[lock] = "idle"
      BY <1>6, <2>1, <2>2 DEF ExpireLock
    <2>3. CASE pc[lock] # "idle"
      <3>1. lock \in Active /\ expiries' = expiries + 1
        BY <1>6, <2>1, <2>3 DEF ExpireLock, Active
      <3>2. BM!Lose(lock)
        BY <2>1, <3>1 DEF BM!Lose
      <3> QED
        BY <2>1, <3>2
    <2> QED
      BY <2>2, <2>3
  <1>7. ASSUME UNCHANGED <<pc, expiries>> PROVE same
    BY <1>7 DEF Active
  <1>8. CASE (\E P \in SUBSET Platform, d \in Dedicated : Save(P, d)) \/ SaveStep
    <2>1. UNCHANGED <<pc, expiries>>
      BY <1>8, SaveFrame
    <2> QED
      BY <1>7, <2>1
  <1>9. CASE ExpireUserCache \/ ExpireSyncedCache \/ Revoke
    BY <1>7, <1>9 DEF ExpireUserCache, ExpireSyncedCache, Revoke, GoogleErr, locals, faults
  <1>10. CASE UNCHANGED vars
    BY <1>7, <1>10 DEF vars, locals, faults
  <1> HIDE DEF same
  <1> QED
    BY <1>2, <1>4, <1>5, <1>6, <1>8, <1>9, <1>10 DEF Next

(* The lock of a user implements the bounded mutex. *)
THEOREM MutexImplemented == Spec => ImplementsMutex
  <1>1. Init => BM!BInit
    BY ZenonT(30) DEF Init, BM!BInit, Active
  <1>2. SyncInv /\ [Next]_vars => [BM!BNext]_(BM!bvars)
    BY MutexStep
  <1> QED
    BY Invariance, <1>1, <1>2, PTL DEF Spec, ImplementsMutex, BM!BSpec
=============================================================================
