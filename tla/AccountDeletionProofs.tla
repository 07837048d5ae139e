------------------------- MODULE AccountDeletionProofs -------------------------
(***************************************************************************)
(* Proofs about AccountDeletion: a deletion among any number of syncs of   *)
(* the user, with any number of contests and any cap.                      *)
(***************************************************************************)
EXTENDS AccountDeletion, SyncUserProofs

(* The part of a list that the cap leaves has at most DeleteCap events. *)
LEMMA Capped ==
    ASSUME NEW S \in SUBSET Contest, NEW L \in ToDelete(S)
    PROVE  L \subseteq S /\ Cardinality(L) <= DeleteCap
  <1>1. Cardinality(S) \in Nat
    BY DeletionAssumption, FS_Subset, FS_CardinalityType
  <1> QED
    BY <1>1, DeletionAssumption, SMTT(30) DEF ToDelete

(* Taking events off the list of the cleanup keeps it within the cap. *)
LEMMA Shrinks ==
    ASSUME NEW S \in SUBSET Contest, Cardinality(S) <= DeleteCap, NEW T \in SUBSET S
    PROVE  Cardinality(T) <= DeleteCap
  <1>1. IsFiniteSet(S)
    BY DeletionAssumption, FS_Subset
  <1>2. /\ Cardinality(S) \in Nat /\ Cardinality(T) \in Nat
        /\ Cardinality(T) <= Cardinality(S)
    BY <1>1, FS_Subset, FS_CardinalityType
  <1> QED
    BY <1>2, DeletionAssumption, SMTT(30)

(* Only the request that deletes the user and the sync that finds the      *)
(* grant revoked leave no row, and they take the ledger along.             *)
LEMMA NextCascade ==
    ASSUME TypeOK, LocalsHeld, NoRowsWithoutUser, [Next]_vars
    PROVE  NoRowsWithoutUser'
  <1> USE SMTT(30)
  <1> /\ DbType /\ LocalsType
    BY DEF TypeOK
  <1>1. ASSUME UNCHANGED <<user, rows>> PROVE NoRowsWithoutUser'
    BY <1>1 DEF NoRowsWithoutUser
  <1>2. ASSUME NEW r \in Run, RunStep(r) PROVE NoRowsWithoutUser'
    <2>1. CASE UNCHANGED db
      BY <1>1, <2>1 DEF db
    <2>2. CASE MarkSyncing(r) \/ Finish(r)
      BY <1>1, <2>2 DEF MarkSyncing, Finish
    <2>3. CASE DeleteUser(r)
      BY <2>3 DEF DeleteUser, NoRowsWithoutUser
    <2>4. CASE SaveCalendar(r)
      <3>1. user # None => user' # None
        BY <2>4, UserUpdates, SyncUserAssumption DEF SaveCalendar, DbType, LocalsHeld, RunHolds
      <3> QED
        BY <2>4, <3>1 DEF SaveCalendar, NoRowsWithoutUser
    <2>5. CASE DeleteRow(r)
      BY <2>5 DEF DeleteRow, NoRowsWithoutUser
    <2>6. CASE RecordRow(r)
      BY <2>6 DEF RecordRow, NoRowsWithoutUser
    <2> QED
      BY <1>2, <2>1, <2>2, <2>3, <2>4, <2>5, <2>6, RunWrites, ZenonT(30) DEF WritesDb
  <1>3. ASSUME NEW r \in Run, AcquireLock(r) \/ Crash(r) PROVE NoRowsWithoutUser'
    BY <1>1, <1>3 DEF AcquireLock, Crash, db
  <1>4. ASSUME NEW P, NEW d, Save(P, d) PROVE NoRowsWithoutUser'
    BY <1>1, <1>4 DEF Save, db
  <1>5. ASSUME SaveReadUser \/ SaveFillCache \/ SaveCompare \/ SaveDropCache
        PROVE  NoRowsWithoutUser'
    BY <1>1, <1>5 DEF SaveReadUser, SaveFillCache, SaveCompare, SaveDropCache, db
  <1>6. ASSUME SaveUpdate PROVE NoRowsWithoutUser'
    <2>1. user # None => user' # None
      BY <1>6, UserUpdates, SyncUserAssumption DEF SaveUpdate, DbType, LocalsHeld, SaveHolds
    <2> QED
      BY <1>6, <2>1 DEF SaveUpdate, NoRowsWithoutUser
  <1>7. ASSUME ExpireLock \/ ExpireUserCache \/ ExpireSyncedCache \/ Revoke \/ UNCHANGED vars
        PROVE  NoRowsWithoutUser'
    BY <1>1, <1>7 DEF ExpireLock, ExpireUserCache, ExpireSyncedCache, Revoke, vars, db
  <1> QED
    BY <1>2, <1>3, <1>4, <1>5, <1>6, <1>7, ZenonT(30) DEF Next, SaveStep

(* Request and cleanup leave the runs, the lock and the saves alone. *)
LEMMA DeletionFrame ==
    ASSUME (\E g \in BOOLEAN : DeleteAccount(g)) \/ RequestStep \/ CleanupStep \/ ServerCrash
    PROVE  UNCHANGED <<locals, web, lock, secache>> /\ (Fine \/ GoogleErr \/ StoreErr)
  <1> DEFINE Goal == UNCHANGED <<locals, web, lock, secache>> /\ (Fine \/ GoogleErr \/ StoreErr)
  <1> USE SMTT(30) DEF valkey, Granted, GoogleFails
  <1>1. ASSUME NEW g, DeleteAccount(g) PROVE Goal
    BY <1>1 DEF DeleteAccount
  <1>2. ASSUME ListEvents \/ DeleteUserRow \/ DropDeletedUser PROVE Goal
    BY <1>2 DEF ListEvents, DeleteUserRow, DropDeletedUser
  <1>3. ASSUME CleanCalendar \/ CleanupOver \/ RevokeGrant PROVE Goal
    BY <1>3 DEF CleanCalendar, CleanupOver, RevokeGrant
  <1>4. ASSUME NEW c, CleanEvent(c) PROVE Goal
    BY <1>4 DEF CleanEvent
  <1>5. ASSUME ServerCrash PROVE Goal
    BY <1>5 DEF ServerCrash
  <1> QED
    BY <1>1, <1>2, <1>3, <1>4, <1>5, ZenonT(30) DEF RequestStep, CleanupStep

(* Request and cleanup keep the types of the stores and their own. *)
LEMMA DeletionTypes ==
    ASSUME DTypeOK, NoRowsWithoutUser,
           (\E g \in BOOLEAN : DeleteAccount(g)) \/ RequestStep \/ CleanupStep \/ ServerCrash
    PROVE  DbType' /\ ValkeyType' /\ GoogleType' /\ RequestType' /\ CleanupType' /\ NoRowsWithoutUser'
  <1> DEFINE Goal == /\ DbType' /\ ValkeyType' /\ GoogleType' /\ RequestType' /\ CleanupType'
                     /\ NoRowsWithoutUser'
  <1> /\ DbType /\ ValkeyType /\ GoogleType /\ RequestType /\ CleanupType
    BY DEF DTypeOK, TypeOK
  <1> USE SMTT(30)
  <1>1. /\ UNCHANGED db => DbType' /\ NoRowsWithoutUser'
        /\ UNCHANGED valkey => ValkeyType'
        /\ UNCHANGED google => GoogleType'
        /\ UNCHANGED request => RequestType'
        /\ UNCHANGED background => CleanupType'
    BY DEF db, valkey, google, request, background, DbType, NoRowsWithoutUser, ValkeyType,
           GoogleType, RequestType, CleanupType
  <1>2. ASSUME NEW g \in BOOLEAN, DeleteAccount(g) PROVE Goal
    <2>1. dcal' \in Cal \cup {None} /\ dpc' \in {"idle", "list", "delete", "drop"}
      BY <1>2 DEF DeleteAccount, DbType, User, RequestType
    <2>2. deletes' \in 0 .. MaxDeletes
      BY <1>2, DeletionAssumption DEF DeleteAccount, RequestType
    <2>3. dgoogle' \in BOOLEAN
      BY <1>2, ZenonT(30) DEF DeleteAccount
    <2>4. UNCHANGED db /\ UNCHANGED valkey /\ UNCHANGED google /\ UNCHANGED background
      BY <1>2 DEF DeleteAccount
    <2> QED
      BY <1>1, <2>1, <2>2, <2>3, <2>4, ZenonT(30) DEF RequestType
  <1>3. ASSUME ListEvents PROVE Goal
    <2>1. (IF dgoogle THEN rows ELSE {}) \in SUBSET Contest
      BY DEF DbType
    <2>2. blist' \subseteq Contest /\ Cardinality(blist') <= DeleteCap
      <3>1. CASE UNCHANGED background
        BY <3>1 DEF background, CleanupType
      <3>2. CASE blist' \in ToDelete(IF dgoogle THEN rows ELSE {})
        BY <2>1, <3>2, Capped
      <3>3. CASE blist' = {}
        BY <3>3, FS_EmptySet, DeletionAssumption
      <3> QED
        BY <1>3, <3>1, <3>2, <3>3, ZenonT(30) DEF ListEvents
    <2>3. RequestType'
      <3>1. dgoogle' \in BOOLEAN
        BY <1>3, ZenonT(30) DEF ListEvents, RequestType
      <3> QED
        BY <1>3, <3>1 DEF ListEvents, RequestType
    <2>4. CleanupType'
      BY <1>3, <2>2 DEF ListEvents, CleanupType, RequestType, background
    <2>5. UNCHANGED db /\ UNCHANGED valkey /\ UNCHANGED google
      BY <1>3 DEF ListEvents
    <2> QED
      BY <1>1, <2>3, <2>4, <2>5
  <1>4. ASSUME DeleteUserRow PROVE Goal
    <2>1. DbType' /\ NoRowsWithoutUser'
      BY <1>4 DEF DeleteUserRow, DbType, NoRowsWithoutUser
    <2>2. RequestType'
      BY <1>4, ZenonT(30) DEF DeleteUserRow, RequestType
    <2>3. UNCHANGED valkey /\ UNCHANGED google /\ UNCHANGED background
      BY <1>4 DEF DeleteUserRow
    <2> QED
      BY <1>1, <2>1, <2>2, <2>3
  <1>5. ASSUME DropDeletedUser PROVE Goal
    <2>1. ValkeyType'
      BY <1>5 DEF DropDeletedUser, ValkeyType
    <2>2. RequestType'
      BY <1>5, ZenonT(30) DEF DropDeletedUser, RequestType
    <2>3. UNCHANGED db /\ UNCHANGED google /\ UNCHANGED background
      BY <1>5 DEF DropDeletedUser
    <2> QED
      BY <1>1, <2>1, <2>2, <2>3
  <1>6. ASSUME CleanCalendar PROVE Goal
    <2>1. GoogleType' /\ CleanupType'
      BY <1>6 DEF CleanCalendar, GoogleType, CleanupType
    <2>2. UNCHANGED db /\ UNCHANGED valkey /\ UNCHANGED request
      BY <1>6 DEF CleanCalendar
    <2> QED
      BY <1>1, <2>1, <2>2
  <1>7. ASSUME NEW c, CleanEvent(c) PROVE Goal
    <2>1. GoogleType'
      BY <1>7 DEF CleanEvent, GoogleType
    <2>2. CleanupType'
      <3>1. blist' \in SUBSET blist /\ bpc' = bpc /\ bcal' = bcal
        BY <1>7, ZenonT(30) DEF CleanEvent
      <3> QED
        BY <3>1, Shrinks DEF CleanupType
    <2>3. UNCHANGED db /\ UNCHANGED valkey /\ UNCHANGED request
      BY <1>7 DEF CleanEvent
    <2> QED
      BY <1>1, <2>1, <2>2, <2>3
  <1>8. ASSUME CleanupOver PROVE Goal
    <2>1. CleanupType'
      BY <1>8, FS_EmptySet, DeletionAssumption DEF CleanupOver, CleanupType
    <2>2. UNCHANGED db /\ UNCHANGED valkey /\ UNCHANGED google /\ UNCHANGED request
      BY <1>8 DEF CleanupOver
    <2> QED
      BY <1>1, <2>1, <2>2
  <1>9. ASSUME RevokeGrant PROVE Goal
    <2>1. revoked' \in BOOLEAN
      BY <1>9, ZenonT(30) DEF RevokeGrant, GoogleType
    <2>2. GoogleType' /\ CleanupType'
      BY <1>9, <2>1 DEF RevokeGrant, GoogleType, CleanupType
    <2>3. UNCHANGED db /\ UNCHANGED valkey /\ UNCHANGED request
      BY <1>9 DEF RevokeGrant
    <2> QED
      BY <1>1, <2>2, <2>3
  <1>10. ASSUME ServerCrash PROVE Goal
    <2>1. CleanupType'
      BY <1>10, FS_EmptySet, DeletionAssumption DEF ServerCrash, CleanupType
    <2>2. RequestType'
      BY <1>10, ZenonT(30) DEF ServerCrash, RequestType
    <2>3. UNCHANGED db /\ UNCHANGED valkey /\ UNCHANGED google
      BY <1>10 DEF ServerCrash
    <2> QED
      BY <1>1, <2>1, <2>2, <2>3
  <1> QED
    BY <1>2, <1>3, <1>4, <1>5, <1>6, <1>7, <1>8, <1>9, <1>10, ZenonT(30)
       DEF RequestStep, CleanupStep
-----------------------------------------------------------------------------
(* The initial states satisfy the inductive invariant. *)
LEMMA DInitIndInv == DInit => DIndInv
  <1> SUFFICES ASSUME DInit PROVE DIndInv
    OBVIOUS
  <1> USE SMTT(30)
  <1>1. TypeOK /\ LocalsHeld /\ OverlapBounded
    BY InitSyncInv DEF DInit, SyncInv
  <1>2. RequestType
    <2>1. dgoogle \in BOOLEAN
      BY ZenonT(30) DEF DInit
    <2> QED
      BY <2>1, DeletionAssumption DEF DInit, RequestType
  <1>3. CleanupType
    BY FS_EmptySet, DeletionAssumption DEF DInit, CleanupType
  <1>4. NoRowsWithoutUser
    BY DEF DInit, Init, NoRowsWithoutUser
  <1> QED
    BY <1>1, <1>2, <1>3, <1>4 DEF DIndInv, DTypeOK

(* DIndInv holds in every reachable state of DeleteAccount and its cleanup *)
(* beside syncs and saves.                                                 *)
THEOREM DInvariance == DSpec => []DIndInv
  <1>1. DIndInv /\ [DNext]_<<vars, dvars>> => DIndInv'
    <2> SUFFICES ASSUME DIndInv, [DNext]_<<vars, dvars>> PROVE DIndInv'
      OBVIOUS
    <2> USE SMTT(30)
    <2>1. /\ DTypeOK /\ TypeOK /\ RequestType /\ CleanupType /\ LocalsHeld /\ OverlapBounded
          /\ NoRowsWithoutUser
      BY DEF DIndInv, DTypeOK
    <2>2. ASSUME [Next]_vars, UNCHANGED dvars PROVE DIndInv'
      <3>1. TypeOK' /\ LocalsHeld' /\ OverlapBounded' /\ NoRowsWithoutUser'
        BY <2>1, <2>2, NextTypes, NextOverlap, NextCascade
      <3>2. RequestType' /\ CleanupType'
        BY <2>1, <2>2 DEF RequestType, CleanupType, dvars, request, background
      <3> QED
        BY <3>1, <3>2 DEF DIndInv, DTypeOK
    <2>3. ASSUME \/ \E g \in BOOLEAN : DeleteAccount(g)
                 \/ RequestStep \/ CleanupStep \/ ServerCrash
          PROVE  DIndInv'
      <3>1. UNCHANGED <<locals, web, lock, secache>> /\ (Fine \/ GoogleErr \/ StoreErr)
        BY <2>3, DeletionFrame
      <3>2. /\ DbType' /\ ValkeyType' /\ GoogleType' /\ RequestType' /\ CleanupType'
            /\ NoRowsWithoutUser'
        BY <2>1, <2>3, DeletionTypes
      <3>3. LocalsType' /\ WebType' /\ FaultType' /\ \A r \in Run : RunHolds(r)'
        BY <2>1, <3>1, TypeFrame, FaultTypes DEF TypeOK, LocalsHeld
      <3>4. SaveHolds'
        BY <2>1, <3>1 DEF LocalsHeld, SaveHolds, web
      <3>5. OverlapBounded'
        <4>1. UNCHANGED <<pc, lock, expiries>>
          BY <3>1 DEF locals, Fine, faults, GoogleErr, StoreErr
        <4> QED
          BY <2>1, <4>1 DEF OverlapBounded, Active
      <3> QED
        BY <3>2, <3>3, <3>4, <3>5 DEF DIndInv, DTypeOK, TypeOK, LocalsHeld
    <2>4. ASSUME UNCHANGED <<vars, dvars>> PROVE DIndInv'
      BY <2>2, <2>4
    <2> QED
      BY <2>2, <2>3, <2>4, ZenonT(30) DEF DNext
  <1> QED
    BY DInitIndInv, <1>1, PTL DEF DSpec

(* The variables of the deletion keep their types, and the cleanup never   *)
(* has more than DeleteCap events to delete.                               *)
THEOREM DTypeCorrect == DSpec => []DTypeOK
  <1>1. DIndInv => DTypeOK
    BY DEF DIndInv
  <1> QED
    BY DInvariance, <1>1, PTL

(* With the foreign key and the cascade, no sync in flight brings ledger   *)
(* rows of a deleted user back.                                            *)
THEOREM Cascade == DSpec => []NoRowsWithoutUser
  <1>1. DIndInv => NoRowsWithoutUser
    BY DEF DIndInv
  <1> QED
    BY DInvariance, <1>1, PTL

(* A deletion, which takes no lock, adds no overlap between runs. *)
THEOREM DOverlap == DSpec => []OverlapBounded
  <1>1. DIndInv => OverlapBounded
    BY DEF DIndInv
  <1> QED
    BY DInvariance, <1>1, PTL
=============================================================================
