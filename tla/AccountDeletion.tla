---------------------------- MODULE AccountDeletion ----------------------------
(***************************************************************************)
(* DeleteAccount of internal/api against the syncs and preference saves of *)
(* the same user (module SyncUser): the request itself and the background  *)
(* goroutine that cleans up at Google and revokes the grant.               *)
(***************************************************************************)
EXTENDS SyncUser

CONSTANTS
    MaxDeletes, \* bound: DeleteAccount requests (there is one background cleanup)
    DeleteCap   \* events the cleanup deletes at most (200)

ASSUME DeletionAssumption ==
    /\ MaxDeletes \in {0, 1} /\ DeleteCap \in Nat
    /\ IsFiniteSet(Contest)

VARIABLES
    dpc,      \* request: idle | list | delete | drop
    dgoogle,  \* delete_google_data
    dcal,     \* calendarID as read, until the cleanup has it
    bpc,      \* background cleanup: none | google | revoke | done | dead
    bcal, blist,
    deletes   \* history: requests so far

request    == <<dpc, dgoogle, dcal, deletes>>
background == <<bpc, bcal, blist>>
dvars      == <<request, background>>

DInit ==
    /\ Init
    /\ dpc = "idle" /\ dgoogle = FALSE /\ dcal = None
    /\ bpc = "none" /\ bcal = None /\ blist = {}
    /\ deletes = 0

(* The users row is read; without one there is nothing to delete, and with *)
(* another error the row is deleted all the same, without a cleanup.       *)
DeleteAccount(g) ==
    /\ dpc = "idle" /\ deletes < MaxDeletes
    /\ deletes' = deletes + 1
    /\ dgoogle' = g
    /\ \/ user # None /\ dcal' = user.calendar /\ dpc' = "list" /\ Fine
       \/ user = None /\ UNCHANGED dcal /\ dpc' = "idle" /\ Fine
       \/ UNCHANGED dcal /\ dpc' = "delete" /\ StoreErr
    /\ UNCHANGED <<db, valkey, google, locals, web, background>>

(* The events the cleanup takes on: at most DeleteCap, in no order. *)
ToDelete(S) ==
    LET n == IF Cardinality(S) > DeleteCap THEN DeleteCap ELSE Cardinality(S)
    IN  {L \in SUBSET S : Cardinality(L) = n}

(* Mutant: the list is not capped. *)
ListEventsUncapped ==
    /\ dpc = "list"
    /\ blist' = (IF dgoogle THEN rows ELSE {}) /\ Fine
    /\ bpc' = (IF dgoogle THEN "google" ELSE "revoke")
    /\ bcal' = dcal
    /\ dpc' = "delete" /\ dcal' = None
    /\ UNCHANGED <<db, valkey, google, locals, web, dgoogle, deletes>>

(* The ids of the synced events are read and the cleanup is started.  A    *)
(* stored token that cannot be decrypted means no cleanup at all, and the  *)
(* deletion goes on without one.                                           *)
ListEvents ==
    /\ dpc = "list"
    /\ \/ /\ \/ blist' \in ToDelete(IF dgoogle THEN rows ELSE {}) /\ Fine
             \/ dgoogle /\ blist' = {} /\ StoreErr
          /\ bpc' = IF dgoogle THEN "google" ELSE "revoke"
          /\ bcal' = dcal
       \/ StoreErr /\ UNCHANGED background
    /\ dpc' = "delete" /\ dcal' = None
    /\ UNCHANGED <<db, valkey, google, locals, web, dgoogle, deletes>>

(* DELETE FROM users, and by cascade synced_events. *)
DeleteUserRow ==
    /\ dpc = "delete"
    /\ \/ user' = None /\ rows' = {} /\ dpc' = "drop" /\ Fine
       \/ UNCHANGED <<user, rows>> /\ dpc' = "idle" /\ StoreErr
    /\ UNCHANGED <<status, valkey, google, locals, web, dgoogle, dcal, deletes, background>>

DropDeletedUser ==
    /\ dpc = "drop"
    /\ \/ ucache' = None /\ Fine
       \/ UNCHANGED ucache /\ StoreErr
    /\ dpc' = "idle"
    /\ UNCHANGED <<db, lock, secache, google, locals, web, dgoogle, dcal, deletes, background>>

(* The cleanup: the dedicated calendar if the row named one, otherwise the *)
(* listed events of the primary calendar, one after the other in any order *)
(* (they are deleted concurrently); failures are logged.  After an answer  *)
(* of 400 or 401 (badToken) the events not yet begun are left out.         *)
CleanCalendar ==
    /\ bpc = "google" /\ bcal # None
    /\ \/ /\ Granted
          /\ cals' = cals \ {bcal}
          /\ events' = {e \in events : e[1] # bcal}
       \/ UNCHANGED <<cals, events>> /\ GoogleFails
    /\ bpc' = "revoke" /\ bcal' = None
    /\ UNCHANGED <<db, valkey, revoked, locals, web, request, blist>>

CleanEvent(c) ==
    /\ bpc = "google" /\ bcal = None /\ c \in blist
    /\ \/ events' = events \ {<<"primary", c>>} /\ blist' = blist \ {c} /\ Granted
       \/ UNCHANGED events /\ blist' \in SUBSET (blist \ {c}) /\ GoogleFails
    /\ UNCHANGED <<db, valkey, cals, revoked, locals, web, request, bpc, bcal>>

(* Mutant: without events to delete the cleanup returns early. *)
CleanupOverReturns ==
    /\ bpc = "google" /\ bcal = None /\ blist = {} /\ Fine
    /\ bpc' = "done"
    /\ UNCHANGED <<db, valkey, google, locals, web, request, bcal, blist>>

(* All events are dealt with, or the deadline of 10 to 20 seconds passed,  *)
(* which a long list reaches without any failure.                          *)
CleanupOver ==
    /\ bpc = "google" /\ bcal = None /\ Fine
    /\ bpc' = "revoke" /\ blist' = {}
    /\ UNCHANGED <<db, valkey, google, locals, web, request, bcal>>

RevokeGrant ==
    /\ bpc = "revoke"
    /\ \/ revoked' = TRUE /\ Fine
       \/ UNCHANGED revoked /\ GoogleErr
    /\ bpc' = "done" /\ bcal' = None
    /\ UNCHANGED <<db, valkey, cals, events, locals, web, request, blist>>

(* The server process dies: request and cleanup are gone. *)
ServerCrash ==
    /\ StoreErr
    /\ dpc # "idle" \/ bpc \in {"google", "revoke"}
    /\ dpc' = "idle" /\ dcal' = None
    /\ bpc' = (IF bpc \in {"google", "revoke"} THEN "dead" ELSE bpc) /\ bcal' = None /\ blist' = {}
    /\ UNCHANGED <<db, valkey, google, locals, web, dgoogle, deletes>>

RequestStep == ListEvents \/ DeleteUserRow \/ DropDeletedUser

CleanupStep == CleanCalendar \/ (\E c \in Contest : CleanEvent(c)) \/ CleanupOver \/ RevokeGrant

DNext ==
    \/ Next /\ UNCHANGED dvars
    \/ \E g \in BOOLEAN : DeleteAccount(g)
    \/ RequestStep \/ CleanupStep \/ ServerCrash

DSpec == DInit /\ [][DNext]_<<vars, dvars>>

(* The request and the cleanup go on, and the cached user has a TTL.  The  *)
(* syncs and saves they meet may stop anywhere.                            *)
DFairSpec ==
    /\ DSpec
    /\ WF_<<vars, dvars>>(RequestStep) /\ WF_<<vars, dvars>>(CleanupStep)
    /\ WF_<<vars, dvars>>(ExpireUserCache /\ UNCHANGED dvars)
-----------------------------------------------------------------------------
RequestType ==
    /\ dpc \in {"idle", "list", "delete", "drop"}
    /\ dgoogle \in BOOLEAN
    /\ dcal \in Cal \cup {None}
    /\ deletes \in 0 .. MaxDeletes

CleanupType ==
    /\ bpc \in {"none", "google", "revoke", "done", "dead"}
    /\ bcal \in Cal \cup {None}
    /\ blist \subseteq Contest /\ Cardinality(blist) <= DeleteCap

(* Every variable keeps its type, and the cleanup has at most DeleteCap    *)
(* events to delete.                                                       *)
DTypeOK == TypeOK /\ RequestType /\ CleanupType

(* A sync in flight never brings ledger rows of a deleted user back: the   *)
(* row for an event it inserted meanwhile is refused.                      *)
NoRowsWithoutUser == user = None => rows = {}

(* The inductive invariant: a deletion in between neither takes from the   *)
(* runs what they hold nor lets a second one in.                           *)
DIndInv == DTypeOK /\ LocalsHeld /\ OverlapBounded /\ NoRowsWithoutUser

(* "immediately revokes your Google OAuth refresh token"                   *)
(* (web/static/privacy.html:202): once the request has deleted the row,    *)
(* the grant is revoked in the end, with or without a cleanup to do first, *)
(* unless a call failed (failures are logged and not retried) or the       *)
(* process died.                                                           *)
GrantRevoked == (dpc = "drop") ~> (revoked \/ gerrs + serrs > 0)

(* A deleted user is forgotten: the profile a concurrent sync or save put  *)
(* back into the cache after the deletion is gone in the end, for good.    *)
EventuallyForgotten == <>[](user = None => ucache = None)

(* "removes all synced ContestSync events from your Google Calendar"       *)
(* (web/static/privacy.html:204): once a deletion that includes the Google *)
(* data and its cleanup are over, no event is left.                        *)
EventsPurged ==
    dgoogle /\ dpc = "idle" /\ bpc = "done" /\ user = None /\ Active = {} => events = {}
=============================================================================
