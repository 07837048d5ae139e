--------------------------- MODULE ExtractionProofs ---------------------------
(***************************************************************************)
(* Proofs about Extraction for any number of tasks, readers, start times   *)
(* and names.                                                              *)
(***************************************************************************)
EXTENDS Extraction, WellFoundedInduction, TLAPS

(* A set of names that is not empty has a last one. *)
LEMMA MaxTitle ==
    ASSUME NEW S \in SUBSET Title, S # {}
    PROVE  Max(S) \in S /\ \A t \in S : t <= Max(S)
  <1> DEFINE T == {Titles - t : t \in S}
  <1>1. S \subseteq Nat /\ Titles \in Nat /\ \A t \in S : t <= Titles
    BY ExtractionAssumption, SMTT(30) DEF Title
  <1>2. T \subseteq Nat /\ T # {}
    <2>1. ASSUME NEW t \in S PROVE Titles - t \in Nat
      BY <1>1, SMTT(30)
    <2>2. PICK t \in S : TRUE
      BY SMTT(30)
    <2>3. Titles - t \in T
      OBVIOUS
    <2> QED
      BY <2>1, <2>3, ZenonT(30)
  <1> DEFINE R == {p \in Nat \X Nat : p[1] < p[2]}
  <1>3. IsWellFoundedOn(R, Nat)
    BY NatLessThanWellFounded, ZenonT(30) DEF OpToRel
  <1> HIDE DEF T, R
  <1>4. PICK x \in T : \A y \in T : x <= y
    <2>1. PICK x \in T : \A y \in T : ~(<<y, x>> \in R)
      BY <1>2, <1>3, WFMin, ZenonT(30)
    <2>2. ASSUME NEW y \in T PROVE x <= y
      <3>1. x \in Nat /\ y \in Nat /\ ~(<<y, x>> \in R)
        BY <1>2, <2>1, ZenonT(30)
      <3>2. x \in Nat /\ y \in Nat /\ y < x => <<y, x>> \in R
        BY ZenonT(30) DEF R
      <3> QED
        BY <3>1, <3>2, SMTT(30)
    <2> QED
      BY <2>2
  <1> USE DEF T
  <1>5. PICK m \in S : x = Titles - m
    BY <1>4
  <1>6. \A t \in S : m >= t
    BY <1>1, <1>4, <1>5, SMTT(30)
  <1>7. Max(S) \in S /\ \A t \in S : Max(S) >= t
    BY <1>6, ZenonT(30) DEF Max
  <1> QED
    BY <1>1, <1>7, SMTT(30)

(* The name a batch stores for an id is the last one announced for it. *)
LEMMA LastTitleOf ==
    ASSUME NEW L \in SUBSET Announcement, NEW s \in Starts(L)
    PROVE  /\ LastTitle(L, s) \in Title
           /\ \E c \in L : c.start = s /\ c.title = LastTitle(L, s)
           /\ \A c \in L : c.start = s => c.title <= LastTitle(L, s)
  <1> DEFINE S == {c.title : c \in {d \in L : d.start = s}}
  <1>1. S \in SUBSET Title /\ S # {}
    BY SMTT(30) DEF Starts, Announcement
  <1>2. LastTitle(L, s) = Max(S)
    BY DEF LastTitle
  <1> HIDE DEF S
  <1>3. LastTitle(L, s) \in S /\ \A t \in S : t <= LastTitle(L, s)
    BY <1>1, <1>2, MaxTitle
  <1> QED
    BY <1>1, <1>3, SMTT(30) DEF S

(* Failing calls stay counted within their bound. *)
LEMMA ErrType == errs \in 0 .. MaxErrs /\ (Err \/ Fine) => errs' \in 0 .. MaxErrs
  BY ExtractionAssumption, SMTT(30) DEF Err, Fine

(* The table a reader takes, or a statement leaves behind, is one. *)
LEMMA TableTypes ==
    ASSUME contests \in ContestTable
    PROVE  /\ Future \in ContestTable
           /\ \A L \in SUBSET Announcement :
                 [s \in Slot |-> IF s > now /\ s \notin Starts(L) THEN None ELSE contests[s]]
                    \in ContestTable
           /\ \A L \in SUBSET Announcement :
                 [s \in Slot |-> IF s \in Starts(L) THEN LastTitle(L, s) ELSE contests[s]]
                    \in ContestTable
           /\ [s \in Slot |-> IF s + Dur < now THEN None ELSE contests[s]] \in ContestTable
  <1>1. \A L \in SUBSET Announcement :
          [s \in Slot |-> IF s \in Starts(L) THEN LastTitle(L, s) ELSE contests[s]] \in ContestTable
    <2> SUFFICES ASSUME NEW L \in SUBSET Announcement
                 PROVE  [s \in Slot |-> IF s \in Starts(L) THEN LastTitle(L, s) ELSE contests[s]]
                           \in ContestTable
      OBVIOUS
    <2>1. \A s \in Starts(L) : LastTitle(L, s) \in Title
      BY LastTitleOf
    <2> QED
      BY <2>1, SMTT(30) DEF ContestTable
  <1> QED
    BY <1>1, SMTT(30) DEF ContestTable, Future

(* Every step keeps the types. *)
LEMMA NextTypes == TypeOK /\ [Next]_vars => TypeOK'
  <1> SUFFICES ASSUME TypeOK, [Next]_vars PROVE TypeOK'
    OBVIOUS
  <1> DEFINE EnvType == /\ now \in 0 .. MaxTime /\ upstream \subseteq Announcement
                        /\ changes \in 0 .. MaxChanges
             TaskType == /\ wpc \in [Worker -> {"idle", "prune", "upsert", "evict"}]
                         /\ wlist \in [Worker -> SUBSET Announcement]
             ReadersType == /\ rpc \in [Reader -> {"idle", "db", "fill"}]
                            /\ rlist \in [Reader -> ContestTable \cup {None}]
             StoreType == contests \in ContestTable /\ cache \in ContestTable \cup {None}
             RestType == ppc \in {"idle", "evict"} /\ crashes \in 0 .. MaxCrashes
  <1> USE SMTT(30)
  <1>1. EnvType /\ TaskType /\ ReadersType /\ StoreType /\ RestType /\ errs \in 0 .. MaxErrs
    BY DEF TypeOK
  <1>2. /\ UNCHANGED env => EnvType'
        /\ UNCHANGED tasks => TaskType'
        /\ UNCHANGED readers => ReadersType'
        /\ UNCHANGED <<contests, cache>> => StoreType'
        /\ UNCHANGED <<ppc, crashes>> => RestType'
    BY <1>1, ZenonT(30) DEF env, tasks, readers
  <1>3. ASSUME EnvType', TaskType', ReadersType', StoreType', RestType', Err \/ Fine PROVE TypeOK'
    BY <1>1, <1>3, ErrType DEF TypeOK
  <1>4. ASSUME NEW w \in Worker, Fetch(w) PROVE TypeOK'
    <2>1. TaskType'
      BY <1>1, <1>4 DEF Fetch, Fetched
    <2> QED
      BY <1>2, <1>3, <1>4, <2>1, ZenonT(30) DEF Fetch, Fine
  <1>5. ASSUME NEW w \in Worker, Prune(w) PROVE TypeOK'
    <2>1. TaskType'
      BY <1>1, <1>5 DEF Prune
    <2>2. StoreType'
      BY <1>1, <1>5, TableTypes DEF Prune
    <2> HIDE DEF EnvType, TaskType, ReadersType, StoreType, RestType
    <2> QED
      BY <1>2, <1>3, <1>5, <2>1, <2>2, ZenonT(30) DEF Prune
  <1>6. ASSUME NEW w \in Worker, Done(w) PROVE TaskType'
    BY <1>1, <1>6 DEF Done
  <1>7. ASSUME NEW w \in Worker, Upsert(w) PROVE TypeOK'
    <2>1. TaskType'
      BY <1>1, <1>6, <1>7 DEF Upsert
    <2>2. StoreType'
      BY <1>1, <1>7, TableTypes DEF Upsert
    <2> HIDE DEF EnvType, TaskType, ReadersType, StoreType, RestType
    <2> QED
      BY <1>2, <1>3, <1>7, <2>1, <2>2, ZenonT(30) DEF Upsert
  <1>8. ASSUME NEW w \in Worker, Evict(w) PROVE TypeOK'
    <2>1. StoreType'
      BY <1>1, <1>8 DEF Evict
    <2> HIDE DEF EnvType, TaskType, ReadersType, StoreType, RestType
    <2> QED
      BY <1>2, <1>3, <1>6, <1>8, <2>1, ZenonT(30) DEF Evict
  <1>9. ASSUME NEW w \in Worker, Crash(w) PROVE TypeOK'
    <2>1. RestType'
      BY <1>1, <1>9, ExtractionAssumption DEF Crash
    <2> HIDE DEF EnvType, TaskType, ReadersType, StoreType, RestType
    <2> QED
      BY <1>2, <1>3, <1>6, <1>9, <2>1, ZenonT(30) DEF Crash, Fine
  <1>10. ASSUME NEW r \in Reader, ReadMiss(r) PROVE TypeOK'
    <2>1. ReadersType'
      BY <1>1, <1>10 DEF ReadMiss
    <2> HIDE DEF EnvType, TaskType, ReadersType, StoreType, RestType
    <2> QED
      BY <1>2, <1>3, <1>10, <2>1, ZenonT(30) DEF ReadMiss
  <1>11. ASSUME NEW r \in Reader, ReadTable(r) PROVE TypeOK'
    <2>1. ReadersType'
      BY <1>1, <1>11, TableTypes DEF ReadTable
    <2> HIDE DEF EnvType, TaskType, ReadersType, StoreType, RestType
    <2> QED
      BY <1>2, <1>3, <1>11, <2>1, ZenonT(30) DEF ReadTable
  <1>12. ASSUME NEW r \in Reader, Fill(r) PROVE TypeOK'
    <2>1. ReadersType' /\ StoreType'
      BY <1>1, <1>12 DEF Fill
    <2> HIDE DEF EnvType, TaskType, ReadersType, StoreType, RestType
    <2> QED
      BY <1>2, <1>3, <1>12, <2>1, ZenonT(30) DEF Fill
  <1>13. ASSUME PruneOld PROVE TypeOK'
    <2>1. StoreType' /\ RestType'
      BY <1>1, <1>13, TableTypes DEF PruneOld
    <2> HIDE DEF EnvType, TaskType, ReadersType, StoreType, RestType
    <2> QED
      BY <1>2, <1>3, <1>13, <2>1, ZenonT(30) DEF PruneOld
  <1>14. ASSUME PruneEvict PROVE TypeOK'
    <2>1. StoreType' /\ RestType'
      BY <1>1, <1>14 DEF PruneEvict
    <2> HIDE DEF EnvType, TaskType, ReadersType, StoreType, RestType
    <2> QED
      BY <1>2, <1>3, <1>14, <2>1, ZenonT(30) DEF PruneEvict
  <1>15. ASSUME ExpireCache PROVE TypeOK'
    <2>1. StoreType'
      BY <1>1, <1>15 DEF ExpireCache
    <2> HIDE DEF EnvType, TaskType, ReadersType, StoreType, RestType
    <2> QED
      BY <1>2, <1>3, <1>15, <2>1, ZenonT(30) DEF ExpireCache, Fine
  <1>16. ASSUME Tick PROVE TypeOK'
    <2>1. EnvType'
      BY <1>1, <1>16, ExtractionAssumption DEF Tick
    <2> HIDE DEF EnvType, TaskType, ReadersType, StoreType, RestType
    <2> QED
      BY <1>2, <1>3, <1>16, <2>1, ZenonT(30) DEF Tick, Fine
  <1>17. ASSUME NEW U \in SUBSET Announcement, Announce(U) PROVE TypeOK'
    <2>1. EnvType'
      BY <1>1, <1>17, ExtractionAssumption DEF Announce
    <2> HIDE DEF EnvType, TaskType, ReadersType, StoreType, RestType
    <2> QED
      BY <1>2, <1>3, <1>17, <2>1, ZenonT(30) DEF Announce, Fine
  <1>18. ASSUME UNCHANGED vars PROVE TypeOK'
    <2> HIDE DEF EnvType, TaskType, ReadersType, StoreType, RestType
    <2> QED
      BY <1>2, <1>3, <1>18, ZenonT(30) DEF vars, Fine
  <1> QED
    BY <1>4, <1>5, <1>7, <1>8, <1>9, <1>10, <1>11, <1>12, <1>13, <1>14, <1>15, <1>16, <1>17, <1>18,
       ZenonT(30)
       DEF Next, TaskStep, ReaderStep

(* Table, cache and lists hold contests of the platform, also after any    *)
(* order of prunes and upserts.                                            *)
THEOREM TypeCorrect == Spec => []TypeOK
  <1>1. Init => TypeOK
    BY ExtractionAssumption, SMTT(30) DEF Init, TypeOK, ContestTable
  <1> QED
    BY <1>1, NextTypes, PTL DEF Spec

(* The DELETE of a task looks at start_time and the daily prune at the     *)
(* end, so neither removes a contest that is running, and the upsert       *)
(* replaces a row by one.                                                  *)
THEOREM RunningKept == Spec => RunningContestsKept
  <1> DEFINE Keeps == \A s \in Slot :
                         s <= now /\ now <= s + Dur /\ contests[s] # None => contests'[s] # None
  <1>1. TypeOK /\ [Next]_vars => [Keeps]_vars
    <2> SUFFICES ASSUME TypeOK, Next PROVE Keeps
      OBVIOUS
    <2> USE SMTT(30)
    <2>1. Slot \subseteq Nat /\ now \in Nat /\ Dur \in Nat /\ contests \in ContestTable
      BY ExtractionAssumption DEF TypeOK
    <2>2. ASSUME contests' = contests PROVE Keeps
      BY <2>2
    <2>3. ASSUME NEW w \in Worker, Prune(w) PROVE Keeps
      BY <2>1, <2>2, <2>3 DEF Prune
    <2>4. ASSUME NEW w \in Worker, Upsert(w) PROVE Keeps
      <3>1. wlist[w] \in SUBSET Announcement
        BY DEF TypeOK
      <3>2. \A s \in Starts(wlist[w]) : LastTitle(wlist[w], s) # None
        BY <3>1, LastTitleOf, ExtractionAssumption
      <3> QED
        BY <2>2, <2>4, <3>2 DEF Upsert
    <2>5. ASSUME PruneOld PROVE Keeps
      BY <2>1, <2>2, <2>5 DEF PruneOld
    <2>6. ASSUME NEW w \in Worker, Fetch(w) \/ Evict(w) \/ Crash(w) PROVE Keeps
      BY <2>2, <2>6 DEF Fetch, Evict, Crash
    <2>7. ASSUME NEW r \in Reader, ReadMiss(r) \/ ReadTable(r) \/ Fill(r) PROVE Keeps
      BY <2>2, <2>7 DEF ReadMiss, ReadTable, Fill
    <2>8. ASSUME PruneEvict \/ ExpireCache \/ Tick \/ \E U \in SUBSET Announcement : Announce(U)
          PROVE  Keeps
      BY <2>2, <2>8 DEF PruneEvict, ExpireCache, Tick, Announce
    <2> HIDE DEF Keeps
    <2> QED
      BY <2>3, <2>4, <2>5, <2>6, <2>7, <2>8, ZenonT(30) DEF Next, TaskStep, ReaderStep
  <1> QED
    BY TypeCorrect, <1>1, PTL DEF Spec, RunningContestsKept

\* The entries of a list for one id.
Listed(L, s) == {c \in L : c.start = s}

(* Lists with the same entries for an id agree on whether it is listed,    *)
(* and on the name a batch stores for it.                                  *)
LEMMA SameEntries ==
    ASSUME NEW L, NEW M, NEW s, Listed(L, s) = Listed(M, s)
    PROVE  /\ s \in Starts(L) <=> s \in Starts(M)
           /\ LastTitle(L, s) = LastTitle(M, s)
  <1>1. \A N : s \in Starts(N) <=> Listed(N, s) # {}
    BY ZenonT(30) DEF Starts, Listed
  <1>2. \A N : LastTitle(N, s) = Max({c.title : c \in Listed(N, s)})
    BY ZenonT(30) DEF LastTitle, Listed
  <1> QED
    BY <1>1, <1>2, ZenonT(30)

(* What the tasks hold and the table has while the platform stays with its *)
(* first announcement: before it nothing, and after it every task has the  *)
(* announced contests that are still to come, whenever it fetched them,    *)
(* and a future contest of the table is one of them.                       *)
BeforeFirst ==
    changes = 0 => /\ upstream = {}
                   /\ \A w \in Worker : wpc[w] = "idle"
                   /\ \A s \in Slot : contests[s] = None

ListsAgree ==
    changes <= 1 => \A w \in Worker, s \in Slot :
                       wpc[w] # "idle" /\ s > now => Listed(wlist[w], s) = Listed(upstream, s)

TableAgrees ==
    changes <= 1 => \A s \in Slot :
                       s > now /\ contests[s] # None
                          => s \in Starts(upstream) /\ contests[s] = LastTitle(upstream, s)

FirstAnnouncement == TypeOK /\ BeforeFirst /\ ListsAgree /\ TableAgrees

(* Each step of a task, a reader, the daily prune, the clock and the       *)
(* platform keeps that agreement.                                          *)
LEMMA NextFirst == FirstAnnouncement /\ [Next]_vars => FirstAnnouncement'
  <1> SUFFICES ASSUME FirstAnnouncement, [Next]_vars PROVE FirstAnnouncement'
    OBVIOUS
  <1> DEFINE Goal == BeforeFirst' /\ ListsAgree' /\ TableAgrees'
  <1> SUFFICES Goal
    BY NextTypes DEF FirstAnnouncement
  <1>1. /\ BeforeFirst /\ ListsAgree /\ TableAgrees /\ Slot \subseteq Nat
        /\ now \in Nat /\ changes \in Nat /\ contests \in ContestTable
        /\ wpc \in [Worker -> {"idle", "prune", "upsert", "evict"}]
        /\ wlist \in [Worker -> SUBSET Announcement]
    BY ExtractionAssumption, SMTT(30) DEF FirstAnnouncement, TypeOK
  <1>2. ASSUME UNCHANGED <<env, contests>>,
               \A w \in Worker : wpc'[w] # "idle" => wpc[w] # "idle" /\ wlist'[w] = wlist[w]
        PROVE  Goal
    BY <1>1, <1>2, ZenonT(30) DEF env, BeforeFirst, ListsAgree, TableAgrees
  <1>3. ASSUME NEW w \in Worker, Fetch(w) PROVE Goal
    <2>1. changes # 0
      BY <1>1, <1>3, ZenonT(30) DEF Fetch, Fetched, BeforeFirst
    <2>2. \A s \in Slot : s > now => Listed(Fetched, s) = Listed(upstream, s)
      BY <1>1, SMTT(30) DEF Listed, Fetched
    <2>3. ListsAgree'
      BY <1>1, <1>3, <2>2, ZenonT(30) DEF Fetch, env, ListsAgree
    <2> QED
      BY <1>1, <1>3, <2>1, <2>3, ZenonT(30) DEF Fetch, env, BeforeFirst, TableAgrees
  <1>4. ASSUME UNCHANGED <<env, wlist>>,
               \A w \in Worker : wpc'[w] # "idle" => wpc[w] # "idle",
               \A s \in Slot : contests'[s] = None \/ contests'[s] = contests[s]
        PROVE  Goal
    BY <1>1, <1>4, ZenonT(30) DEF env, BeforeFirst, ListsAgree, TableAgrees
  <1>5. ASSUME NEW w \in Worker, Prune(w) PROVE Goal
    <2>1. \A s \in Slot : contests'[s] = None \/ contests'[s] = contests[s]
      BY <1>5, ZenonT(30) DEF Prune
    <2>2. \A v \in Worker : wpc'[v] # "idle" => wpc[v] # "idle"
      BY <1>1, <1>5, ZenonT(30) DEF Prune
    <2> QED
      BY <1>4, <1>5, <2>1, <2>2, ZenonT(30) DEF Prune
  <1>6. ASSUME NEW w \in Worker, Done(w)
        PROVE  \A v \in Worker : wpc'[v] # "idle" => wpc[v] # "idle" /\ wlist'[v] = wlist[v]
    BY <1>1, <1>6, ZenonT(30) DEF Done
  <1>7. ASSUME NEW w \in Worker, Upsert(w) PROVE Goal
    <2>1. CASE UNCHANGED contests /\ Done(w)
      BY <1>2, <1>6, <1>7, <2>1, ZenonT(30) DEF Upsert
    <2>2. CASE /\ contests' = [s \in Slot |-> IF s \in Starts(wlist[w])
                                              THEN LastTitle(wlist[w], s) ELSE contests[s]]
               /\ wpc' = [wpc EXCEPT ![w] = "evict"] /\ UNCHANGED wlist
      <3>1. wpc[w] # "idle" /\ UNCHANGED env
        BY <1>7, ZenonT(30) DEF Upsert
      <3>2. BeforeFirst'
        BY <1>1, <3>1, ZenonT(30) DEF BeforeFirst, env
      <3>3. ListsAgree'
        BY <1>1, <2>2, <3>1, ZenonT(30) DEF ListsAgree, env
      <3>4. ASSUME changes <= 1, NEW s \in Slot, s > now, contests'[s] # None
            PROVE  s \in Starts(upstream) /\ contests'[s] = LastTitle(upstream, s)
        <4>1. /\ s \in Starts(wlist[w]) <=> s \in Starts(upstream)
              /\ LastTitle(wlist[w], s) = LastTitle(upstream, s)
          BY <1>1, <3>1, <3>4, SameEntries, ZenonT(30) DEF ListsAgree
        <4> QED
          BY <1>1, <2>2, <3>4, <4>1, ZenonT(30) DEF TableAgrees
      <3> QED
        BY <3>1, <3>2, <3>3, <3>4, ZenonT(30) DEF TableAgrees, env
    <2> QED
      BY <1>7, <2>1, <2>2, ZenonT(30) DEF Upsert
  <1>8. ASSUME NEW w \in Worker, Evict(w) \/ Crash(w) PROVE Goal
    BY <1>2, <1>6, <1>8, ZenonT(30) DEF Evict, Crash
  <1>9. ASSUME UNCHANGED <<env, contests, tasks>> PROVE Goal
    BY <1>2, <1>9, ZenonT(30) DEF tasks
  <1>10. ASSUME NEW r \in Reader, ReadMiss(r) \/ ReadTable(r) \/ Fill(r) PROVE Goal
    BY <1>9, <1>10, ZenonT(30) DEF ReadMiss, ReadTable, Fill
  <1>11. CASE PruneOld
    <2>1. \A s \in Slot : contests'[s] = None \/ contests'[s] = contests[s]
      BY <1>11, ZenonT(30) DEF PruneOld
    <2> QED
      BY <1>4, <1>11, <2>1, ZenonT(30) DEF PruneOld, tasks
  <1>12. CASE PruneEvict \/ ExpireCache \/ UNCHANGED vars
    BY <1>9, <1>12, ZenonT(30) DEF PruneEvict, ExpireCache, vars
  <1>13. CASE Tick
    <2>1. \A s \in Slot : s > now' => s > now
      BY <1>1, <1>13, SMTT(30) DEF Tick
    <2> QED
      BY <1>1, <1>13, <2>1, ZenonT(30) DEF Tick, tasks, BeforeFirst, ListsAgree, TableAgrees
  <1>14. ASSUME NEW U \in SUBSET Announcement, Announce(U) PROVE Goal
    <2>1. changes' # 0 /\ (changes' <= 1 => changes = 0)
      BY <1>1, <1>14, SMTT(30) DEF Announce
    <2> QED
      BY <1>1, <1>14, <2>1, ZenonT(30) DEF Announce, tasks, BeforeFirst, ListsAgree, TableAgrees
  <1> HIDE DEF Goal
  <1> QED
    BY <1>3, <1>5, <1>7, <1>8, <1>10, <1>11, <1>12, <1>13, <1>14, ZenonT(30)
       DEF Next, TaskStep, ReaderStep

(* While the platform stays with its first announcement, no order of       *)
(* fetches, prunes, upserts, failures and crashes of any number of tasks   *)
(* removes or renames a future contest of the table, at whatever times     *)
(* their lists were fetched.                                               *)
THEOREM AnnouncedStay == Spec => AnnouncedKept
  <1> DEFINE Keeps == changes' <= 1 => \A s \in Slot : s > now /\ contests[s] # None
                                                        => contests'[s] = contests[s]
  <1>1. Init => FirstAnnouncement
    <2>1. Init => TypeOK
      BY ExtractionAssumption, SMTT(30) DEF Init, TypeOK, ContestTable
    <2>2. Init => BeforeFirst /\ ListsAgree /\ TableAgrees
      BY ZenonT(30) DEF Init, BeforeFirst, ListsAgree, TableAgrees
    <2> QED
      BY <2>1, <2>2, ZenonT(30) DEF FirstAnnouncement
  <1>2. FirstAnnouncement /\ [Next]_vars => [Keeps]_vars
    <2> SUFFICES ASSUME FirstAnnouncement, Next, changes' <= 1,
                        NEW s \in Slot, s > now, contests[s] # None
                 PROVE  contests'[s] = contests[s]
      OBVIOUS
    <2>1. /\ ListsAgree /\ TableAgrees /\ Slot \subseteq Nat /\ now \in Nat /\ Dur \in Nat
          /\ contests \in ContestTable
      BY ExtractionAssumption, SMTT(30) DEF FirstAnnouncement, TypeOK
    <2>2. ASSUME NEW w \in Worker, wpc[w] # "idle", UNCHANGED changes
          PROVE  s \in Starts(wlist[w]) /\ contests[s] = LastTitle(wlist[w], s)
      <3>1. /\ Listed(wlist[w], s) = Listed(upstream, s)
            /\ s \in Starts(upstream) /\ contests[s] = LastTitle(upstream, s)
        BY <2>1, <2>2, ZenonT(30) DEF ListsAgree, TableAgrees
      <3> QED
        BY <3>1, SameEntries, ZenonT(30)
    <2>3. ASSUME NEW w \in Worker, Prune(w) PROVE contests'[s] = contests[s]
      BY <2>2, <2>3, ZenonT(30) DEF Prune, env
    <2>4. ASSUME NEW w \in Worker, Upsert(w) PROVE contests'[s] = contests[s]
      BY <2>2, <2>4, ZenonT(30) DEF Upsert, env
    <2>5. CASE PruneOld
      <3>1. ~(s + Dur < now)
        BY <2>1, SMTT(30)
      <3> QED
        BY <2>5, <3>1, ZenonT(30) DEF PruneOld
    <2>6. ASSUME NEW w \in Worker, Fetch(w) \/ Evict(w) \/ Crash(w) PROVE contests'[s] = contests[s]
      BY <2>6, ZenonT(30) DEF Fetch, Evict, Crash
    <2>7. ASSUME NEW r \in Reader, ReadMiss(r) \/ ReadTable(r) \/ Fill(r)
          PROVE  contests'[s] = contests[s]
      BY <2>7, ZenonT(30) DEF ReadMiss, ReadTable, Fill
    <2>8. CASE PruneEvict \/ ExpireCache \/ Tick \/ \E U \in SUBSET Announcement : Announce(U)
      BY <2>8, ZenonT(30) DEF PruneEvict, ExpireCache, Tick, Announce
    <2> QED
      BY <2>3, <2>4, <2>5, <2>6, <2>7, <2>8, ZenonT(30) DEF Next, TaskStep, ReaderStep
  <1> QED
    BY <1>1, <1>2, NextFirst, PTL DEF Spec, AnnouncedKept
=============================================================================
