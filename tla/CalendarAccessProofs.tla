------------------------- MODULE CalendarAccessProofs -------------------------
(***************************************************************************)
(* Proofs about CalendarAccess for any number of logins, callbacks, tokens *)
(* and other requests.                                                     *)
(***************************************************************************)
EXTENDS CalendarAccess, TLAPS

(* A function of flags stays one when an entry is set. *)
LEMMA FlagSet ==
    ASSUME NEW S, NEW f \in [S -> BOOLEAN], NEW i, NEW x \in BOOLEAN
    PROVE  [f EXCEPT ![i] = x] \in [S -> BOOLEAN]
  BY ZenonT(30)

(* Records that are made into a users row, or a copy of one, are rows. *)
LEMMA RowMade ==
    /\ \A g \in Grant \cup {None}, a \in BOOLEAN : [token |-> g, access |-> a] \in Row
    /\ \A w \in Row : [w EXCEPT !.access = FALSE] \in Row
    /\ \A w \in Row : w # None /\ w.token \in Grant \cup {None}
  <1>1. \A w \in Row : [w EXCEPT !.access = FALSE] \in Row
    BY ZenonT(30) DEF Row
  <1>2. \A g \in Grant \cup {None}, a \in BOOLEAN : [token |-> g, access |-> a] \in Row
    BY ZenonT(30) DEF Row
  <1>3. \A w \in Row : w # None /\ w.token \in Grant \cup {None}
    BY AccessAssumption, ZenonT(30) DEF Row
  <1> QED
    BY <1>1, <1>2, <1>3, ZenonT(30)

(* The stored token is a grant, or there is none. *)
LEMMA TokenType == DbType => Token \in Grant \cup {None}
  BY RowMade, ZenonT(30) DEF DbType, Token

(* Failing calls stay counted within their bound. *)
LEMMA ErrTypes == ErrType /\ (Err \/ Fine) => ErrType'
  BY AccessAssumption, SMTT(30) DEF ErrType, Err, Fine

(* What a step leaves alone keeps its type. *)
LEMMA TypeFrame ==
    /\ GoogleType /\ UNCHANGED google => GoogleType'
    /\ DbType /\ UNCHANGED db => DbType'
    /\ ValkeyType /\ UNCHANGED valkey => ValkeyType'
    /\ CallbackType /\ UNCHANGED callback => CallbackType'
    /\ ValidateType /\ UNCHANGED validate => ValidateType'
    /\ ReaderType /\ UNCHANGED reader => ReaderType'
    /\ ClickType /\ UNCHANGED click => ClickType'
    /\ SyncType /\ UNCHANGED sync => SyncType'
    /\ BoundsType /\ UNCHANGED bounds => BoundsType'
  <1>1. GoogleType /\ UNCHANGED google => GoogleType'
    BY ZenonT(30) DEF GoogleType, google
  <1>2. DbType /\ UNCHANGED db => DbType'
    BY ZenonT(30) DEF DbType, db
  <1>3. ValkeyType /\ UNCHANGED valkey => ValkeyType'
    BY ZenonT(30) DEF ValkeyType, valkey
  <1>4. CallbackType /\ UNCHANGED callback => CallbackType'
    BY ZenonT(30) DEF CallbackType, callback
  <1>5. ValidateType /\ UNCHANGED validate => ValidateType'
    BY ZenonT(30) DEF ValidateType, validate
  <1>6. ReaderType /\ UNCHANGED reader => ReaderType'
    BY ZenonT(30) DEF ReaderType, reader
  <1>7. ClickType /\ UNCHANGED click => ClickType'
    BY ZenonT(30) DEF ClickType, click
  <1>8. SyncType /\ UNCHANGED sync => SyncType'
    BY ZenonT(30) DEF SyncType, sync
  <1>9. BoundsType /\ UNCHANGED bounds => BoundsType'
    BY ZenonT(30) DEF BoundsType, bounds
  <1> QED
    BY <1>1, <1>2, <1>3, <1>4, <1>5, <1>6, <1>7, <1>8, <1>9, ZenonT(30)

(* A callback that ends keeps the types of the callbacks. *)
LEMMA LeaveCallbackType == ASSUME CallbackType, NEW b, LeaveCallback(b) PROVE CallbackType'
  <1>1. bscope' \in [Callback -> BOOLEAN]
    BY FlagSet, ZenonT(30) DEF CallbackType, LeaveCallback
  <1> QED
    BY <1>1, ZenonT(30) DEF CallbackType, LeaveCallback

(* A callback keeps the types. *)
LEMMA CallbackTypes ==
    ASSUME TypeOK, NEW b \in Callback, (\E l \in Login : ConsumeState(b, l)) \/ CallbackStep(b)
    PROVE  TypeOK'
  <1> GoogleType /\ DbType /\ ValkeyType /\ CallbackType /\ SyncType /\ ErrType /\ BoundsType
    BY ZenonT(30) DEF TypeOK
  <1> USE ZenonT(30)
  <1>1. ASSUME UNCHANGED <<validate, reader, click>>,
               GoogleType', DbType', ValkeyType', CallbackType', SyncType', ErrType', BoundsType'
        PROVE  TypeOK'
    BY <1>1, TypeFrame DEF TypeOK
  <1>2. CASE \E l \in Login : ConsumeState(b, l)
    <2>1. CallbackType'
      <3>1. UNCHANGED bscope
        BY <1>2 DEF ConsumeState
      <3>2. bscope' \in [Callback -> BOOLEAN]
        BY <3>1 DEF CallbackType
      <3> QED
        BY <1>2, <3>2, AccessAssumption, SMTT(30) DEF ConsumeState, CallbackType
    <2>2. DbType'
      <3>1. UNCHANGED gone /\ gone' \in BOOLEAN
        BY <1>2 DEF ConsumeState, DbType
      <3> QED
        BY <1>2, <3>1 DEF ConsumeState, DbType
    <2>3. UNCHANGED <<google, valkey, validate, reader, click, sync, errs, bounds>> /\ Fine
      BY <1>2 DEF ConsumeState, Fine
    <2> QED
      BY <1>1, <2>1, <2>2, <2>3, TypeFrame, ErrTypes
  <1>3. CASE Exchange(b)
    <2>1. UNCHANGED <<db, valkey, validate, reader, click, sync>> /\ (Err \/ Fine)
      BY <1>3 DEF Exchange
    <2>2. exchanged' \in [Login -> Nat]
      <3>1. exchanged' = [exchanged EXCEPT ![blog[b]] = @ + 1]
        BY <1>3 DEF Exchange
      <3>2. blog[b] \in Login
        BY <1>3 DEF Exchange, CallbackType
      <3> QED
        BY <3>1, <3>2, SMTT(30) DEF GoogleType
    <2>3. grants' \in [Grant -> {"unused", "full", "basic", "revoked"}]
      <3>1. \/ UNCHANGED grants
            \/ \E g \in Grant, x \in {"full", "basic"} : grants' = [grants EXCEPT ![g] = x]
        BY <1>3 DEF Exchange
      <3> QED
        BY <3>1 DEF GoogleType
    <2>4. BoundsType'
      BY <1>3, AccessAssumption, SMTT(30) DEF Exchange, BoundsType
    <2>5. CallbackType'
      <3>1. CASE LeaveCallback(b)
        BY <3>1, LeaveCallbackType
      <3>2. CASE ~LeaveCallback(b)
        <4>1. PICK g \in Grant, full \in BOOLEAN :
                /\ bscope' = [bscope EXCEPT ![b] = full]
                /\ btok' = [btok EXCEPT ![b] = g] \/ UNCHANGED btok
                /\ bpc' = [bpc EXCEPT ![b] = "userinfo"] /\ UNCHANGED blog
          BY <1>3, <3>2 DEF Exchange
        <4>2. bscope' \in [Callback -> BOOLEAN]
          BY <4>1, FlagSet DEF CallbackType
        <4> QED
          BY <1>3, <4>1, <4>2, SMTT(30) DEF Exchange, CallbackType
      <3> QED
        BY <3>1, <3>2
    <2> QED
      BY <1>1, <2>1, <2>2, <2>3, <2>4, <2>5, TypeFrame, ErrTypes DEF GoogleType
  <1>4. CASE Upsert(b)
    <2>1. UNCHANGED <<google, states, gone, last, valkey, validate, reader, click, sync, bounds>>
      BY <1>4 DEF Upsert
    <2>2. Err \/ Fine
      BY <1>4 DEF Upsert
    <2>3. CallbackType'
      <3>1. CASE LeaveCallback(b)
        BY <3>1, LeaveCallbackType
      <3>2. CASE ~LeaveCallback(b)
        <4>1. /\ bpc[b] = "upsert" /\ UNCHANGED <<blog, btok, bscope>>
              /\ \E l \in {"drop", "dropNew"} : bpc' = [bpc EXCEPT ![b] = l]
          BY <1>4, <3>2 DEF Upsert
        <4>2. bscope' \in [Callback -> BOOLEAN]
          BY <4>1 DEF CallbackType
        <4> QED
          BY <4>1, <4>2 DEF CallbackType
      <3> QED
        BY <3>1, <3>2
    <2>4. row' \in Row \cup {None}
      <3> DEFINE tok == IF btok[b] # None \/ row = None THEN btok[b] ELSE row.token
      <3>2. tok \in Grant \cup {None}
        BY RowMade DEF DbType, CallbackType
      <3>3. bscope[b] \in BOOLEAN
        BY DEF CallbackType
      <3>4. [token |-> tok, access |-> bscope[b]] \in Row
        BY <3>2, <3>3, RowMade
      <3>5. row' = [token |-> tok, access |-> bscope[b]] \/ row' = row
        BY <1>4 DEF Upsert
      <3> QED
        BY <3>4, <3>5 DEF DbType
    <2>5. DbType'
      BY <2>1, <2>4 DEF DbType
    <2> QED
      BY <1>1, <2>1, <2>2, <2>3, <2>5, TypeFrame, ErrTypes
  <1>5. CASE DropCaches(b)
    <2>1. UNCHANGED <<google, db, validate, reader, click, bounds>> /\ (Err \/ Fine)
      BY <1>5 DEF DropCaches
    <2>2. CallbackType'
      BY <1>5, LeaveCallbackType DEF DropCaches
    <2>3. ValkeyType'
      BY <1>5 DEF DropCaches, ValkeyType
    <2>4. queued' \in BOOLEAN /\ UNCHANGED <<spc, stok, manual>>
      BY <1>5 DEF DropCaches, SyncType
    <2>5. SyncType'
      BY <2>4 DEF SyncType
    <2> QED
      BY <1>1, <2>1, <2>2, <2>3, <2>5, TypeFrame, ErrTypes
  <1>6. CASE UserInfo(b)
    <2>1. UNCHANGED <<google, db, valkey, validate, reader, click, sync, bounds>> /\ (Err \/ Fine)
      BY <1>6 DEF UserInfo
    <2>2. CallbackType'
      <3>1. CASE LeaveCallback(b)
        BY <3>1, LeaveCallbackType
      <3>2. CASE ~LeaveCallback(b)
        <4>1. /\ bpc[b] = "userinfo" /\ bpc' = [bpc EXCEPT ![b] = "upsert"]
              /\ UNCHANGED <<blog, btok, bscope>>
          BY <1>6, <3>2 DEF UserInfo
        <4>2. bscope' \in [Callback -> BOOLEAN]
          BY <4>1 DEF CallbackType
        <4> QED
          BY <4>1, <4>2 DEF CallbackType
      <3> QED
        BY <3>1, <3>2
    <2> QED
      BY <1>1, <2>1, <2>2, TypeFrame, ErrTypes
  <1> QED
    BY <1>2, <1>3, <1>4, <1>5, <1>6 DEF CallbackStep

(* A validation keeps the types. *)
LEMMA ValidateTypes ==
    ASSUME TypeOK, NEW v \in Validator, ValidateMiss(v) \/ ValidateStep(v)
    PROVE  TypeOK'
  <1> DbType /\ ValkeyType /\ ValidateType /\ ErrType
    BY ZenonT(30) DEF TypeOK
  <1> Token \in Grant \cup {None}
    BY TokenType, ZenonT(30)
  <1> USE ZenonT(30)
  <1>1. ASSUME UNCHANGED <<google, db, callback, reader, click, sync, bounds>>, Err \/ Fine,
               ValkeyType', ValidateType'
        PROVE  TypeOK'
    BY <1>1, TypeFrame, ErrTypes DEF TypeOK
  <1>2. CASE ValidateMiss(v)
    <2>1. ValidateType'
      BY <1>2, AccessAssumption DEF ValidateMiss, ValidateType
    <2> QED
      BY <1>1, <1>2, <2>1, TypeFrame DEF ValidateMiss
  <1>3. CASE ValidateRead(v)
    <2>1. ValidateType'
      BY <1>3, AccessAssumption, SMTT(30) DEF ValidateRead, ValidateType
    <2> QED
      BY <1>1, <1>3, <2>1, TypeFrame DEF ValidateRead
  <1>4. CASE ValidateAsk(v)
    <2>1. ValidateType'
      <3>1. \E x \in {"valid", "invalid"} : vres' = [vres EXCEPT ![v] = x]
        BY <1>4 DEF ValidateAsk
      <3> QED
        BY <1>4, <3>1, AccessAssumption DEF ValidateAsk, ValidateType
    <2> QED
      BY <1>1, <1>4, <2>1, TypeFrame DEF ValidateAsk
  <1>5. CASE ValidateWrite(v)
    <2>1. ValidateType'
      BY <1>5, AccessAssumption DEF ValidateWrite, ValidateType
    <2>2. ValkeyType'
      BY <1>5 DEF ValidateWrite, ValkeyType, ValidateType
    <2> QED
      BY <1>1, <1>5, <2>1, <2>2 DEF ValidateWrite
  <1> QED
    BY <1>2, <1>3, <1>4, <1>5 DEF ValidateStep

(* A fill of the cached profile keeps the types. *)
LEMMA ReaderTypes ==
    ASSUME TypeOK, NEW r \in Reader, ProfileMiss(r) \/ ReaderStep(r)
    PROVE  TypeOK'
  <1> DbType /\ ValkeyType /\ ReaderType /\ ErrType
    BY ZenonT(30) DEF TypeOK
  <1> USE ZenonT(30)
  <1>1. ASSUME UNCHANGED <<google, db, callback, validate, click, sync, bounds>>, Err \/ Fine,
               ValkeyType', ReaderType'
        PROVE  TypeOK'
    BY <1>1, TypeFrame, ErrTypes DEF TypeOK
  <1>2. CASE ProfileMiss(r)
    <2>1. ReaderType'
      BY <1>2 DEF ProfileMiss, ReaderType
    <2> QED
      BY <1>1, <1>2, <2>1, TypeFrame DEF ProfileMiss
  <1>3. ASSUME NEW R, row # None => R \in Row, ProfileRead(r, R) PROVE TypeOK'
    <2>1. ReaderType'
      BY <1>3, RowMade DEF ProfileRead, ReaderType
    <2> QED
      BY <1>1, <1>3, <2>1, TypeFrame DEF ProfileRead
  <1>4. CASE MeRead(r)
    <2>1. row # None => row \in Row
      BY DEF DbType
    <2> QED
      BY <1>3, <1>4, <2>1 DEF MeRead
  <1>5. CASE OtherRead(r)
    <2> DEFINE R == IF row = None THEN None ELSE [row EXCEPT !.access = FALSE]
    <2>1. row # None => R \in Row
      BY RowMade DEF DbType
    <2>2. ProfileRead(r, R)
      BY <1>5 DEF OtherRead
    <2> HIDE DEF R
    <2> QED
      BY <1>3, <2>1, <2>2
  <1>6. CASE ProfileFill(r)
    <2>1. ReaderType'
      BY <1>6 DEF ProfileFill, ReaderType
    <2>2. ValkeyType'
      BY <1>6 DEF ProfileFill, ValkeyType, ReaderType
    <2> QED
      BY <1>1, <1>6, <2>1, <2>2 DEF ProfileFill
  <1> QED
    BY <1>2, <1>4, <1>5, <1>6 DEF ReaderStep

(* Moving a click on, with what it holds at its new place. *)
LEMMA ClickMoves ==
    ASSUME ClickType, NEW m \in Click, NEW l, NEW t \in Grant \cup {None}, NEW a \in Age,
           l \in {"idle", "read", "fill", "check", "verdict", "ask", "publish"},
           l \in {"verdict", "ask", "publish"} <=> t # None,
           mpc' = [mpc EXCEPT ![m] = l], mtok' = [mtok EXCEPT ![m] = t],
           mlast' = [mlast EXCEPT ![m] = a], clicks' \in 0 .. MaxClicks
    PROVE  ClickType'
  <1> USE ZenonT(30)
  <1>1. /\ mpc' \in [Click -> {"idle", "read", "fill", "check", "verdict", "ask", "publish"}]
        /\ mlast' \in [Click -> Age] /\ mtok' \in [Click -> Grant \cup {None}]
    BY DEF ClickType
  <1>2. ASSUME NEW n \in Click
        PROVE  mpc'[n] \in {"verdict", "ask", "publish"} <=> mtok'[n] # None
    <2>1. CASE n = m
      <3>1. mpc'[m] = l /\ mtok'[m] = t
        BY DEF ClickType
      <3> QED
        BY <2>1, <3>1
    <2>2. CASE n # m
      <3>1. mpc'[n] = mpc[n] /\ mtok'[n] = mtok[n]
        BY <2>2 DEF ClickType
      <3> QED
        BY <3>1 DEF ClickType
    <2> QED
      BY <2>1, <2>2
  <1> QED
    BY <1>1, <1>2 DEF ClickType

(* A manual sync that ends keeps the types of the clicks. *)
LEMMA LeaveClickType ==
    ASSUME ClickType, NEW m \in Click, LeaveClick(m), UNCHANGED clicks
    PROVE  ClickType'
  <1>1. None \in Age /\ clicks' \in 0 .. MaxClicks
    BY ZenonT(30) DEF Age, ClickType
  <1>2. /\ "idle" \in {"idle", "read", "fill", "check", "verdict", "ask", "publish"}
        /\ "idle" \notin {"verdict", "ask", "publish"}
    BY ZenonT(30)
  <1>3. None \in Grant \cup {None}
    BY ZenonT(30)
  <1> QED
    BY <1>1, <1>2, <1>3, ClickMoves, ZenonT(30) DEF LeaveClick

(* A request of ManualSync keeps the types. *)
LEMMA ClickTypes ==
    ASSUME TypeOK, NEW m \in Click, ClickStart(m) \/ ClickStep(m)
    PROVE  TypeOK'
  <1> DbType /\ ValkeyType /\ ClickType /\ SyncType /\ ErrType
    BY ZenonT(30) DEF TypeOK
  <1> Token \in Grant \cup {None}
    BY TokenType, ZenonT(30)
  <1> USE ZenonT(30)
  <1>1. ASSUME UNCHANGED <<google, db, callback, validate, reader, bounds>>, Err \/ Fine,
               ValkeyType', ClickType', SyncType'
        PROVE  TypeOK'
    BY <1>1, TypeFrame, ErrTypes DEF TypeOK
  <1>2. /\ UNCHANGED valkey => ValkeyType'
        /\ UNCHANGED sync => SyncType'
    BY TypeFrame
  <1>3. CASE ClickStart(m)
    <2>1. /\ mpc[m] = "idle" /\ mtok' = mtok /\ clicks' \in 0 .. MaxClicks
          /\ \E l \in {"read", "check"} : mpc' = [mpc EXCEPT ![m] = l]
          /\ \E a \in Age : mlast' = [mlast EXCEPT ![m] = a] \/ mlast' = mlast
      BY <1>3, AccessAssumption, SMTT(30) DEF ClickStart, ClickType, ValkeyType
    <2>2. ClickType'
      BY <2>1 DEF ClickType
    <2> QED
      BY <1>1, <1>2, <1>3, <2>2 DEF ClickStart
  <1>4. CASE ClickRead(m)
    <2>1. CASE LeaveClick(m)
      BY <1>1, <1>2, <1>4, <2>1, LeaveClickType DEF ClickRead
    <2>2. CASE ~LeaveClick(m)
      <3>1. /\ mpc[m] = "read" /\ mtok' = mtok /\ clicks' = clicks
            /\ \E l \in {"fill", "check"} : mpc' = [mpc EXCEPT ![m] = l]
            /\ mlast' = [mlast EXCEPT ![m] = last]
        BY <1>4, <2>2 DEF ClickRead
      <3>2. ClickType'
        BY <3>1 DEF ClickType, DbType
      <3> QED
        BY <1>1, <1>2, <1>4, <3>2 DEF ClickRead
    <2> QED
      BY <2>1, <2>2
  <1>5. CASE ClickFill(m)
    <2>1. ClickType'
      BY <1>5 DEF ClickFill, ClickType
    <2>2. ValkeyType'
      BY <1>5 DEF ClickFill, ClickType, ValkeyType
    <2> QED
      BY <1>1, <1>2, <1>5, <2>1, <2>2 DEF ClickFill
  <1>6. CASE ClickCheck(m)
    <2>1. CASE LeaveClick(m)
      BY <1>1, <1>2, <1>6, <2>1, LeaveClickType DEF ClickCheck
    <2>2. CASE ~LeaveClick(m)
      <3>1. /\ Token # None /\ mtok' = [mtok EXCEPT ![m] = Token] /\ clicks' = clicks
            /\ mpc' = [mpc EXCEPT ![m] = "verdict"] /\ mlast' = mlast
        BY <1>6, <2>2 DEF ClickCheck
      <3>2. ClickType'
        BY <3>1 DEF ClickType
      <3> QED
        BY <1>1, <1>2, <1>6, <3>2 DEF ClickCheck
    <2> QED
      BY <2>1, <2>2
  <1>7. CASE ClickVerdict(m) \/ ClickAsk(m)
    <2>1. CASE LeaveClick(m)
      BY <1>1, <1>2, <1>7, <2>1, LeaveClickType DEF ClickVerdict, ClickAsk
    <2>2. CASE ~LeaveClick(m)
      <3>1. /\ mpc[m] \in {"verdict", "ask"} /\ clicks' = clicks /\ UNCHANGED <<mlast, mtok>>
            /\ \E l \in {"ask", "publish"} : mpc' = [mpc EXCEPT ![m] = l]
        BY <1>7, <2>2 DEF ClickVerdict, ClickAsk
      <3>2. ClickType'
        BY <3>1 DEF ClickType
      <3> QED
        BY <1>1, <1>2, <1>7, <3>2 DEF ClickVerdict, ClickAsk
    <2> QED
      BY <2>1, <2>2
  <1>8. CASE ClickPublish(m)
    <2>1. ClickType'
      BY <1>8, LeaveClickType DEF ClickPublish
    <2>2. queued' \in BOOLEAN /\ manual' \in BOOLEAN
      BY <1>8 DEF ClickPublish, SyncType
    <2>3. SyncType'
      BY <1>8, <2>2 DEF ClickPublish, SyncType
    <2> QED
      BY <1>1, <1>2, <1>8, <2>1, <2>3 DEF ClickPublish
  <1> QED
    BY <1>3, <1>4, <1>5, <1>6, <1>7, <1>8 DEF ClickStep

(* The sync keeps the types. *)
LEMMA SyncTypes == ASSUME TypeOK, SyncStep PROVE TypeOK'
  <1> DbType /\ ValkeyType /\ SyncType /\ ErrType
    BY ZenonT(30) DEF TypeOK
  <1> USE ZenonT(30)
  <1>1. ASSUME UNCHANGED <<google, callback, validate, reader, click, bounds>>, Err \/ Fine,
               DbType', ValkeyType', SyncType'
        PROVE  TypeOK'
    BY <1>1, TypeFrame, ErrTypes DEF TypeOK
  <1>2. ASSUME queued' \in BOOLEAN, manual' = manual, stok' \in Grant \cup {None},
               spc' \in {"idle", "read", "run", "delete", "drop", "status", "stamp"}
        PROVE  SyncType'
    BY <1>2 DEF SyncType
  <1>3. CASE SyncStarts
    <2>1. stok' \in Grant \cup {None} /\ spc' \in {"read", "run"}
      BY <1>3, RowMade DEF SyncStarts, SyncType, ValkeyType
    <2>2. SyncType'
      BY <1>2, <1>3, <2>1 DEF SyncStarts
    <2> QED
      BY <1>1, <1>3, <2>2, TypeFrame DEF SyncStarts
  <1>4. CASE SyncReads
    <2>1. stok' \in Grant \cup {None} /\ spc' \in {"idle", "run"}
      BY <1>4, RowMade DEF SyncReads, SyncType, DbType
    <2>2. SyncType'
      BY <1>2, <1>4, <2>1 DEF SyncReads, SyncType
    <2> QED
      BY <1>1, <1>4, <2>2, TypeFrame DEF SyncReads
  <1>5. CASE SyncJudges
    <2>1. stok' \in Grant \cup {None} /\ spc' \in {"delete", "status"}
      BY <1>5 DEF SyncJudges, SyncType
    <2>2. SyncType'
      BY <1>2, <1>5, <2>1 DEF SyncJudges, SyncType
    <2> QED
      BY <1>1, <1>5, <2>2, TypeFrame DEF SyncJudges
  <1>6. CASE SyncDeletes
    <2>1. gone' \in BOOLEAN
      BY <1>6 DEF SyncDeletes, DbType
    <2>2. states' \subseteq Login /\ row' \in Row \cup {None} /\ last' \in Age
      BY <1>6 DEF SyncDeletes, DbType, Age
    <2>3. DbType'
      BY <2>1, <2>2 DEF DbType
    <2>4. SyncType'
      BY <1>2, <1>6 DEF SyncDeletes, SyncType
    <2> QED
      BY <1>1, <1>6, <2>3, <2>4, TypeFrame DEF SyncDeletes
  <1>7. CASE SyncDrops
    <2>1. ValkeyType'
      BY <1>7 DEF SyncDrops, ValkeyType
    <2>2. SyncType'
      BY <1>2, <1>7 DEF SyncDrops, SyncType
    <2> QED
      BY <1>1, <1>7, <2>1, <2>2, TypeFrame DEF SyncDrops
  <1>8. CASE SyncEnds
    <2>1. last' \in Age /\ gone' \in BOOLEAN
      BY <1>8 DEF SyncEnds, DbType, Age
    <2>2. DbType'
      BY <1>8, <2>1 DEF SyncEnds, DbType
    <2>3. SyncType'
      BY <1>2, <1>8 DEF SyncEnds, SyncType
    <2> QED
      BY <1>1, <1>8, <2>2, <2>3, TypeFrame DEF SyncEnds
  <1>9. CASE SyncStamps
    <2>1. ValkeyType'
      BY <1>9 DEF SyncStamps, ValkeyType, Age
    <2>2. SyncType'
      BY <1>2, <1>9 DEF SyncStamps, SyncType
    <2> QED
      BY <1>1, <1>9, <2>1, <2>2, TypeFrame DEF SyncStamps
  <1> QED
    BY <1>3, <1>4, <1>5, <1>6, <1>7, <1>8, <1>9 DEF SyncStep

(* Every step keeps the types. *)
LEMMA NextTypes == TypeOK /\ [Next]_vars => TypeOK'
  <1> SUFFICES ASSUME TypeOK, [Next]_vars PROVE TypeOK'
    BY ZenonT(30)
  <1> /\ GoogleType /\ DbType /\ ValkeyType /\ ClickType /\ SyncType /\ ErrType /\ BoundsType
    BY ZenonT(30) DEF TypeOK
  <1> USE ZenonT(30)
  <1>1. ASSUME NEW l \in Login, GoogleLogin(l) \/ ExpireState(l) PROVE TypeOK'
    <2>1. /\ states' \subseteq Login /\ UNCHANGED <<row, gone, last>> /\ Fine
          /\ UNCHANGED <<google, valkey, callback, validate, reader, click, sync, bounds>>
      BY <1>1 DEF GoogleLogin, ExpireState, DbType, Fine
    <2>2. DbType'
      BY <2>1 DEF DbType
    <2> QED
      BY <2>1, <2>2, TypeFrame, ErrTypes DEF TypeOK
  <1>2. ASSUME MinutePasses PROVE TypeOK'
    <2>1. last' \in Age /\ lcache' \in Age /\ mlast' \in [Click -> Age]
      BY <1>2 DEF MinutePasses, DbType, ValkeyType, ClickType, Age
    <2>2. DbType'
      BY <1>2, <2>1 DEF MinutePasses, DbType
    <2>3. ValkeyType'
      BY <1>2, <2>1 DEF MinutePasses, ValkeyType
    <2>4. ClickType'
      BY <1>2, <2>1 DEF MinutePasses, ClickType
    <2>5. SyncType'
      BY <1>2 DEF MinutePasses, SyncType
    <2>6. UNCHANGED <<google, callback, validate, reader, bounds>> /\ Fine
      BY <1>2 DEF MinutePasses, Fine
    <2> QED
      BY <2>2, <2>3, <2>4, <2>5, <2>6, TypeFrame, ErrTypes DEF TypeOK
  <1>3. ASSUME ExpireVerdict \/ ExpireProfile \/ ExpireLast PROVE TypeOK'
    <2>1. ValkeyType'
      BY <1>3 DEF ExpireVerdict, ExpireProfile, ExpireLast, ValkeyType, Age
    <2>2. UNCHANGED <<google, db, callback, validate, reader, click, sync, bounds>> /\ Fine
      BY <1>3 DEF ExpireVerdict, ExpireProfile, ExpireLast, Fine
    <2> QED
      BY <2>1, <2>2, TypeFrame, ErrTypes DEF TypeOK
  <1>4. ASSUME Revoke PROVE TypeOK'
    <2>1. GoogleType'
      BY <1>4 DEF Revoke, GoogleType
    <2>2. BoundsType'
      BY <1>4, AccessAssumption, SMTT(30) DEF Revoke, BoundsType
    <2>3. UNCHANGED <<db, valkey, callback, validate, reader, click, sync>> /\ Fine
      BY <1>4 DEF Revoke, Fine
    <2> QED
      BY <2>1, <2>2, <2>3, TypeFrame, ErrTypes DEF TypeOK
  <1>5. ASSUME UNCHANGED vars PROVE TypeOK'
    BY <1>5, TypeFrame, ErrTypes DEF vars, TypeOK, Fine
  <1>6. ASSUME SyncAllUsers PROVE TypeOK'
    <2>1. BoundsType'
      BY <1>6, AccessAssumption, SMTT(30) DEF SyncAllUsers, BoundsType
    <2>2. queued' \in BOOLEAN /\ UNCHANGED <<spc, stok, manual>>
      BY <1>6 DEF SyncAllUsers
    <2>3. SyncType'
      BY <2>2 DEF SyncType
    <2>4. UNCHANGED <<google, db, valkey, callback, validate, reader, click>> /\ Fine
      BY <1>6 DEF SyncAllUsers, Fine
    <2> QED
      BY <2>1, <2>3, <2>4, TypeFrame, ErrTypes DEF TypeOK
  <1> QED
    BY <1>1, <1>2, <1>3, <1>4, <1>5, <1>6, CallbackTypes, ValidateTypes, ReaderTypes, ClickTypes, SyncTypes
       DEF Next
-----------------------------------------------------------------------------
(* No step lets a login be exchanged a second time. *)
LEMMA NextLogin ==
    ASSUME TypeOK, LoginInv, StateUsedOnce, [Next]_vars
    PROVE  LoginInv' /\ StateUsedOnce'
  <1> DEFINE Goal == LoginInv' /\ StateUsedOnce'
  <1> GoogleType /\ DbType /\ CallbackType
    BY ZenonT(30) DEF TypeOK
  <1> USE ZenonT(30)
  <1>1. ASSUME UNCHANGED <<states, exchanged, bpc, blog>> PROVE Goal
    BY <1>1 DEF LoginInv, StateUsedOnce
  <1>2. ASSUME NEW l \in Login, GoogleLogin(l) PROVE Goal
    BY <1>2 DEF GoogleLogin, google, callback, LoginInv, StateUsedOnce
  <1>3. ASSUME NEW l \in Login, ExpireState(l) PROVE Goal
    BY <1>3 DEF ExpireState, google, callback, LoginInv, StateUsedOnce
  <1>4. ASSUME NEW b \in Callback, NEW l \in Login, ConsumeState(b, l) PROVE Goal
    <2>1. /\ l \in states /\ states' = states \ {l} /\ UNCHANGED exchanged
          /\ blog' = [blog EXCEPT ![b] = l] /\ bpc' = [bpc EXCEPT ![b] = "exchange"]
      BY <1>4 DEF ConsumeState, google
    <2> QED
      BY <2>1 DEF LoginInv, StateUsedOnce, CallbackType
  <1>5. ASSUME NEW b \in Callback, LeaveCallback(b), UNCHANGED <<states, exchanged>> PROVE Goal
    BY <1>5, AccessAssumption, SMTT(30) DEF LeaveCallback, LoginInv, StateUsedOnce, CallbackType, DbType
  <1>6. ASSUME NEW b \in Callback, Exchange(b) PROVE Goal
    <2> DEFINE l == blog[b]
    <2>1. /\ l \in Login /\ exchanged[l] = 0 /\ l \notin states
          /\ exchanged' = [exchanged EXCEPT ![l] = 1] /\ UNCHANGED states
          /\ \A a \in Callback : a # b => blog[a] # l
      <3>1. bpc[b] = "exchange" /\ exchanged' = [exchanged EXCEPT ![l] = @ + 1] /\ UNCHANGED states
        BY <1>6 DEF Exchange, db
      <3>2. l \in Login /\ exchanged[l] = 0 /\ l # None
        BY <3>1, SMTT(30) DEF CallbackType, LoginInv
      <3> QED
        BY <3>1, <3>2, SMTT(30) DEF LoginInv, GoogleType
    <2>2. \/ UNCHANGED blog /\ bpc' = [bpc EXCEPT ![b] = "userinfo"]
          \/ LeaveCallback(b)
      BY <1>6 DEF Exchange
    <2>3. StateUsedOnce'
      BY <2>1, SMTT(30) DEF StateUsedOnce, GoogleType
    <2>4. \A k \in states' : exchanged'[k] = 0 /\ \A a \in Callback : blog'[a] # k
      BY <2>1, <2>2, AccessAssumption, SMTT(30) DEF LoginInv, LeaveCallback, GoogleType, DbType, CallbackType
    <2>5. \A a \in Callback : bpc'[a] = "exchange" => exchanged'[blog'[a]] = 0
      BY <2>1, <2>2, SMTT(30) DEF LoginInv, LeaveCallback, GoogleType, CallbackType
    <2>6. \A a, c \in Callback : blog'[a] = blog'[c] /\ blog'[a] # None => a = c
      BY <2>2 DEF LoginInv, LeaveCallback, CallbackType
    <2> QED
      BY <2>3, <2>4, <2>5, <2>6 DEF LoginInv
  <1>7. ASSUME NEW b \in Callback, UserInfo(b) \/ Upsert(b) PROVE Goal
    <2> DEFINE Moves == /\ UNCHANGED blog
                        /\ \E p \in {"upsert", "drop", "dropNew"} : bpc' = [bpc EXCEPT ![b] = p]
    <2>1. UNCHANGED <<states, exchanged>> /\ (LeaveCallback(b) \/ Moves)
      BY <1>7 DEF UserInfo, Upsert, google, db
    <2>2. CASE LeaveCallback(b)
      BY <1>5, <2>1, <2>2
    <2>3. CASE Moves
      BY <2>1, <2>3 DEF LoginInv, StateUsedOnce, CallbackType
    <2> QED
      BY <2>1, <2>2, <2>3
  <1>8. ASSUME NEW b \in Callback, DropCaches(b) PROVE Goal
    BY <1>5, <1>8 DEF DropCaches, google, db
  <1>9. ASSUME NEW v \in Validator, ValidateMiss(v) \/ ValidateStep(v) PROVE Goal
    <2>1. UNCHANGED <<google, db, callback>>
      BY <1>9 DEF ValidateMiss, ValidateStep, ValidateRead, ValidateAsk, ValidateWrite
    <2> QED
      BY <1>1, <2>1 DEF google, db, callback
  <1>10. ASSUME NEW r \in Reader, ProfileMiss(r) \/ ReaderStep(r) PROVE Goal
    <2>1. UNCHANGED <<google, db, callback>>
      BY <1>10 DEF ProfileMiss, ReaderStep, MeRead, OtherRead, ProfileRead, ProfileFill
    <2> QED
      BY <1>1, <2>1 DEF google, db, callback
  <1>11. ASSUME NEW m \in Click, ClickStart(m) \/ ClickStep(m) PROVE Goal
    <2>1. UNCHANGED <<google, db, callback>>
      BY <1>11 DEF ClickStart, ClickStep, ClickRead, ClickFill, ClickCheck, ClickVerdict, ClickAsk,
                   ClickPublish
    <2> QED
      BY <1>1, <2>1 DEF google, db, callback
  <1>12. ASSUME SyncAllUsers \/ SyncStep \/ MinutePasses \/ UNCHANGED vars PROVE Goal
    <2>1. UNCHANGED <<google, states, callback>>
      BY <1>12 DEF SyncAllUsers, SyncStep, SyncStarts, SyncReads, SyncJudges, SyncDeletes, SyncDrops,
                   SyncEnds, SyncStamps, MinutePasses, vars, db
    <2> QED
      BY <1>1, <2>1 DEF google, callback
  <1>13. ASSUME ExpireVerdict \/ ExpireProfile \/ ExpireLast \/ Revoke PROVE Goal
    <2>1. UNCHANGED <<exchanged, db, callback>>
      BY <1>13 DEF ExpireVerdict, ExpireProfile, ExpireLast, Revoke, google
    <2> QED
      BY <1>1, <2>1 DEF db, callback
  <1> QED
    BY <1>2, <1>3, <1>4, <1>6, <1>7, <1>8, <1>9, <1>10, <1>11, <1>12, <1>13
       DEF Next, CallbackStep

(* The part of the invariant that speaks of tokens. *)
Tokens == TokenInv /\ AccessMatchesToken

(* What TokenInv says of one callback. *)
CallbackTokens(b) ==
    /\ bpc[b] \in {"idle", "exchange"} => btok[b] = None
    /\ btok[b] # None => grants[btok[b]] # "unused"
    /\ btok[b] # None /\ grants[btok[b]] # "revoked" => (bscope[b] <=> Full(btok[b]))
    /\ bpc[b] \notin {"idle", "exchange"} /\ tokenless = 0 => btok[b] # None

(* A callback that moves on with what it holds, before or after its        *)
(* exchange, or ends, keeps what the others hold.                          *)
LEMMA TokenFrame ==
    ASSUME TypeOK, Tokens, UNCHANGED <<row, grants, tokenless>>,
           \/ UNCHANGED <<btok, bscope, bpc>>
           \/ \E b \in Callback : LeaveCallback(b)
           \/ /\ UNCHANGED <<btok, bscope>>
              /\ \E b \in Callback, l \in {"exchange", "upsert"} :
                    /\ bpc[b] = IF l = "exchange" THEN "idle" ELSE "userinfo"
                    /\ bpc' = [bpc EXCEPT ![b] = l]
    PROVE  Tokens'
  <1> CallbackType
    BY ZenonT(30) DEF TypeOK
  <1> USE ZenonT(30)
  <1>1. AccessMatchesToken' /\ (Token' # None => grants'[Token'] # "unused")
    BY DEF Tokens, TokenInv, AccessMatchesToken, Token, Full
  <1>2. ASSUME NEW c \in Callback PROVE CallbackTokens(c)'
    <2>1. CallbackTokens(c)
      BY DEF Tokens, TokenInv, CallbackTokens
    <2>2. CASE UNCHANGED <<btok, bscope, bpc>>
      BY <2>1, <2>2 DEF CallbackTokens, Full
    <2>3. ASSUME NEW b \in Callback, LeaveCallback(b) PROVE CallbackTokens(c)'
      <3>1. CASE c = b
        <4>1. btok'[c] = None /\ bpc'[c] = "idle"
          BY <2>3, <3>1 DEF LeaveCallback, CallbackType
        <4> QED
          BY <4>1 DEF CallbackTokens
      <3>2. CASE c # b
        <4>1. btok'[c] = btok[c] /\ bpc'[c] = bpc[c]
          BY <2>3, <3>2 DEF LeaveCallback, CallbackType
        <4>2. bscope'[c] = bscope[c]
          BY <2>3, <3>2 DEF LeaveCallback, CallbackType
        <4> QED
          BY <2>1, <4>1, <4>2 DEF CallbackTokens, Full
      <3> QED
        BY <3>1, <3>2
    <2>4. ASSUME NEW b \in Callback, NEW l \in {"exchange", "upsert"}, UNCHANGED <<btok, bscope>>,
                 bpc[b] = IF l = "exchange" THEN "idle" ELSE "userinfo",
                 bpc' = [bpc EXCEPT ![b] = l]
          PROVE  CallbackTokens(c)'
      <3>1. bpc'[c] \in {"idle", "exchange"} <=> bpc[c] \in {"idle", "exchange"}
        BY <2>4 DEF CallbackType
      <3> QED
        BY <2>1, <2>4, <3>1 DEF CallbackTokens, Full
    <2> QED
      BY <2>2, <2>3, <2>4
  <1> QED
    BY <1>1, <1>2 DEF Tokens, TokenInv, CallbackTokens

(* The token a login brings is none that anybody holds. *)
LEMMA ExchangeTokens == ASSUME TypeOK, Tokens, NEW b \in Callback, Exchange(b) PROVE Tokens'
  <1> GoogleType /\ DbType /\ CallbackType /\ BoundsType
    BY ZenonT(30) DEF TypeOK
  <1> USE ZenonT(30)
  <1>1. UNCHANGED row /\ bpc[b] = "exchange"
    BY DEF Exchange, db
  <1>2. CASE LeaveCallback(b) /\ UNCHANGED <<grants, tokenless>>
    BY <1>1, <1>2, TokenFrame
  <1>3. CASE ~(LeaveCallback(b) /\ UNCHANGED <<grants, tokenless>>)
    <2>1. PICK g \in Grant, full \in BOOLEAN :
            /\ grants[g] = "unused"
            /\ grants' = [grants EXCEPT ![g] = IF full THEN "full" ELSE "basic"]
            /\ bscope' = [bscope EXCEPT ![b] = full]
            /\ \/ btok' = [btok EXCEPT ![b] = g] /\ UNCHANGED tokenless
               \/ tokenless' = tokenless + 1 /\ UNCHANGED btok
            /\ bpc' = [bpc EXCEPT ![b] = "userinfo"]
      BY <1>3 DEF Exchange
    <2>2. grants'[g] \in {"full", "basic"} /\ (grants'[g] = "full" <=> full)
      BY <2>1 DEF GoogleType
    <2>3. ASSUME NEW h \in Grant, grants[h] # "unused" PROVE grants'[h] = grants[h]
      BY <2>1, <2>3 DEF GoogleType
    <2>4. tokenless' = 0 => tokenless = 0 /\ btok' = [btok EXCEPT ![b] = g]
      BY <2>1, SMTT(30) DEF BoundsType
    <2>5. Token' = Token /\ Token \in Grant \cup {None}
      BY <1>1, TokenType DEF Token
    <2>6. AccessMatchesToken'
      <3>1. ASSUME tokenless' = 0, Token # None, grants'[Token] # "revoked"
            PROVE  grants'[Token] = grants[Token] /\ (row.access <=> Full(Token))
        BY <2>3, <2>4, <2>5, <3>1 DEF Tokens, TokenInv, AccessMatchesToken
      <3> QED
        BY <1>1, <2>5, <3>1 DEF AccessMatchesToken, Full
    <2>7. Token' # None => grants'[Token'] # "unused"
      BY <2>3, <2>5 DEF Tokens, TokenInv
    <2>8. ASSUME NEW c \in Callback PROVE CallbackTokens(c)'
      <3>1. CallbackTokens(c)
        BY DEF Tokens, TokenInv, CallbackTokens
      <3>2. CASE c # b
        <4>1. btok'[c] = btok[c] /\ bpc'[c] = bpc[c] /\ btok[c] \in Grant \cup {None}
          BY <2>1, <3>2 DEF CallbackType
        <4>2. bscope'[c] = bscope[c]
          BY <2>1, <3>2 DEF CallbackType
        <4>3. btok[c] # None => grants'[btok[c]] = grants[btok[c]]
          BY <2>3, <3>1, <4>1 DEF CallbackTokens
        <4> QED
          BY <2>4, <3>1, <4>1, <4>2, <4>3 DEF CallbackTokens, Full
      <3>3. CASE c = b /\ btok' = [btok EXCEPT ![b] = g]
        <4>1. btok'[b] = g /\ bpc'[b] = "userinfo" /\ g # None
          BY <2>1, <3>3, AccessAssumption DEF CallbackType
        <4>2. bscope'[b] = full
          BY <2>1 DEF CallbackType
        <4>3. grants'[g] # "unused" /\ bpc'[b] \notin {"idle", "exchange"}
          BY <2>2, <4>1
        <4> QED
          BY <2>2, <3>3, <4>1, <4>2, <4>3 DEF CallbackTokens, Full
      <3>4. CASE c = b /\ btok' # [btok EXCEPT ![b] = g]
        <4>1. btok'[b] = None /\ bpc'[b] = "userinfo" /\ tokenless' # 0
          BY <1>1, <2>1, <2>4, <3>1, <3>4 DEF CallbackTokens, CallbackType
        <4> QED
          BY <3>4, <4>1 DEF CallbackTokens
      <3> QED
        BY <3>2, <3>3, <3>4
    <2> QED
      BY <2>6, <2>7, <2>8 DEF Tokens, TokenInv, CallbackTokens
  <1> QED
    BY <1>2, <1>3

(* The upsert stores a token together with its scope. *)
LEMMA UpsertTokens == ASSUME TypeOK, Tokens, NEW b \in Callback, Upsert(b) PROVE Tokens'
  <1> GoogleType /\ DbType /\ CallbackType /\ BoundsType
    BY ZenonT(30) DEF TypeOK
  <1> USE ZenonT(30)
  <1>1. UNCHANGED <<grants, tokenless>> /\ bpc[b] = "upsert"
    BY DEF Upsert, google, bounds
  <1>2. CASE LeaveCallback(b) /\ UNCHANGED row
    BY <1>1, <1>2, TokenFrame
  <1>3. CASE ~(LeaveCallback(b) /\ UNCHANGED row)
    <2> DEFINE tok == IF btok[b] # None \/ row = None THEN btok[b] ELSE row.token
    <2>1. /\ row' = [token |-> tok, access |-> bscope[b]]
          /\ \E p \in {"drop", "dropNew"} : bpc' = [bpc EXCEPT ![b] = p]
          /\ UNCHANGED <<btok, bscope>>
      BY <1>3 DEF Upsert
    <2>2. tok \in Grant \cup {None} /\ bscope[b] \in BOOLEAN
      <3>1. bscope[b] \in BOOLEAN
        BY DEF CallbackType
      <3> QED
        BY <3>1, RowMade DEF CallbackType, DbType
    <2>3. row' # None /\ Token' = tok
      <3>1. row' \in Row
        BY <2>1, <2>2, RowMade
      <3>2. row'.token = tok
        BY <2>1
      <3> QED
        BY <3>1, <3>2, RowMade DEF Token
    <2>4. tok # None => grants[tok] # "unused"
      BY DEF Tokens, TokenInv, Token
    <2>5. tokenless = 0 => tok = btok[b] /\ btok[b] # None
      BY <1>1 DEF Tokens, TokenInv
    <2>6. AccessMatchesToken'
      <3>1. row'.access = bscope[b]
        BY <2>1
      <3> HIDE DEF tok
      <3> QED
        BY <1>1, <2>3, <2>5, <3>1 DEF Tokens, TokenInv, AccessMatchesToken, Full
    <2> HIDE DEF tok
    <2>7. Token' # None => grants'[Token'] # "unused"
      BY <1>1, <2>3, <2>4
    <2>8. ASSUME NEW c \in Callback PROVE CallbackTokens(c)'
      <3>1. CallbackTokens(c)
        BY DEF Tokens, TokenInv, CallbackTokens
      <3>2. bpc'[c] \in {"idle", "exchange"} <=> bpc[c] \in {"idle", "exchange"}
        BY <1>1, <2>1 DEF CallbackType
      <3> QED
        BY <1>1, <2>1, <3>1, <3>2 DEF CallbackTokens, Full
    <2> QED
      BY <2>6, <2>7, <2>8 DEF Tokens, TokenInv, CallbackTokens
  <1> QED
    BY <1>2, <1>3

(* Every step keeps what is known of the tokens. *)
LEMMA NextTokens == ASSUME TypeOK, Tokens, [Next]_vars PROVE Tokens'
  <1> GoogleType /\ DbType /\ CallbackType
    BY ZenonT(30) DEF TypeOK
  <1> USE ZenonT(30)
  <1>1. ASSUME UNCHANGED <<google, row, callback, tokenless>> PROVE Tokens'
    BY <1>1, TokenFrame DEF google, callback
  <1>2. ASSUME NEW l \in Login, GoogleLogin(l) \/ ExpireState(l) PROVE Tokens'
    BY <1>1, <1>2 DEF GoogleLogin, ExpireState, bounds
  <1>3. ASSUME NEW b \in Callback, NEW l \in Login, ConsumeState(b, l) PROVE Tokens'
    BY <1>3, TokenFrame DEF ConsumeState, google, bounds
  <1>4. ASSUME NEW b \in Callback, UserInfo(b) \/ DropCaches(b) PROVE Tokens'
    <2>1. UNCHANGED <<row, grants, tokenless>>
      BY <1>4 DEF UserInfo, DropCaches, google, db, bounds
    <2>2. \/ LeaveCallback(b)
          \/ /\ bpc[b] = "userinfo" /\ bpc' = [bpc EXCEPT ![b] = "upsert"]
             /\ UNCHANGED <<btok, bscope>>
      BY <1>4 DEF UserInfo, DropCaches
    <2> QED
      BY <2>1, <2>2, TokenFrame
  <1>5. ASSUME NEW v \in Validator, ValidateMiss(v) \/ ValidateStep(v) PROVE Tokens'
    <2>1. UNCHANGED <<google, db, callback, bounds>>
      BY <1>5 DEF ValidateMiss, ValidateStep, ValidateRead, ValidateAsk, ValidateWrite
    <2> QED
      BY <1>1, <2>1 DEF db, bounds
  <1>6. ASSUME NEW r \in Reader, ProfileMiss(r) \/ ReaderStep(r) PROVE Tokens'
    <2>1. UNCHANGED <<google, db, callback, bounds>>
      BY <1>6 DEF ProfileMiss, ReaderStep, MeRead, OtherRead, ProfileRead, ProfileFill
    <2> QED
      BY <1>1, <2>1 DEF db, bounds
  <1>7. ASSUME NEW m \in Click, ClickStart(m) \/ ClickStep(m) PROVE Tokens'
    <2>1. UNCHANGED <<google, db, callback, bounds>>
      BY <1>7 DEF ClickStart, ClickStep, ClickRead, ClickFill, ClickCheck, ClickVerdict, ClickAsk,
                  ClickPublish
    <2> QED
      BY <1>1, <2>1 DEF db, bounds
  <1>8. ASSUME SyncAllUsers \/ SyncStarts \/ SyncReads \/ SyncJudges \/ SyncDrops \/ SyncEnds
               \/ SyncStamps \/ MinutePasses \/ UNCHANGED vars
        PROVE  Tokens'
    <2>1. UNCHANGED <<google, row, callback, tokenless>>
      BY <1>8 DEF SyncAllUsers, SyncStarts, SyncReads, SyncJudges, SyncDrops, SyncEnds, SyncStamps,
                  MinutePasses, vars, db, bounds
    <2> QED
      BY <1>1, <2>1
  <1>9. ASSUME SyncDeletes PROVE Tokens'
    <2>1. UNCHANGED <<google, callback, tokenless>> /\ (row' = row \/ row' = None)
      BY <1>9 DEF SyncDeletes, bounds
    <2>2. CASE row' = None
      <3>1. Token' = None
        BY <2>2 DEF Token
      <3>2. UNCHANGED <<grants, btok, bscope, bpc, tokenless>>
        BY <2>1 DEF google, callback
      <3> QED
        BY <3>1, <3>2 DEF Tokens, TokenInv, AccessMatchesToken, Full
    <2> QED
      BY <1>1, <2>1, <2>2
  <1>10. ASSUME ExpireVerdict \/ ExpireProfile \/ ExpireLast PROVE Tokens'
    BY <1>1, <1>10 DEF ExpireVerdict, ExpireProfile, ExpireLast, db, bounds
  <1>11. ASSUME Revoke PROVE Tokens'
    <2>1. UNCHANGED <<row, btok, bscope, bpc, tokenless>>
      BY <1>11 DEF Revoke, db, callback
    <2>2. \A g \in Grant : grants[g] # "unused" => grants'[g] = "revoked"
      BY <1>11 DEF Revoke, GoogleType
    <2>3. Token' = Token /\ Token \in Grant \cup {None}
      BY <2>1, TokenType DEF Token
    <2>4. AccessMatchesToken' /\ (Token' # None => grants'[Token'] # "unused")
      BY <2>2, <2>3 DEF Tokens, TokenInv, AccessMatchesToken
    <2>5. ASSUME NEW c \in Callback PROVE CallbackTokens(c)'
      <3>1. CallbackTokens(c)
        BY DEF Tokens, TokenInv, CallbackTokens
      <3>2. btok[c] # None => grants'[btok[c]] = "revoked"
        BY <2>2, <3>1 DEF CallbackTokens, CallbackType
      <3> QED
        BY <2>1, <3>1, <3>2 DEF CallbackTokens
    <2> QED
      BY <2>4, <2>5 DEF Tokens, TokenInv, CallbackTokens
  <1> QED
    BY <1>2, <1>3, <1>4, <1>5, <1>6, <1>7, <1>8, <1>9, <1>10, <1>11, ExchangeTokens, UpsertTokens
       DEF Next, CallbackStep, SyncStep
-----------------------------------------------------------------------------
(* What a step does to a token that somebody holds a copy of: it stays     *)
(* issued, stays revoked, and its row keeps a token or is deleted.         *)
Stays(g) ==
    /\ Known(g) => Known(g)'
    /\ g # None /\ grants[g] = "revoked" => grants'[g] = "revoked"

(* Only the DELETE of handleSyncError takes the row away. *)
LEMMA OnlySyncDeletes == ASSUME [Next]_vars, ~SyncDeletes PROVE UNCHANGED gone
  <1> USE ZenonT(30)
  <1>1. ASSUME NEW l \in Login, GoogleLogin(l) \/ ExpireState(l) PROVE UNCHANGED gone
    BY <1>1 DEF GoogleLogin, ExpireState
  <1>2. ASSUME NEW b \in Callback, (\E l \in Login : ConsumeState(b, l)) \/ CallbackStep(b)
        PROVE  UNCHANGED gone
    BY <1>2 DEF ConsumeState, CallbackStep, Exchange, UserInfo, Upsert, DropCaches, db
  <1>3. ASSUME NEW v \in Validator, ValidateMiss(v) \/ ValidateStep(v) PROVE UNCHANGED gone
    BY <1>3 DEF ValidateMiss, ValidateStep, ValidateRead, ValidateAsk, ValidateWrite, db
  <1>4. ASSUME NEW r \in Reader, ProfileMiss(r) \/ ReaderStep(r) PROVE UNCHANGED gone
    BY <1>4 DEF ProfileMiss, ReaderStep, MeRead, OtherRead, ProfileRead, ProfileFill, db
  <1>5. ASSUME NEW m \in Click, ClickStart(m) \/ ClickStep(m) PROVE UNCHANGED gone
    BY <1>5 DEF ClickStart, ClickStep, ClickRead, ClickFill, ClickCheck, ClickVerdict, ClickAsk,
                ClickPublish, db
  <1>6. ASSUME SyncAllUsers \/ SyncStep \/ MinutePasses PROVE UNCHANGED gone
    BY <1>6 DEF SyncAllUsers, SyncStep, SyncStarts, SyncReads, SyncJudges, SyncDrops, SyncEnds,
                SyncStamps, MinutePasses, db
  <1>7. ASSUME ExpireVerdict \/ ExpireProfile \/ ExpireLast \/ Revoke \/ UNCHANGED vars
        PROVE  UNCHANGED gone
    BY <1>7 DEF ExpireVerdict, ExpireProfile, ExpireLast, Revoke, vars, db
  <1> QED
    BY <1>1, <1>2, <1>3, <1>4, <1>5, <1>6, <1>7 DEF Next

(* Tokens that are issued, revoked or stored remain so, but for the DELETE. *)
LEMMA KnownStays == ASSUME TypeOK, [Next]_vars, NEW g \in Grant \cup {None} PROVE Stays(g)
  <1> GoogleType /\ DbType /\ CallbackType
    BY ZenonT(30) DEF TypeOK
  <1> USE ZenonT(30)
  <1>1. ASSUME UNCHANGED <<grants, row, gone>> PROVE Stays(g)
    BY <1>1 DEF Stays, Known
  <1>2. ASSUME NEW l \in Login, GoogleLogin(l) \/ ExpireState(l) PROVE Stays(g)
    BY <1>1, <1>2 DEF GoogleLogin, ExpireState, google
  <1>3. ASSUME NEW b \in Callback, UserInfo(b) \/ DropCaches(b) \/ \E l \in Login : ConsumeState(b, l)
        PROVE  Stays(g)
    BY <1>1, <1>3 DEF UserInfo, DropCaches, ConsumeState, google, db
  <1>4. ASSUME NEW b \in Callback, Exchange(b) PROVE Stays(g)
    <2>1. UNCHANGED <<row, gone>>
      BY <1>4 DEF Exchange, db
    <2>2. \/ UNCHANGED grants
          \/ \E h \in Grant, x \in {"full", "basic"} :
                grants[h] = "unused" /\ grants' = [grants EXCEPT ![h] = x]
      BY <1>4 DEF Exchange
    <2>3. g # None /\ grants[g] # "unused" => grants'[g] = grants[g]
      BY <2>2 DEF GoogleType
    <2> QED
      BY <2>1, <2>3 DEF Stays, Known
  <1>5. ASSUME NEW b \in Callback, Upsert(b) PROVE Stays(g)
    <2>1. UNCHANGED <<grants, gone>>
      BY <1>5 DEF Upsert, google
    <2>2. CASE UNCHANGED row
      BY <1>1, <2>1, <2>2
    <2>3. CASE ~UNCHANGED row
      <3> DEFINE tok == IF btok[b] # None \/ row = None THEN btok[b] ELSE row.token
      <3>1. ~gone /\ row' = [token |-> tok, access |-> bscope[b]]
        BY <1>5, <2>3 DEF Upsert
      <3>2. row'.token = tok
        BY <3>1
      <3>3. row # None /\ row.token # None => tok # None
        OBVIOUS
      <3>4. tok \in Grant \cup {None} /\ bscope[b] \in BOOLEAN
        <4>1. bscope[b] \in BOOLEAN
          BY DEF CallbackType
        <4> QED
          BY <4>1, RowMade DEF CallbackType, DbType
      <3>5. row' # None
        BY <3>1, <3>4, RowMade
      <3> HIDE DEF tok
      <3> QED
        BY <2>1, <3>1, <3>2, <3>3, <3>5 DEF Stays, Known
    <2> QED
      BY <2>2, <2>3
  <1>6. ASSUME NEW v \in Validator, ValidateMiss(v) \/ ValidateStep(v) PROVE Stays(g)
    BY <1>1, <1>6 DEF ValidateMiss, ValidateStep, ValidateRead, ValidateAsk, ValidateWrite, google, db
  <1>7. ASSUME NEW r \in Reader, ProfileMiss(r) \/ ReaderStep(r) PROVE Stays(g)
    BY <1>1, <1>7 DEF ProfileMiss, ReaderStep, MeRead, OtherRead, ProfileRead, ProfileFill, google, db
  <1>8. ASSUME NEW m \in Click, ClickStart(m) \/ ClickStep(m) PROVE Stays(g)
    BY <1>1, <1>8 DEF ClickStart, ClickStep, ClickRead, ClickFill, ClickCheck, ClickVerdict, ClickAsk,
                      ClickPublish, google, db
  <1>9. ASSUME SyncAllUsers \/ SyncStarts \/ SyncReads \/ SyncJudges \/ SyncDrops \/ SyncEnds
               \/ SyncStamps \/ MinutePasses
        PROVE  Stays(g)
    BY <1>1, <1>9 DEF SyncAllUsers, SyncStarts, SyncReads, SyncJudges, SyncDrops, SyncEnds,
                      SyncStamps, MinutePasses, google, db
  <1>10. ASSUME SyncDeletes PROVE Stays(g)
    <2>1. UNCHANGED grants
      BY <1>10 DEF SyncDeletes, google
    <2>2. UNCHANGED <<row, gone>> \/ (row' = None /\ (gone \/ row # None => gone'))
      BY <1>10 DEF SyncDeletes
    <2>3. CASE row' = None /\ (gone \/ row # None => gone')
      <3>1. Known(g) /\ g # None => gone'
        BY <2>3 DEF Known
      <3> QED
        BY <2>1, <2>3, <3>1 DEF Stays, Known
    <2> QED
      BY <1>1, <2>1, <2>2, <2>3
  <1>11. ASSUME ExpireVerdict \/ ExpireProfile \/ ExpireLast \/ UNCHANGED vars PROVE Stays(g)
    BY <1>1, <1>11 DEF ExpireVerdict, ExpireProfile, ExpireLast, vars, google, db
  <1>12. ASSUME Revoke PROVE Stays(g)
    <2>1. UNCHANGED <<row, gone>>
      BY <1>12 DEF Revoke, db
    <2>2. g # None /\ grants[g] # "unused" => grants'[g] = "revoked"
      BY <1>12 DEF Revoke, GoogleType
    <2> QED
      BY <2>1, <2>2 DEF Stays, Known
  <1> QED
    BY <1>2, <1>3, <1>4, <1>5, <1>6, <1>7, <1>8, <1>9, <1>10, <1>11, <1>12
       DEF Next, CallbackStep, SyncStep

(* Where a step takes the copies from. *)
CopyMoves ==
    /\ \/ ucache' \in {None, ucache}
       \/ \E r \in Reader : ucache' = rrow[r]
    /\ \A r \in Reader :
          \/ rrow'[r] \in {None, rrow[r]}
          \/ row # None /\ rrow'[r].token = row.token
    /\ \/ stok' \in {None, stok}
       \/ ucache # None /\ stok' = ucache.token
       \/ row # None /\ stok' = row.token
    /\ spc' = "delete" =>
          stok' = stok /\ (spc = "delete" \/ (stok # None /\ grants[stok] = "revoked"))

(* A copy of the token comes from the row or from another copy. *)
LEMMA NextMoves == ASSUME TypeOK, [Next]_vars PROVE CopyMoves
  <1> DbType /\ ReaderType
    BY ZenonT(30) DEF TypeOK
  <1> USE ZenonT(30)
  <1>1. ASSUME UNCHANGED <<ucache, reader, sync>> PROVE CopyMoves
    BY <1>1 DEF CopyMoves, reader, sync
  <1>2. ASSUME NEW l \in Login, GoogleLogin(l) \/ ExpireState(l) PROVE CopyMoves
    BY <1>1, <1>2 DEF GoogleLogin, ExpireState, valkey
  <1>3. ASSUME NEW b \in Callback,
               Exchange(b) \/ UserInfo(b) \/ Upsert(b) \/ \E l \in Login : ConsumeState(b, l)
        PROVE  CopyMoves
    BY <1>1, <1>3 DEF Exchange, UserInfo, Upsert, ConsumeState, valkey
  <1>4. ASSUME NEW b \in Callback, DropCaches(b) PROVE CopyMoves
    BY <1>4 DEF DropCaches, CopyMoves, reader
  <1>5. ASSUME NEW v \in Validator, ValidateMiss(v) \/ ValidateStep(v) PROVE CopyMoves
    BY <1>1, <1>5 DEF ValidateMiss, ValidateStep, ValidateRead, ValidateAsk, ValidateWrite, valkey
  <1>6. ASSUME NEW r \in Reader, ProfileMiss(r) PROVE CopyMoves
    BY <1>6 DEF ProfileMiss, CopyMoves, valkey, sync
  <1>7. ASSUME NEW r \in Reader, NEW R, row # None => R.token = row.token, ProfileRead(r, R)
        PROVE  CopyMoves
    <2>1. UNCHANGED <<ucache, spc, stok>>
      BY <1>7 DEF ProfileRead, valkey, sync
    <2>2. UNCHANGED rrow \/ (row # None /\ rrow' = [rrow EXCEPT ![r] = R])
      BY <1>7 DEF ProfileRead
    <2>3. ASSUME NEW q \in Reader
          PROVE  rrow'[q] = rrow[q] \/ (row # None /\ rrow'[q] = R)
      BY <2>2 DEF ReaderType
    <2> QED
      BY <1>7, <2>1, <2>3 DEF CopyMoves
  <1>8. ASSUME NEW r \in Reader, MeRead(r) \/ OtherRead(r) PROVE CopyMoves
    <2> DEFINE W == [row EXCEPT !.access = FALSE]
    <2>1. row # None => W.token = row.token
      BY DEF DbType, Row
    <2>2. ProfileRead(r, row) \/ ProfileRead(r, IF row = None THEN None ELSE W)
      BY <1>8 DEF MeRead, OtherRead
    <2> HIDE DEF W
    <2> QED
      BY <1>7, <2>1, <2>2
  <1>9. ASSUME NEW r \in Reader, ProfileFill(r) PROVE CopyMoves
    <2>1. UNCHANGED <<spc, stok>> /\ (ucache' = ucache \/ ucache' = rrow[r])
      BY <1>9 DEF ProfileFill, sync
    <2>2. ASSUME NEW q \in Reader PROVE rrow'[q] \in {None, rrow[q]}
      BY <1>9 DEF ProfileFill, ReaderType
    <2> QED
      BY <2>1, <2>2 DEF CopyMoves
  <1>10. ASSUME NEW m \in Click, ClickStart(m) \/ ClickStep(m) PROVE CopyMoves
    <2>1. UNCHANGED <<ucache, reader, spc, stok>>
      BY <1>10 DEF ClickStart, ClickStep, ClickRead, ClickFill, ClickCheck, ClickVerdict, ClickAsk,
                   ClickPublish, valkey, sync
    <2> QED
      BY <2>1 DEF CopyMoves, reader
  <1>11. ASSUME SyncAllUsers \/ SyncStep \/ MinutePasses PROVE CopyMoves
    <2>1. UNCHANGED reader
      BY <1>11 DEF SyncAllUsers, SyncStep, SyncStarts, SyncReads, SyncJudges, SyncDeletes, SyncDrops,
                   SyncEnds, SyncStamps, MinutePasses
    <2>2. CASE SyncAllUsers \/ MinutePasses \/ SyncEnds \/ SyncStamps
      <3>1. UNCHANGED <<ucache, stok>> /\ (spc' = "delete" => spc = "delete")
        BY <2>2 DEF SyncAllUsers, MinutePasses, SyncEnds, SyncStamps, valkey
      <3> QED
        BY <2>1, <3>1 DEF CopyMoves, reader
    <2>3. CASE SyncStarts
      BY <2>1, <2>3 DEF SyncStarts, CopyMoves, reader, valkey
    <2>4. CASE SyncReads
      BY <2>1, <2>4 DEF SyncReads, CopyMoves, reader, valkey
    <2>5. CASE SyncJudges
      BY <2>1, <2>5 DEF SyncJudges, CopyMoves, reader, valkey
    <2>6. CASE SyncDeletes
      BY <2>1, <2>6 DEF SyncDeletes, CopyMoves, reader, valkey
    <2>7. CASE SyncDrops
      BY <2>1, <2>7 DEF SyncDrops, CopyMoves, reader
    <2> QED
      BY <1>11, <2>2, <2>3, <2>4, <2>5, <2>6, <2>7 DEF SyncStep
  <1>12. ASSUME ExpireVerdict \/ ExpireProfile \/ ExpireLast \/ Revoke \/ UNCHANGED vars
         PROVE  CopyMoves
    <2>1. UNCHANGED <<reader, sync>> /\ ucache' \in {None, ucache}
      BY <1>12 DEF ExpireVerdict, ExpireProfile, ExpireLast, Revoke, vars, valkey
    <2> QED
      BY <2>1 DEF CopyMoves, reader, sync
  <1> QED
    BY <1>2, <1>3, <1>4, <1>5, <1>6, <1>8, <1>9, <1>10, <1>11, <1>12
       DEF Next, CallbackStep, ReaderStep

(* Every copy of the token was issued, and the row it came from keeps a    *)
(* token until it is deleted.                                              *)
LEMMA NextCopy == ASSUME TypeOK, Tokens, CopyInv, [Next]_vars PROVE CopyInv'
  <1> DbType /\ ValkeyType /\ ReaderType /\ SyncType
    BY ZenonT(30) DEF TypeOK
  <1> USE ZenonT(30)
  <1>1. CopyMoves /\ \A g \in Grant \cup {None} : Stays(g)
    BY NextMoves, KnownStays
  <1>2. ASSUME NEW g,
               \/ g = None \/ g = stok
               \/ row # None /\ g = row.token
               \/ ucache # None /\ g = ucache.token
               \/ \E r \in Reader : rrow[r] # None /\ g = rrow[r].token
        PROVE  Known(g)'
    <2>1. g \in Grant \cup {None}
      BY <1>2, RowMade DEF DbType, ValkeyType, ReaderType, SyncType
    <2>2. row # None /\ row.token # None => grants[row.token] # "unused"
      BY DEF Tokens, TokenInv, Token
    <2>3. Known(None) /\ (row # None => Known(row.token))
      BY <2>2 DEF Known
    <2>4. Known(g)
      BY <1>2, <2>3 DEF CopyInv
    <2> QED
      BY <1>1, <2>1, <2>4 DEF Stays
  <1>3. ucache' # None => Known(ucache.token)'
    <2>1. PICK g : g = ucache'.token
      OBVIOUS
    <2>2. ucache' # None => Known(g)'
      BY <1>1, <1>2, <2>1 DEF CopyMoves
    <2> QED
      BY <2>1, <2>2 DEF Known
  <1>4. ASSUME NEW r \in Reader, rrow'[r] # None PROVE Known(rrow[r].token)'
    <2>1. PICK g : g = rrow'[r].token
      OBVIOUS
    <2>2. Known(g)'
      BY <1>1, <1>2, <1>4, <2>1 DEF CopyMoves
    <2> QED
      BY <2>1, <2>2 DEF Known
  <1>5. Known(stok)'
    <2>1. PICK g : g = stok'
      OBVIOUS
    <2>2. Known(g)'
      BY <1>1, <1>2, <2>1 DEF CopyMoves
    <2> QED
      BY <2>1, <2>2 DEF Known
  <1>6. spc' = "delete" => stok' # None /\ grants'[stok'] = "revoked"
    BY <1>1 DEF CopyMoves, CopyInv, SyncType, Stays
  <1> QED
    BY <1>3, <1>4, <1>5, <1>6 DEF CopyInv
-----------------------------------------------------------------------------
(* The initial states satisfy the inductive invariant. *)
LEMMA InitAccessInv == Init => AccessInv
  <1> SUFFICES ASSUME Init PROVE AccessInv
    BY ZenonT(30)
  <1> USE ZenonT(30)
  <1>1. GoogleType /\ ValkeyType /\ ValidateType /\ ReaderType
    BY DEF Init, GoogleType, ValkeyType, ValidateType, ReaderType, Age
  <1>2. gone \in BOOLEAN /\ queued \in BOOLEAN /\ manual \in BOOLEAN
    BY DEF Init
  <1>3. bscope \in [Callback -> BOOLEAN]
    BY DEF Init
  <1>4. DbType /\ SyncType
    BY <1>2 DEF Init, DbType, SyncType, Age
  <1>5. CallbackType
    BY <1>3 DEF Init, CallbackType
  <1>6. ClickType
    BY AccessAssumption, SMTT(30) DEF Init, ClickType, Age
  <1>7. ErrType /\ BoundsType
    BY AccessAssumption, SMTT(30) DEF Init, ErrType, BoundsType
  <1>8. LoginInv /\ StateUsedOnce
    BY SMTT(30) DEF Init, LoginInv, StateUsedOnce
  <1>9. TokenInv /\ AccessMatchesToken /\ CopyInv
    BY DEF Init, TokenInv, AccessMatchesToken, Token, CopyInv, Known
  <1> QED
    BY <1>1, <1>4, <1>5, <1>6, <1>7, <1>8, <1>9 DEF AccessInv, TypeOK

(* AccessInv holds in every reachable state of GoogleCallback,             *)
(* ValidateCalendarAccess, Me, ManualSync and the worker, for any number   *)
(* of logins, requests and faults.                                         *)
THEOREM Invariance == Spec => []AccessInv
  <1>1. AccessInv /\ [Next]_vars => AccessInv'
    <2> SUFFICES ASSUME AccessInv, [Next]_vars PROVE AccessInv'
      BY ZenonT(30)
    <2>1. TypeOK /\ LoginInv /\ StateUsedOnce /\ Tokens /\ CopyInv
      BY ZenonT(30) DEF AccessInv, Tokens
    <2>2. TypeOK' /\ LoginInv' /\ StateUsedOnce' /\ Tokens' /\ CopyInv'
      BY <2>1, NextTypes, NextLogin, NextTokens, NextCopy, ZenonT(30)
    <2> QED
      BY <2>2, ZenonT(30) DEF AccessInv, Tokens
  <1> QED
    BY InitAccessInv, <1>1, PTL DEF Spec

(* Every variable keeps its type, and a request of the handlers holds what *)
(* it checked.                                                             *)
THEOREM TypeCorrect == Spec => []TypeOK
  <1>1. AccessInv => TypeOK
    BY ZenonT(30) DEF AccessInv
  <1> QED
    BY Invariance, <1>1, PTL

(* The DELETE ... RETURNING of the callback lets one request per OAuth     *)
(* state through to the code exchange.                                     *)
THEOREM UsedOnce == Spec => []StateUsedOnce
  <1>1. AccessInv => StateUsedOnce
    BY ZenonT(30) DEF AccessInv
  <1> QED
    BY Invariance, <1>1, PTL

(* has_calendar_access is that of the stored token. *)
THEOREM AccessTrue == Spec => []AccessMatchesToken
  <1>1. AccessInv => AccessMatchesToken
    BY ZenonT(30) DEF AccessInv
  <1> QED
    BY Invariance, <1>1, PTL

(* CASE WHEN $3 <> '' in the upsert: no login takes a stored token away. *)
THEOREM TokenKept == Spec => TokenNeverLost
  <1> DEFINE Keeps == Token # None /\ row' # None => row'.token # None
  <1>1. [Next]_vars => [Keeps]_vars
    <2> SUFFICES ASSUME Next PROVE Keeps
      BY ZenonT(30)
    <2> USE SMTT(30)
    <2>1. ASSUME row' = row \/ row' = None PROVE Keeps
      BY <2>1, ZenonT(30) DEF Token
    <2>2. ASSUME NEW l \in Login, GoogleLogin(l) \/ ExpireState(l) PROVE Keeps
      BY <2>1, <2>2, ZenonT(30) DEF GoogleLogin, ExpireState
    <2>3. ASSUME NEW b \in Callback, Upsert(b) PROVE Keeps
      <3>1. CASE row' = row
        BY <2>1, <3>1, ZenonT(30)
      <3>2. CASE row' # row
        <4>1. row' = [token  |-> IF btok[b] # None \/ row = None THEN btok[b] ELSE row.token,
                      access |-> bscope[b]]
          BY <2>3, <3>2, ZenonT(30) DEF Upsert
        <4>2. row'.token = IF btok[b] # None \/ row = None THEN btok[b] ELSE row.token
          BY <4>1, ZenonT(30)
        <4> QED
          BY <4>2, ZenonT(30) DEF Token
      <3> QED
        BY <3>1, <3>2, ZenonT(30)
    <2>4. ASSUME NEW b \in Callback,
                 \/ Exchange(b) \/ UserInfo(b) \/ DropCaches(b)
                 \/ \E l \in Login : ConsumeState(b, l)
          PROVE  Keeps
      <3>1. Exchange(b) => row' = row
        BY ZenonT(30) DEF Exchange, db
      <3>2. UserInfo(b) \/ DropCaches(b) => row' = row
        BY ZenonT(30) DEF UserInfo, DropCaches, db
      <3>3. (\E l \in Login : ConsumeState(b, l)) => row' = row
        BY ZenonT(30) DEF ConsumeState
      <3> QED
        BY <2>1, <2>4, <3>1, <3>2, <3>3, ZenonT(30)
    <2>5. ASSUME NEW v \in Validator, ValidateMiss(v) \/ ValidateStep(v) PROVE Keeps
      BY <2>1, <2>5, ZenonT(30) DEF ValidateMiss, ValidateStep, ValidateRead, ValidateAsk, ValidateWrite, db
    <2>6. ASSUME NEW r \in Reader, ProfileMiss(r) \/ ReaderStep(r) PROVE Keeps
      BY <2>1, <2>6, ZenonT(30) DEF ProfileMiss, ReaderStep, MeRead, OtherRead, ProfileRead, ProfileFill, db
    <2>7. ASSUME NEW m \in Click, ClickStart(m) \/ ClickStep(m) PROVE Keeps
      BY <2>1, <2>7, ZenonT(30) DEF ClickStart, ClickStep, ClickRead, ClickFill, ClickCheck, ClickVerdict,
                        ClickAsk, ClickPublish, db
    <2>8. ASSUME SyncAllUsers \/ SyncStep \/ MinutePasses PROVE Keeps
      BY <2>1, <2>8, ZenonT(30) DEF SyncAllUsers, SyncStep, SyncStarts, SyncReads, SyncJudges,
                        SyncDeletes, SyncDrops, SyncEnds, SyncStamps, MinutePasses, db
    <2>9. ASSUME ExpireVerdict \/ ExpireProfile \/ ExpireLast \/ Revoke PROVE Keeps
      BY <2>1, <2>9, ZenonT(30) DEF ExpireVerdict, ExpireProfile, ExpireLast, Revoke, db
    <2> HIDE DEF Keeps
    <2> QED
      BY <2>2, <2>3, <2>4, <2>5, <2>6, <2>7, <2>8, <2>9, ZenonT(30) DEF Next, CallbackStep
  <1> QED
    BY <1>1, PTL DEF Spec, TokenNeverLost

(* With one grant issued, every copy is of the stored token: the DELETE    *)
(* runs only if Google refuses that one.                                   *)
THEOREM OneLoginKept == Spec => OneLoginSafe
  <1> DEFINE Safe == gone' /\ ~gone /\ OneGrant => Token # None /\ grants[Token] = "revoked"
  <1>1. AccessInv /\ [Next]_vars => [Safe]_vars
    <2> SUFFICES ASSUME AccessInv, Next, gone', ~gone, OneGrant
                 PROVE  Token # None /\ grants[Token] = "revoked"
      BY ZenonT(30)
    <2> USE ZenonT(30)
    <2>1. SyncDeletes
      BY OnlySyncDeletes
    <2>2. row # None /\ spc = "delete"
      BY <2>1 DEF SyncDeletes
    <2>3. stok # None /\ grants[stok] = "revoked" /\ Token # None
      BY <2>2 DEF AccessInv, CopyInv, Known, Token
    <2>4. grants[Token] # "unused" /\ grants[stok] # "unused"
      BY <2>3 DEF AccessInv, TokenInv
    <2>5. Token \in Grant /\ stok \in Grant
      BY <2>3, TokenType DEF AccessInv, TypeOK, SyncType
    <2> QED
      BY <2>3, <2>4, <2>5 DEF OneGrant
  <1> QED
    BY Invariance, <1>1, PTL DEF Spec, OneLoginSafe
=============================================================================
