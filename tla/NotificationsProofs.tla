------------------------- MODULE NotificationsProofs -------------------------
EXTENDS Notifications, TLAPS

(***************************************************************************)
(* The invariant falls into what concerns the channel and its notices      *)
(* (ChannelOK) and what concerns the manager and its client (SenderOK).    *)
(* The lemmas treat the ways a step can change the channel; then there is  *)
(* one step per action.                                                    *)
(***************************************************************************)
ChannelOK ==
    /\ queue \in Seq(Notice) /\ Len(queue) <= Cap
    /\ npc \in [Notice -> {"new", "waiting", "accepted", "sent", "failed", "dropped"}]
    /\ hand \in Notice \cup {None}
    /\ Conserved /\ WaitMeansFull

SenderType ==
    /\ main \in {"running", "draining", "exited"}
    /\ mpc \in {"warmup", "select", "pause", "drain", "drained", "left"}
    /\ left \in 0 .. MaxChunks /\ attempt \in 0 .. MaxAttempts /\ lastErr \in BOOLEAN
    /\ failures \in 0 .. FailureLimit /\ cooling \in BOOLEAN /\ skipped \subseteq Notice

SenderOK == SenderType /\ ManagerOK /\ CooldownRespected

(* The two halves together are the inductive invariant. *)
LEMMA Halves == NoticeInv <=> ChannelOK /\ SenderOK
BY ZenonT(30) DEF NoticeInv, TypeOK, ChannelOK, SenderOK, SenderType

(* Handle ignores the records of its own package: logging them leaves the   *)
(* channel as it is.                                                        *)
LEMMA OwnIgnored == LogOwn => queue' = queue
BY ZenonT(30) DEF LogOwn, Ignored

(* A send on the channel that finds room appends a notice that was not in   *)
(* it, and nobody waits while there is room.                                *)
LEMMA PutKeeps ==
    ASSUME ChannelOK, NEW n \in Notice, npc[n] = "new", Room, Put(n), UNCHANGED hand
    PROVE  ChannelOK'
<1> USE NotificationsAssumption
<1> DEFINE last == Len(queue) + 1
<1>1. /\ queue \in Seq(Notice) /\ Len(queue) \in Nat /\ Len(queue) < Cap /\ Cap \in Nat
      /\ queue' = Append(queue, n)
    BY SMTT(30) DEF ChannelOK, Room, Put
<1>2. /\ queue' \in Seq(Notice) /\ Len(queue') = last /\ queue'[last] = n
      /\ \A i \in 1 .. Len(queue) : queue'[i] = queue[i]
    BY <1>1, SMTT(30)
<1>3. /\ npc' \in [Notice -> {"new", "waiting", "accepted", "sent", "failed", "dropped"}]
      /\ npc'[n] = "accepted" /\ \A k \in Notice : k # n => npc'[k] = npc[k]
    BY ZenonT(30) DEF ChannelOK, Put
<1>4. ~InQueue(n) /\ n # hand
    BY ZenonT(30) DEF ChannelOK, Conserved
<1>5. \A k : InQueue(k)' <=> InQueue(k) \/ k = n
    <2> SUFFICES ASSUME NEW k PROVE InQueue(k)' <=> InQueue(k) \/ k = n
        OBVIOUS
    <2>1. ASSUME InQueue(k) PROVE InQueue(k)'
        BY <2>1, <1>1, <1>2, SMTT(30) DEF InQueue
    <2>2. ASSUME k = n PROVE InQueue(k)'
        BY <2>2, <1>1, <1>2, SMTT(30) DEF InQueue
    <2>3. ASSUME InQueue(k)', k # n PROVE InQueue(k)
        BY <2>3, <1>1, <1>2, SMTT(30) DEF InQueue
    <2> QED
        BY <2>1, <2>2, <2>3
<1>6. Conserved'
    <2>1. \A i, j \in 1 .. Len(queue') : queue'[i] = queue'[j] => i = j
        <3>1. \A i \in 1 .. Len(queue) : queue[i] # n
            BY <1>4, ZenonT(30) DEF InQueue
        <3>2. \A i, j \in 1 .. Len(queue) : queue[i] = queue[j] => i = j
            BY ZenonT(30) DEF ChannelOK, Conserved
        <3> QED
            BY <1>1, <1>2, <3>1, <3>2, SMTT(30)
    <2>2. (hand # None => ~InQueue(hand))'
        BY <1>4, <1>5, ZenonT(30) DEF ChannelOK, Conserved
    <2>3. (\A k \in Notice : npc[k] = "accepted" <=> InQueue(k) \/ k = hand)'
        BY <1>3, <1>5, ZenonT(30) DEF ChannelOK, Conserved
    <2> QED
        BY <2>1, <2>2, <2>3, ZenonT(30) DEF Conserved
<1>7. WaitMeansFull'
    <2>1. \A k \in Notice : npc[k] # "waiting"
        BY <1>1, SMTT(30) DEF ChannelOK, WaitMeansFull, Notice
    <2> QED
        BY <1>3, <2>1, ZenonT(30) DEF WaitMeansFull, Notice
<1> QED
    BY <1>1, <1>2, <1>3, <1>6, <1>7, SMTT(30) DEF ChannelOK

(* A notice that is not accepted may be dropped, or wait while the channel is *)
(* full: the channel itself does not change.                                  *)
LEMMA RefusedKeeps ==
    ASSUME ChannelOK, NEW n \in Notice, npc[n] # "accepted", UNCHANGED <<queue, hand>>,
           NEW s \in {"waiting", "dropped"}, npc' = [npc EXCEPT ![n] = s],
           s = "waiting" => n \in Event /\ Len(queue) = Cap
    PROVE  ChannelOK'
<1>1. /\ npc' \in [Notice -> {"new", "waiting", "accepted", "sent", "failed", "dropped"}]
      /\ npc'[n] = s /\ \A k \in Notice : k # n => npc'[k] = npc[k]
    BY ZenonT(30) DEF ChannelOK
<1>2. \A k : InQueue(k)' <=> InQueue(k)
    BY ZenonT(30) DEF InQueue
<1>3. Conserved'
    <2>1. (\A i, j \in 1 .. Len(queue) : queue[i] = queue[j] => i = j)'
        BY ZenonT(30) DEF ChannelOK, Conserved
    <2>2. (hand # None => ~InQueue(hand))'
        BY <1>2, ZenonT(30) DEF ChannelOK, Conserved
    <2>3. (\A k \in Notice : npc[k] = "accepted" <=> InQueue(k) \/ k = hand)'
        BY <1>1, <1>2, ZenonT(30) DEF ChannelOK, Conserved
    <2> QED
        BY <2>1, <2>2, <2>3, ZenonT(30) DEF Conserved
<1>4. WaitMeansFull'
    <2>1. \A r \in Record : npc'[r] # "waiting"
        BY <1>1, NotificationsAssumption, ZenonT(30) DEF ChannelOK, WaitMeansFull, Notice
    <2>2. (\E e \in Event : npc'[e] = "waiting") => Len(queue) = Cap
        BY <1>1, ZenonT(30) DEF ChannelOK, WaitMeansFull, Notice
    <2> QED
        BY <2>1, <2>2, ZenonT(30) DEF WaitMeansFull
<1> QED
    BY <1>1, <1>3, <1>4, ZenonT(30) DEF ChannelOK

(* What the tail of a channel without repetitions holds. *)
LEMMA TailFacts ==
    ASSUME queue \in Seq(Notice), queue # <<>>,
           \A i, j \in 1 .. Len(queue) : queue[i] = queue[j] => i = j
    PROVE  /\ Tail(queue) \in Seq(Notice) /\ Len(queue) \in Nat \ {0}
           /\ Len(Tail(queue)) = Len(queue) - 1
           /\ Head(queue) = queue[1] /\ Head(queue) \in Notice /\ InQueue(Head(queue))
           /\ \A i \in 1 .. Len(Tail(queue)) : Tail(queue)[i] = queue[i + 1]
           /\ \A i, j \in 1 .. Len(Tail(queue)) : Tail(queue)[i] = Tail(queue)[j] => i = j
           /\ \A k : (\E i \in 1 .. Len(Tail(queue)) : Tail(queue)[i] = k)
                        <=> InQueue(k) /\ k # Head(queue)
<1> USE SMTT(30)
<1>1. /\ Tail(queue) \in Seq(Notice) /\ Len(queue) \in Nat \ {0}
      /\ Len(Tail(queue)) = Len(queue) - 1
      /\ Head(queue) = queue[1] /\ Head(queue) \in Notice
      /\ \A i \in 1 .. Len(Tail(queue)) : Tail(queue)[i] = queue[i + 1]
    OBVIOUS
<1>2. InQueue(Head(queue))
    BY <1>1 DEF InQueue
<1>3. \A i, j \in 1 .. Len(Tail(queue)) : Tail(queue)[i] = Tail(queue)[j] => i = j
    BY <1>1
<1>4. ASSUME NEW k, NEW i \in 1 .. Len(Tail(queue)), Tail(queue)[i] = k
      PROVE  InQueue(k) /\ k # Head(queue)
    <2>1. i + 1 \in 1 .. Len(queue) /\ queue[i + 1] = k /\ 1 \in 1 .. Len(queue) /\ i + 1 # 1
        BY <1>1, <1>4
    <2> QED
        BY <2>1, <1>1 DEF InQueue
<1>5. ASSUME NEW k, InQueue(k), k # Head(queue)
      PROVE  \E i \in 1 .. Len(Tail(queue)) : Tail(queue)[i] = k
    <2>1. PICK j \in 1 .. Len(queue) : queue[j] = k
        BY <1>5 DEF InQueue
    <2>2. j # 1
        BY <1>1, <1>5, <2>1
    <2>3. j - 1 \in 1 .. Len(Tail(queue)) /\ Tail(queue)[j - 1] = k
        BY <1>1, <2>1, <2>2
    <2> QED
        BY <2>3
<1> QED
    BY <1>1, <1>2, <1>3, <1>4, <1>5, ZenonT(30)

(* A receive moves the first notice of the channel into the manager's hand,  *)
(* and the place goes to a blocked event if there is one, so the channel     *)
(* stays full while more of them wait.                                       *)
LEMMA ReceiveKeeps == ASSUME ChannelOK, Receive PROVE ChannelOK'
<1> USE NotificationsAssumption
<1> DEFINE T == Tail(queue)
           InTail(k) == \E i \in 1 .. Len(T) : T[i] = k
<1>1. /\ queue \in Seq(Notice) /\ queue # <<>> /\ hand = None /\ hand' = Head(queue)
      /\ \A i, j \in 1 .. Len(queue) : queue[i] = queue[j] => i = j
      /\ Len(queue) <= Cap /\ Cap \in Nat
      /\ npc \in [Notice -> {"new", "waiting", "accepted", "sent", "failed", "dropped"}]
    BY ZenonT(30) DEF ChannelOK, Conserved, Receive
<1>2. /\ T \in Seq(Notice) /\ Len(queue) \in Nat \ {0} /\ Len(T) = Len(queue) - 1
      /\ Head(queue) \in Notice /\ InQueue(Head(queue))
      /\ \A i, j \in 1 .. Len(T) : T[i] = T[j] => i = j
      /\ \A k : InTail(k) <=> InQueue(k) /\ k # Head(queue)
    BY <1>1, TailFacts, ZenonT(30)
<1>3. \A k \in Notice : npc[k] = "accepted" <=> InQueue(k)
    BY <1>1, ZenonT(30) DEF ChannelOK, Conserved
<1>4. hand' \in Notice /\ hand' # None
    BY <1>1, <1>2, ZenonT(30)
<1>5. CASE /\ \A e \in Event : npc[e] # "waiting"
           /\ queue' = T /\ npc' = npc
    <2>1. \A k : InQueue(k)' <=> InQueue(k) /\ k # hand'
        BY <1>1, <1>2, <1>5, ZenonT(30) DEF InQueue
    <2>2. Conserved'
        <3>1. (\A i, j \in 1 .. Len(queue) : queue[i] = queue[j] => i = j)'
            BY <1>2, <1>5, ZenonT(30)
        <3>2. (hand # None => ~InQueue(hand))'
            BY <2>1, ZenonT(30)
        <3>3. (\A k \in Notice : npc[k] = "accepted" <=> InQueue(k) \/ k = hand)'
            BY <1>1, <1>2, <1>3, <1>5, <2>1, ZenonT(30)
        <3> QED
            BY <3>1, <3>2, <3>3, ZenonT(30) DEF Conserved
    <2>3. WaitMeansFull'
        BY <1>5, ZenonT(30) DEF ChannelOK, WaitMeansFull
    <2>4. Len(queue') <= Cap
        BY <1>1, <1>2, <1>5, SMTT(30)
    <2> QED
        BY <1>1, <1>2, <1>4, <1>5, <2>2, <2>3, <2>4, ZenonT(30) DEF ChannelOK
<1>6. ASSUME NEW e \in Event, npc[e] = "waiting",
             queue' = Append(T, e), npc' = [npc EXCEPT ![e] = "accepted"]
      PROVE  ChannelOK'
    <2>1. e \in Notice /\ ~InQueue(e) /\ e # Head(queue)
        BY <1>2, <1>3, <1>6, ZenonT(30) DEF Notice
    <2>2. /\ queue' \in Seq(Notice) /\ Len(queue') = Len(T) + 1 /\ queue'[Len(T) + 1] = e
          /\ \A i \in 1 .. Len(T) : queue'[i] = T[i]
          /\ Len(T) \in Nat
        BY <1>2, <1>6, <2>1, SMTT(30)
    <2>3. /\ npc' \in [Notice -> {"new", "waiting", "accepted", "sent", "failed", "dropped"}]
          /\ npc'[e] = "accepted" /\ \A k \in Notice : k # e => npc'[k] = npc[k]
        BY <1>1, <1>6, <2>1, ZenonT(30)
    <2> HIDE DEF T
    <2>4. \A k : InQueue(k)' <=> InTail(k) \/ k = e
        BY <2>2, SMTT(30) DEF InQueue
    <2>5. \A k : InQueue(k)' <=> (InQueue(k) /\ k # hand') \/ k = e
        BY <1>1, <1>2, <2>4, ZenonT(30)
    <2>6. Conserved'
        <3>1. (\A i, j \in 1 .. Len(queue) : queue[i] = queue[j] => i = j)'
            <4>1. \A i \in 1 .. Len(T) : T[i] # e
                BY <1>2, <2>1, ZenonT(30)
            <4> QED
                BY <1>2, <2>2, <4>1, SMTT(30)
        <3>2. (hand # None => ~InQueue(hand))'
            BY <1>1, <2>1, <2>5, ZenonT(30)
        <3>3. (\A k \in Notice : npc[k] = "accepted" <=> InQueue(k) \/ k = hand)'
            BY <1>1, <1>2, <1>3, <2>3, <2>5, ZenonT(30)
        <3> QED
            BY <3>1, <3>2, <3>3, ZenonT(30) DEF Conserved
    <2>7. Len(queue') = Len(queue) /\ Len(queue) = Cap
        <3>1. Len(queue) = Cap
            BY <1>6, ZenonT(30) DEF ChannelOK, WaitMeansFull
        <3> QED
            BY <1>2, <2>2, <3>1, SMTT(30)
    <2>8. WaitMeansFull'
        BY <2>1, <2>3, <2>7, ZenonT(30) DEF ChannelOK, WaitMeansFull, Notice
    <2> QED
        BY <1>1, <1>4, <2>2, <2>3, <2>6, <2>7, <2>8, ZenonT(30) DEF ChannelOK
<1> QED
    BY <1>5, <1>6, ZenonT(30) DEF Receive

(* The end of a Send takes the notice in hand out of the accepted ones. *)
LEMMA SendEndsKeeps ==
    ASSUME ChannelOK, hand \in Notice, NEW v \in {"sent", "failed"}, SendEnds(v), queue' = queue
    PROVE  ChannelOK'
<1> USE NotificationsAssumption
<1>1. hand' = None /\ npc' = [n \in Notice |-> IF n = hand THEN v ELSE npc[n]]
    BY ZenonT(30) DEF SendEnds
<1>2. /\ npc' \in [Notice -> {"new", "waiting", "accepted", "sent", "failed", "dropped"}]
      /\ npc'[hand] = v /\ \A k \in Notice : k # hand => npc'[k] = npc[k]
    BY <1>1, ZenonT(30) DEF ChannelOK
<1>3. \A k : InQueue(k)' <=> InQueue(k)
    BY ZenonT(30) DEF InQueue
<1>4. ~InQueue(hand) /\ hand # None /\ None \notin Notice
    BY ZenonT(30) DEF ChannelOK, Conserved
<1>5. Conserved'
    <2>1. (\A i, j \in 1 .. Len(queue) : queue[i] = queue[j] => i = j)'
        BY ZenonT(30) DEF ChannelOK, Conserved
    <2>2. (hand # None => ~InQueue(hand))'
        BY <1>1, ZenonT(30)
    <2>3. (\A k \in Notice : npc[k] = "accepted" <=> InQueue(k) \/ k = hand)'
        BY <1>1, <1>2, <1>3, <1>4, ZenonT(30) DEF ChannelOK, Conserved
    <2> QED
        BY <2>1, <2>2, <2>3, ZenonT(30) DEF Conserved
<1>6. WaitMeansFull'
    BY <1>2, ZenonT(30) DEF ChannelOK, WaitMeansFull, Notice
<1> QED
    BY <1>1, <1>2, <1>5, <1>6, ZenonT(30) DEF ChannelOK

(* A step that leaves channel, notices and hand alone keeps ChannelOK. *)
LEMMA ChannelFrame == ASSUME ChannelOK, UNCHANGED <<queue, npc, hand>> PROVE ChannelOK'
BY ZenonT(30) DEF ChannelOK, Conserved, InQueue, WaitMeansFull

(* The initial states satisfy the invariant. *)
LEMMA InitNoticeInv == Init => NoticeInv
<1> SUFFICES ASSUME Init PROVE NoticeInv
    OBVIOUS
<1> USE NotificationsAssumption DEF Init
<1>1. queue = <<>> /\ queue \in Seq(Notice) /\ Len(queue) = 0
    BY SMTT(30)
<1>2. TypeOK
    <2>1. Len(queue) <= Cap /\ left \in 0 .. MaxChunks
        BY <1>1, SMTT(30)
    <2>2. attempt \in 0 .. MaxAttempts /\ failures \in 0 .. FailureLimit
        BY SMTT(30) DEF MaxAttempts, FailureLimit
    <2>3. /\ npc \in [Notice -> {"new", "waiting", "accepted", "sent", "failed", "dropped"}]
          /\ lastErr \in BOOLEAN /\ cooling \in BOOLEAN /\ skipped \subseteq Notice
        BY ZenonT(30)
    <2> QED
        BY <1>1, <2>1, <2>2, <2>3, ZenonT(30) DEF TypeOK
<1>3. \A k : ~InQueue(k)
    BY <1>1, SMTT(30) DEF InQueue
<1>4. Conserved
    BY <1>1, <1>3, SMTT(30) DEF Conserved
<1>5. WaitMeansFull /\ ManagerOK /\ CooldownRespected
    BY SMTT(30) DEF WaitMeansFull, ManagerOK, CooldownRespected, ctxDone, Notice
<1> QED
    BY <1>2, <1>4, <1>5, ZenonT(30) DEF NoticeInv

(* A message is in hand while one of its chunks is being sent. *)
LEMMA InHand == ASSUME NoticeInv, attempt > 0 \/ hand # None PROVE hand \in Notice
BY ZenonT(30) DEF NoticeInv, TypeOK, ManagerOK

(* Every step keeps ChannelOK. *)
LEMMA NextChannel == ASSUME NoticeInv, [Next]_vars PROVE ChannelOK'
<1> USE ZenonT(30), Halves
<1>1. ChannelOK
    OBVIOUS
<1>2. ASSUME NEW r \in Record, Handle(r) PROVE ChannelOK'
    <2>1. r \in Notice /\ npc[r] = "new" /\ UNCHANGED hand
        BY <1>2 DEF Handle, sending, Notice
    <2>2. CASE Room /\ Put(r)
        BY <1>1, <2>1, <2>2, PutKeeps
    <2>3. CASE npc' = [npc EXCEPT ![r] = "dropped"] /\ UNCHANGED queue
        BY <1>1, <2>1, <2>3, RefusedKeeps
    <2> QED
        BY <1>2, <2>2, <2>3 DEF Handle
<1>3. ASSUME NEW e \in Event, TriggerSystemEvent(e) PROVE ChannelOK'
    <2>1. e \in Notice /\ npc[e] = "new" /\ UNCHANGED hand
        BY <1>3 DEF TriggerSystemEvent, sending, Notice
    <2>2. CASE Room /\ Put(e)
        BY <1>1, <2>1, <2>2, PutKeeps
    <2>3. CASE ~Room /\ npc' = [npc EXCEPT ![e] = "waiting"] /\ UNCHANGED queue
        <3>1. Len(queue) = Cap
            BY <1>1, <2>3, NotificationsAssumption, SMTT(30) DEF ChannelOK, Room
        <3> QED
            BY <1>1, <2>1, <2>3, <3>1, RefusedKeeps
    <2> QED
        BY <1>3, <2>2, <2>3 DEF TriggerSystemEvent
<1>4. ASSUME NEW e \in Event, GiveUp(e) PROVE ChannelOK'
    <2>1. /\ e \in Notice /\ npc[e] = "waiting" /\ npc' = [npc EXCEPT ![e] = "dropped"]
          /\ UNCHANGED <<queue, hand>>
        BY <1>4, OwnIgnored DEF GiveUp, sending, Notice
    <2> QED
        BY <1>1, <2>1, RefusedKeeps
<1>5. CASE Take
    BY <1>1, <1>5, ReceiveKeeps DEF Take
<1>6. CASE Send
    <2>1. CASE SendEnds("failed") /\ LogOwn
        BY <1>1, <1>6, <2>1, InHand, OwnIgnored, SendEndsKeeps DEF Send
    <2>2. CASE UNCHANGED <<channel, hand>>
        BY <1>1, <2>2, ChannelFrame DEF channel
    <2> QED
        BY <1>6, <2>1, <2>2 DEF Send
<1>7. ASSUME NextChunk, attempt > 0, queue' = queue PROVE ChannelOK'
    <2>1. CASE SendEnds("sent")
        BY <1>1, <1>7, <2>1, InHand, SendEndsKeeps
    <2>2. CASE UNCHANGED <<npc, hand>>
        BY <1>1, <1>7, <2>2, ChannelFrame
    <2> QED
        BY <1>7, <2>1, <2>2 DEF NextChunk
<1>8. CASE SendOk
    BY <1>7, <1>8 DEF SendOk
<1>9. ASSUME NEW l \in BOOLEAN, SendRefused(l) PROVE ChannelOK'
    <2>1. attempt > 0 /\ queue' = queue
        BY <1>9, OwnIgnored DEF SendRefused
    <2>2. CASE SendEnds("failed")
        BY <1>1, <2>1, <2>2, InHand, SendEndsKeeps
    <2>3. CASE UNCHANGED <<npc, hand>>
        BY <1>1, <2>1, <2>3, ChannelFrame
    <2>4. CASE NextChunk
        BY <1>7, <2>1, <2>4
    <2> QED
        BY <1>9, <2>2, <2>3, <2>4 DEF SendRefused
<1>10. CASE \/ CoolDownEnds \/ WarmUp \/ Pause \/ SeeDone \/ Drained \/ Drain \/ Exit
            \/ UNCHANGED vars
    <2>1. UNCHANGED <<queue, npc, hand>>
        BY <1>10 DEF CoolDownEnds, WarmUp, Pause, SeeDone, Drained, Drain, Exit,
                     vars, channel, sending
    <2> QED
        BY <1>1, <2>1, ChannelFrame
<1> QED
    BY <1>2, <1>3, <1>4, <1>5, <1>6, <1>8, <1>9, <1>10 DEF Next, ManagerStep

(* The end of a Send leaves no attempt behind and pauses only the loop. *)
LEMMA SendEndsSender ==
    ASSUME SenderOK, NEW v \in {"sent", "failed"}, SendEnds(v), hand # None
    PROVE  /\ mpc' \in {"select", "pause", "drain"} /\ (mpc' = "drain" => mpc = "drain")
           /\ hand' = None /\ left' \in 0 .. MaxChunks /\ attempt' \in 0 .. MaxAttempts
           /\ lastErr' \in BOOLEAN /\ ~(attempt' > 0)
<1>1. mpc \in {"select", "drain"}
    BY ZenonT(30) DEF SenderOK, ManagerOK
<1>2. /\ hand' = None /\ left' = 0 /\ attempt' = 0 /\ lastErr' = FALSE
      /\ mpc' = IF v = "failed" /\ mpc = "select" THEN "pause" ELSE mpc
    BY ZenonT(30) DEF SendEnds
<1>3. left' \in 0 .. MaxChunks /\ attempt' \in 0 .. MaxAttempts /\ ~(attempt' > 0)
    BY <1>2, NotificationsAssumption, SMTT(30) DEF MaxAttempts
<1> QED
    BY <1>1, <1>2, <1>3, ZenonT(30)

(* After a chunk, the next one is sent or the Send has ended. *)
LEMMA NextChunkSender ==
    ASSUME SenderOK, NextChunk, hand # None
    PROVE  /\ left' \in 0 .. MaxChunks /\ attempt' \in 0 .. MaxAttempts /\ lastErr' \in BOOLEAN
           /\ mpc' \in {"select", "pause", "drain"} /\ (mpc' = "drain" => mpc = "drain")
           /\ hand' # None => hand' = hand /\ mpc' \in {"select", "drain"}
           /\ attempt' > 0 => hand' = hand /\ left' > 0
<1>1. mpc \in {"select", "drain"}
    BY ZenonT(30) DEF SenderOK, ManagerOK
<1>2. CASE /\ left > 1 /\ left' = left - 1 /\ attempt' = 1 /\ lastErr' = FALSE
           /\ UNCHANGED <<npc, mpc, hand>>
    <2>1. left' \in 0 .. MaxChunks /\ left' > 0 /\ attempt' \in 0 .. MaxAttempts
        BY <1>2, NotificationsAssumption, SMTT(30) DEF SenderOK, SenderType, MaxAttempts
    <2> QED
        BY <1>1, <1>2, <2>1, ZenonT(30)
<1>3. CASE SendEnds("sent")
    BY <1>3, SendEndsSender, ZenonT(30)
<1> QED
    BY <1>2, <1>3, ZenonT(30) DEF NextChunk

(* Successes and failures keep the counter in its range; a failure starts a  *)
(* cooldown and never ends one.                                              *)
LEMMA RecordKeeps ==
    ASSUME SenderType, recordSuccess \/ recordFailure
    PROVE  failures' \in 0 .. FailureLimit /\ cooling' \in BOOLEAN
<1>1. failures' \in 0 .. FailureLimit
    BY SMTT(30) DEF SenderType, recordSuccess, recordFailure, FailureLimit
<1>2. cooling' \in BOOLEAN
    BY ZenonT(30) DEF SenderType, recordSuccess, recordFailure
<1> QED
    BY <1>1, <1>2

(* A step that changes neither what is being sent nor the client nor mpc    *)
(* keeps SenderOK if main moves on towards its exit, if at all.             *)
LEMMA SenderFrame ==
    ASSUME SenderOK, UNCHANGED <<mpc, sending, client>>,
           main' \in {main, "draining", "exited"}
    PROVE  SenderOK'
<1> USE ZenonT(30)
<1>1. UNCHANGED <<mpc, hand, left, attempt, lastErr, failures, cooling, skipped>>
    BY DEF sending, client
<1>2. SenderType'
    BY <1>1 DEF SenderOK, SenderType
<1>3. ctxDone => ctxDone'
    BY DEF ctxDone
<1>4. ManagerOK'
    BY <1>1, <1>3 DEF SenderOK, ManagerOK
<1>5. CooldownRespected'
    BY <1>1 DEF SenderOK, CooldownRespected
<1> QED
    BY <1>2, <1>4, <1>5 DEF SenderOK

(* A step of the manager's own control, with nothing in hand. *)
LEMMA ControlKeeps ==
    ASSUME SenderOK, hand = None, UNCHANGED <<main, sending, client>>,
           mpc' \in {"select", "drain", "drained", "left"},
           mpc' # "select" => ctxDone
    PROVE  SenderOK'
<1> USE ZenonT(30)
<1>1. UNCHANGED <<main, hand, left, attempt, lastErr, failures, cooling, skipped>>
    BY DEF sending, client
<1>2. SenderType'
    BY <1>1 DEF SenderOK, SenderType
<1>3. ManagerOK'
    BY <1>1 DEF SenderOK, ManagerOK, ctxDone
<1>4. CooldownRespected'
    BY <1>1 DEF SenderOK, CooldownRespected
<1> QED
    BY <1>2, <1>3, <1>4 DEF SenderOK

(* Every step keeps SenderOK. *)
LEMMA NextSender == ASSUME NoticeInv, [Next]_vars PROVE SenderOK'
<1> USE ZenonT(30), Halves
<1>1. SenderOK /\ SenderType /\ ManagerOK /\ CooldownRespected
    BY DEF SenderOK
<1>2. CASE \/ \E r \in Record : Handle(r)
           \/ \E e \in Event : TriggerSystemEvent(e) \/ GiveUp(e)
           \/ Drain \/ Exit \/ UNCHANGED vars
    <2>1. UNCHANGED <<mpc, sending, client>> /\ main' \in {main, "draining", "exited"}
        BY <1>2 DEF Handle, TriggerSystemEvent, GiveUp, Drain, Exit, vars
    <2> QED
        BY <1>1, <2>1, SenderFrame
<1>3. CASE WarmUp \/ Pause \/ SeeDone \/ Drained
    <2>1. /\ UNCHANGED <<main, sending, client>>
          /\ mpc' \in {"select", "drain", "drained", "left"}
          /\ mpc' # "select" => ctxDone
        BY <1>1, <1>3 DEF WarmUp, Pause, SeeDone, Drained, ManagerOK
    <2>2. hand = None
        BY <1>1, <1>3 DEF WarmUp, Pause, SeeDone, Drained, ManagerOK
    <2> QED
        BY <1>1, <2>1, <2>2, ControlKeeps
<1>4. CASE Take
    <2>1. /\ mpc \in {"select", "drain"} /\ hand = None /\ hand' = Head(queue)
          /\ UNCHANGED <<main, mpc, left, attempt, lastErr, failures, cooling, skipped>>
        BY <1>4 DEF Take, Receive, client
    <2>2. ~(attempt > 0)
        BY <1>1, <2>1 DEF ManagerOK
    <2>3. SenderType'
        BY <1>1, <2>1 DEF SenderType
    <2>4. ManagerOK'
        BY <1>1, <2>1, <2>2 DEF ManagerOK, ctxDone
    <2>5. CooldownRespected'
        BY <2>1, <2>2 DEF CooldownRespected
    <2> QED
        BY <2>3, <2>4, <2>5 DEF SenderOK
<1>5. CASE Send
    <2>1. /\ hand # None /\ mpc \in {"select", "drain"}
          /\ UNCHANGED <<main, failures, cooling, skipped>>
        BY <1>1, <1>5 DEF Send, client, ManagerOK
    <2>2. CASE SendEnds("failed")
        <3>1. /\ mpc' \in {"select", "pause", "drain"} /\ (mpc' = "drain" => mpc = "drain")
              /\ hand' = None /\ left' \in 0 .. MaxChunks /\ attempt' \in 0 .. MaxAttempts
              /\ lastErr' \in BOOLEAN /\ ~(attempt' > 0)
            BY <1>1, <2>1, <2>2, SendEndsSender
        <3>2. SenderType'
            BY <1>1, <2>1, <3>1 DEF SenderType
        <3>3. ManagerOK' /\ CooldownRespected'
            BY <1>1, <2>1, <3>1 DEF ManagerOK, CooldownRespected, ctxDone
        <3> QED
            BY <3>2, <3>3 DEF SenderOK
    <2>3. CASE /\ ~cooling /\ left' \in SplitMessage /\ attempt' = 1
               /\ UNCHANGED <<channel, mpc, hand, lastErr>>
        <3>1. left' \in 0 .. MaxChunks /\ left' > 0 /\ attempt' \in 0 .. MaxAttempts
            BY <2>3, NotificationsAssumption, SMTT(30) DEF MaxAttempts, SplitMessage
        <3>2. SenderType'
            BY <1>1, <2>1, <2>3, <3>1 DEF SenderType
        <3>3. ManagerOK' /\ CooldownRespected'
            BY <1>1, <2>1, <2>3, <3>1 DEF ManagerOK, CooldownRespected, ctxDone
        <3> QED
            BY <3>2, <3>3 DEF SenderOK
    <2> QED
        BY <1>5, <2>2, <2>3 DEF Send
<1>6. CASE SendOk
    <2>1. /\ attempt > 0 /\ hand # None /\ UNCHANGED <<main, cooling, skipped>>
          /\ recordSuccess /\ NextChunk
        BY <1>1, <1>6 DEF SendOk, recordSuccess, ManagerOK
    <2>2. /\ left' \in 0 .. MaxChunks /\ attempt' \in 0 .. MaxAttempts /\ lastErr' \in BOOLEAN
          /\ mpc' \in {"select", "pause", "drain"} /\ (mpc' = "drain" => mpc = "drain")
          /\ hand' # None => hand' = hand /\ mpc' \in {"select", "drain"}
          /\ attempt' > 0 => hand' = hand /\ left' > 0
        BY <1>1, <2>1, NextChunkSender
    <2>3. SenderType'
        BY <1>1, <2>1, <2>2, RecordKeeps DEF SenderType
    <2>4. ManagerOK' /\ CooldownRespected'
        BY <1>1, <2>1, <2>2 DEF ManagerOK, CooldownRespected, ctxDone
    <2> QED
        BY <2>3, <2>4 DEF SenderOK
<1>7. ASSUME NEW l \in BOOLEAN, SendRefused(l) PROVE SenderOK'
    <2>1. /\ attempt > 0 /\ hand \in Notice /\ hand # None /\ mpc \in {"select", "drain"}
          /\ UNCHANGED main
        BY <1>1, <1>7, InHand DEF SendRefused, ManagerOK
    <2>2. ASSUME SendEnds("failed"), UNCHANGED skipped,
                 failures' \in 0 .. FailureLimit, cooling' \in BOOLEAN
          PROVE  SenderOK'
        <3>1. /\ mpc' \in {"select", "pause", "drain"} /\ (mpc' = "drain" => mpc = "drain")
              /\ hand' = None /\ left' \in 0 .. MaxChunks /\ attempt' \in 0 .. MaxAttempts
              /\ lastErr' \in BOOLEAN /\ ~(attempt' > 0)
            BY <1>1, <2>1, <2>2, SendEndsSender
        <3>2. SenderType'
            BY <1>1, <2>1, <2>2, <3>1 DEF SenderType
        <3>3. ManagerOK' /\ CooldownRespected'
            BY <1>1, <2>1, <3>1 DEF ManagerOK, CooldownRespected, ctxDone
        <3> QED
            BY <3>2, <3>3 DEF SenderOK
    <2>3. CASE /\ attempt < MaxAttempts
               /\ attempt' = attempt + 1 /\ lastErr' = (lastErr \/ ~l)
               /\ UNCHANGED <<npc, mpc, hand, left, client>>
        <3>1. attempt' \in 0 .. MaxAttempts
            BY <1>1, <2>3, SMTT(30) DEF SenderType, MaxAttempts
        <3>2. UNCHANGED <<mpc, hand, left, failures, cooling, skipped>> /\ lastErr' \in BOOLEAN
            BY <2>3 DEF client
        <3>3. SenderType'
            BY <1>1, <2>1, <3>1, <3>2 DEF SenderType
        <3>4. ManagerOK' /\ CooldownRespected'
            BY <1>1, <2>1, <3>2 DEF ManagerOK, CooldownRespected, ctxDone
        <3> QED
            BY <3>3, <3>4 DEF SenderOK
    <2>4. CASE recordFailure /\ NextChunk /\ skipped' = skipped \cup {hand}
        <3>1. /\ left' \in 0 .. MaxChunks /\ attempt' \in 0 .. MaxAttempts /\ lastErr' \in BOOLEAN
              /\ mpc' \in {"select", "pause", "drain"} /\ (mpc' = "drain" => mpc = "drain")
              /\ hand' # None => hand' = hand /\ mpc' \in {"select", "drain"}
              /\ attempt' > 0 => hand' = hand /\ left' > 0
            BY <1>1, <2>1, <2>4, NextChunkSender
        <3>2. SenderType'
            BY <1>1, <2>1, <2>4, <3>1, RecordKeeps DEF SenderType
        <3>3. ManagerOK' /\ CooldownRespected'
            BY <1>1, <2>1, <2>4, <3>1 DEF ManagerOK, CooldownRespected, ctxDone
        <3> QED
            BY <3>2, <3>3 DEF SenderOK
    <2>5. CASE SendEnds("failed") /\ UNCHANGED client
        BY <1>1, <2>2, <2>5 DEF client, SenderType
    <2>6. CASE recordFailure /\ SendEnds("failed") /\ UNCHANGED skipped
        BY <1>1, <2>2, <2>6, RecordKeeps
    <2> QED
        BY <1>7, <2>3, <2>4, <2>5, <2>6 DEF SendRefused
<1>8. CASE CoolDownEnds
    <2>1. /\ UNCHANGED <<main, mpc, hand, left, attempt, lastErr, failures, skipped>>
          /\ cooling' = FALSE
        BY <1>8 DEF CoolDownEnds, sending
    <2>2. SenderType' /\ ManagerOK' /\ CooldownRespected'
        BY <1>1, <2>1 DEF SenderType, ManagerOK, CooldownRespected, ctxDone
    <2> QED
        BY <2>2 DEF SenderOK
<1> QED
    BY <1>2, <1>3, <1>4, <1>5, <1>6, <1>7, <1>8 DEF Next, ManagerStep

(***************************************************************************)
(* The theorems                                                            *)
(***************************************************************************)
(* The channel of the Telegram manager neither loses nor repeats a notice it *)
(* has accepted, a blocked system event has the next place in it, and the    *)
(* manager's own state is consistent, in every reachable state and for any   *)
(* capacity, any number of notices and any behaviour of the proxy.           *)
THEOREM Invariance == Spec => []NoticeInv
<1>1. Init => NoticeInv
    BY InitNoticeInv, ZenonT(30)
<1>2. NoticeInv /\ [Next]_vars => NoticeInv'
    <2> SUFFICES ASSUME NoticeInv, [Next]_vars PROVE NoticeInv'
        OBVIOUS
    <2>1. ChannelOK' /\ SenderOK'
        BY NextChannel, NextSender, ZenonT(30)
    <2> QED
        BY <2>1, ZenonT(30) DEF NoticeInv, TypeOK, ChannelOK, SenderOK, SenderType
<1> QED
    BY <1>1, <1>2, PTL DEF Spec

(* No request is made during a cooldown (Send), except for the rest of a      *)
(* message whose chunk was rate limited three times.                          *)
THEOREM Cooldown == Spec => []CooldownRespected
<1>1. NoticeInv => CooldownRespected
    BY ZenonT(30) DEF NoticeInv
<1> QED
    BY <1>1, Invariance, PTL

(* When the drain of Start ends, every notice that the channel accepted has   *)
(* been sent or has failed, and no system event is still blocked on it.       *)
THEOREM DrainLeavesNothing == Spec => DrainComplete
<1>1. ASSUME NoticeInv, [Next]_vars, mpc # "drained", mpc' = "drained"
      PROVE  \A n \in Notice : npc'[n] \notin {"waiting", "accepted"}
    <2>1. Drained
        <3>1. ASSUME NEW v \in {"sent", "failed"}, SendEnds(v) PROVE FALSE
            BY <1>1, <3>1, ZenonT(30) DEF SendEnds
        <3>2. ASSUME NextChunk PROVE FALSE
            BY <1>1, <3>1, <3>2, ZenonT(30) DEF NextChunk
        <3>3. ~Send
            BY <1>1, <3>1, ZenonT(30) DEF Send
        <3>4. ~SendOk
            BY <3>2, ZenonT(30) DEF SendOk
        <3>5. ASSUME NEW l \in BOOLEAN, SendRefused(l) PROVE FALSE
            BY <1>1, <3>1, <3>2, <3>5, ZenonT(30) DEF SendRefused
        <3>6. /\ ~WarmUp /\ ~Take /\ ~Pause /\ ~SeeDone /\ ~CoolDownEnds /\ ~Drain /\ ~Exit
              /\ \A r \in Record : ~Handle(r)
              /\ \A e \in Event : ~TriggerSystemEvent(e) /\ ~GiveUp(e)
              /\ ~UNCHANGED vars
            BY <1>1, ZenonT(30) DEF WarmUp, Take, Pause, SeeDone, CoolDownEnds, Drain, Exit,
                                    Handle, TriggerSystemEvent, GiveUp, vars
        <3> QED
            BY <1>1, <3>3, <3>4, <3>5, <3>6, ZenonT(30) DEF Next, ManagerStep
    <2>2. queue = <<>> /\ hand = None /\ npc' = npc
        BY <2>1, ZenonT(30) DEF Drained, channel
    <2>3. Len(queue) = 0 /\ Len(queue) # Cap /\ \A k : ~InQueue(k)
        BY <2>2, NotificationsAssumption, SMTT(30) DEF InQueue
    <2>4. \A n \in Notice : npc[n] # "accepted"
        BY <1>1, <2>2, <2>3, NotificationsAssumption, ZenonT(30) DEF NoticeInv, Conserved
    <2>5. \A n \in Notice : npc[n] # "waiting"
        BY <1>1, <2>3, ZenonT(30) DEF NoticeInv, WaitMeansFull, Notice
    <2> QED
        BY <2>2, <2>4, <2>5, ZenonT(30)
<1>2. NoticeInv /\ [Next]_vars =>
        [mpc # "drained" /\ mpc' = "drained" =>
           \A n \in Notice : npc'[n] \notin {"waiting", "accepted"}]_vars
    BY <1>1, ZenonT(30)
<1> QED
    BY <1>2, Invariance, PTL DEF Spec, DrainComplete
=============================================================================
