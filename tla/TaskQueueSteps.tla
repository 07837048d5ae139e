--------------------------- MODULE TaskQueueSteps ---------------------------
EXTENDS TaskQueue, FiniteSetTheorems, TLAPS

(***************************************************************************)
(* Facts about the operators of TaskQueue that the proofs of its           *)
(* invariants and of its refinement share.                                 *)
(***************************************************************************)

(* The initial states satisfy the inductive invariant. *)
LEMMA InitQueueInv == Init => QueueInv
<1> SUFFICES ASSUME Init PROVE QueueInv
    BY ZenonT(30)
<1> USE ZenonT(30), BadMsgAssumption DEF Init
<1>1. TypeOK
    BY SMTT(30) DEF TypeOK, MaxRetry
<1>2. MessagesOK /\ HandlersOK /\ UnackedOwned /\ DownOK
    BY DEF MessagesOK, HandlersOK, UnackedOwned, Owners, DownOK
<1>3. PendingOrSettled
    BY DEF PendingOrSettled, Accepted
<1>4. UsedMsg = {} /\ BusyHandler = {}
    BY DEF UsedMsg, BusyHandler
<1>5. FiniteWork
    BY <1>4, FS_EmptySet DEF FiniteWork
<1>6. ASSUME NEW t \in Task PROVE QueuedRuns(t) = {} /\ RetryRuns(t) = {}
    BY <1>4, ZenonT(30) DEF QueuedRuns, RetryRuns
<1>7. RunsPaid
    BY <1>6, FS_EmptySet, SMTT(30) DEF RunsPaid, MaxRetry
<1> QED
    BY <1>1, <1>2, <1>3, <1>5, <1>7 DEF QueueInv

(* What a process holds of a task is finite. *)
LEMMA HeldFinite ==
    ASSUME TypeOK, HandlersOK, FiniteWork, NEW n \in Node, NEW t \in Task
    PROVE  IsFiniteSet(HeldOf(n, t)) /\ Cardinality(HeldOf(n, t)) \in Nat
<1>1. HeldOf(n, t) \in SUBSET UsedMsg
    BY ZenonT(30) DEF HeldOf, Held, LiveBusy, Busy, HandlersOK, UsedMsg
<1> QED
    BY <1>1, FS_Subset, FS_CardinalityType, ZenonT(30) DEF FiniteWork

(* Returning the held messages of a process makes them ready again. *)
LEMMA ReturnHeldType ==
    ASSUME TypeOK, HandlersOK, FiniteWork, NEW n \in Node, ReturnHeld(n)
    PROVE  /\ mstate' \in [Msg -> {"unused", "ready", "unacked", "acked"}]
           /\ requeues' \in [Task -> Nat]
           /\ hlive' \in [Handler -> BOOLEAN]
BY HeldFinite, SMTT(30) DEF ReturnHeld, TypeOK

(* The steps that take the deliveries of process n away. *)
ChannelGone(n) ==
    LoseConnection(n) \/ CloseConsumerChannel(n) \/ StopConsumer(n) \/ Close(n) \/ Crash(n)

(* They leave tasks, the other processes and the goroutines that survive   *)
(* as they were.                                                           *)
LEMMA ChannelGoneFrame ==
    ASSUME TypeOK, NEW n \in Node, ChannelGone(n)
    PROVE  /\ ReturnHeld(n)
           /\ mtask' = mtask /\ mrc' = mrc
           /\ succeeded' = succeeded /\ exhausted' = exhausted /\ voided' = voided
           /\ \A h \in Handler : hpc'[h] # "idle" \/ hnode[h] # n =>
                 hpc'[h] = hpc[h] /\ hnode'[h] = hnode[h] /\ hmsg'[h] = hmsg[h]
           /\ \A k \in Node : k # n => link'[k] = link[k]
<1>1. CASE LoseConnection(n)
    BY <1>1, ZenonT(30) DEF LoseConnection, TypeOK
<1>2. CASE CloseConsumerChannel(n) \/ StopConsumer(n)
    BY <1>2, ZenonT(30) DEF CloseConsumerChannel, StopConsumer
<1>3. CASE Close(n) \/ Crash(n)
  <2>1. Vanish(n)
    BY <1>3, ZenonT(30) DEF Close, Crash
  <2> QED
    BY <2>1, ZenonT(30) DEF Vanish, Busy, TypeOK
<1> QED
    BY <1>1, <1>2, <1>3, ZenonT(30) DEF ChannelGone

(* Exactly the messages with a live owner at n become ready, exactly the   *)
(* deliveries of n die, and the other goroutines keep theirs.              *)
LEMMA ChannelGoneFacts ==
    ASSUME QueueInv, NEW n \in Node, ChannelGone(n)
    PROVE  /\ \A h \in Handler : hlive'[h] <=> hlive[h] /\ hnode[h] # n
           /\ \A m \in Msg : \A h \in Owners(m)' :
                 h \in Owners(m) /\ hnode[h] # n /\ hpc'[h] = hpc[h]
           /\ \A m \in Msg : \A h \in Owners(m) : hnode[h] # n => h \in Owners(m)'
           /\ \A m \in Msg : IF \E h \in Owners(m) : hnode[h] = n
                             THEN mstate[m] = "unacked" /\ m \notin BadMsg /\ mstate'[m] = "ready"
                             ELSE mstate'[m] = mstate[m]
<1>1. /\ ReturnHeld(n)
      /\ \A h \in Handler : hpc'[h] # "idle" \/ hnode[h] # n =>
            hpc'[h] = hpc[h] /\ hnode'[h] = hnode[h] /\ hmsg'[h] = hmsg[h]
    BY ChannelGoneFrame, ZenonT(30) DEF QueueInv
<1>2. \A h \in Handler : hlive'[h] <=> hlive[h] /\ hnode[h] # n
    BY <1>1, ZenonT(30) DEF ReturnHeld, QueueInv, TypeOK
<1>3. \A m \in Msg : \A h \in Owners(m)' :
          h \in Owners(m) /\ hnode[h] # n /\ hpc'[h] = hpc[h]
    BY <1>1, <1>2, ZenonT(30) DEF Owners
<1>4. \A m \in Msg : \A h \in Owners(m) : hnode[h] # n => h \in Owners(m)'
    BY <1>1, <1>2, ZenonT(30) DEF Owners
<1>5. \A m \in Msg : m \in Held(n) <=> \E h \in Owners(m) : hnode[h] = n
    BY ZenonT(30) DEF Held, LiveBusy, Busy, Owners
<1>6. \A m \in Held(n) : mstate[m] = "unacked" /\ m \in Msg \ BadMsg
    BY ZenonT(30) DEF Held, LiveBusy, Busy, QueueInv, HandlersOK
<1>7. \A m \in Msg : mstate'[m] = IF m \in Held(n) THEN "ready" ELSE mstate[m]
    BY <1>1, ZenonT(30) DEF ReturnHeld
<1>8. \A m \in Msg : IF \E h \in Owners(m) : hnode[h] = n
                     THEN mstate[m] = "unacked" /\ m \notin BadMsg /\ mstate'[m] = "ready"
                     ELSE mstate'[m] = mstate[m]
    BY <1>5, <1>6, <1>7, ZenonT(30)
<1> QED
    BY <1>2, <1>3, <1>4, <1>8, ZenonT(30)

(* They keep HandlersOK: a delivery of another process is still the one    *)
(* owner of its message.                                                   *)
LEMMA ChannelGoneHandlers ==
    ASSUME QueueInv, NEW n \in Node, ChannelGone(n) PROVE HandlersOK'
<1> SUFFICES ASSUME NEW h \in Handler, hpc'[h] # "idle"
             PROVE  /\ hmsg'[h] \in Msg \ BadMsg /\ hnode'[h] \in Node
                    /\ mstate'[hmsg'[h]] # "unused"
                    /\ hpc'[h] = "retry" => mrc'[hmsg'[h]] < MaxRetry
                    /\ hlive'[h] => link'[hnode'[h]] = "up" /\ mstate'[hmsg'[h]] = "unacked"
    BY ZenonT(30) DEF HandlersOK
<1>1. /\ mrc' = mrc /\ hpc'[h] = hpc[h] /\ hnode'[h] = hnode[h] /\ hmsg'[h] = hmsg[h]
      /\ \A k \in Node : k # n => link'[k] = link[k]
    BY ChannelGoneFrame, ZenonT(30) DEF QueueInv
<1>2. /\ hmsg[h] \in Msg \ BadMsg /\ hnode[h] \in Node
      /\ mstate[hmsg[h]] # "unused"
      /\ hpc[h] = "retry" => mrc[hmsg[h]] < MaxRetry
      /\ hlive[h] => link[hnode[h]] = "up" /\ mstate[hmsg[h]] = "unacked"
    BY <1>1, ZenonT(30) DEF QueueInv, HandlersOK
<1>3. mstate'[hmsg[h]] # "unused"
    BY <1>2, ChannelGoneFacts, ZenonT(30)
<1>4. ASSUME hlive'[h] PROVE link'[hnode[h]] = "up" /\ mstate'[hmsg[h]] = "unacked"
  <2>1. hlive[h] /\ hnode[h] # n
    BY <1>4, ChannelGoneFacts, ZenonT(30)
  <2>2. \A g \in Owners(hmsg[h]) : g = h
    BY <1>1, <1>2, <2>1, ZenonT(30) DEF QueueInv, UnackedOwned, Owners
  <2>3. mstate'[hmsg[h]] = mstate[hmsg[h]]
    BY <1>2, <2>1, <2>2, ChannelGoneFacts, SMTT(30)
  <2> QED
    BY <1>1, <1>2, <2>1, <2>3, ZenonT(30)
<1> QED
    BY <1>1, <1>2, <1>3, <1>4, ZenonT(30)

(* They keep UnackedOwned. *)
LEMMA ChannelGoneOwned ==
    ASSUME QueueInv, NEW n \in Node, ChannelGone(n) PROVE UnackedOwned'
<1>1. ASSUME NEW m \in Msg, mstate'[m] = "unacked" PROVE Owners(m)' # {}
  <2>1. mstate[m] = "unacked" /\ \A h \in Owners(m) : hnode[h] # n
    BY <1>1, ChannelGoneFacts, ZenonT(30)
  <2>2. PICK h \in Owners(m) : TRUE
    BY <2>1, ZenonT(30) DEF QueueInv, UnackedOwned
  <2> QED
    BY <2>1, <2>2, ChannelGoneFacts, ZenonT(30)
<1>2. ASSUME NEW m \in Msg, NEW g \in Owners(m)', NEW h \in Owners(m)' PROVE g = h
  <2>1. g \in Owners(m) /\ h \in Owners(m)
    BY ChannelGoneFacts, ZenonT(30)
  <2> QED
    BY <2>1, ZenonT(30) DEF QueueInv, UnackedOwned
<1> QED
    BY <1>1, <1>2, ZenonT(30) DEF UnackedOwned

(* They keep PendingOrSettled: what was pending is pending or ready again. *)
LEMMA ChannelGonePending ==
    ASSUME QueueInv, NEW n \in Node, ChannelGone(n) PROVE PendingOrSettled'
<1>1. mtask' = mtask /\ Settled' = Settled
    BY ChannelGoneFrame, ZenonT(30) DEF QueueInv, Settled, Resolved
<1>2. \A m \in Msg : mstate'[m] = "unused" <=> mstate[m] = "unused"
    BY ChannelGoneFacts, ZenonT(30)
<1>3. Accepted' = Accepted
    BY <1>1, <1>2, ZenonT(30) DEF Accepted
<1>4. ASSUME NEW m \in Msg, Pending(m) PROVE Pending(m)'
  <2>1. mstate'[m] = "ready" \/ mstate'[m] = mstate[m]
    BY ChannelGoneFacts, ZenonT(30)
  <2>2. \A h \in Owners(m)' : h \in Owners(m) /\ hpc'[h] = hpc[h]
    BY ChannelGoneFacts, ZenonT(30)
  <2> QED
    BY <1>4, <2>1, <2>2, ZenonT(30) DEF Pending
<1> QED
    BY <1>1, <1>3, <1>4, ZenonT(30) DEF QueueInv, PendingOrSettled

(* The part of the state that PendingOrSettled and AtLeastOnce speak of. *)
taskState == <<mstate, mtask, hpc, hlive, hmsg, succeeded, exhausted, voided>>

(* The steps of a process that only concern its connection, channels and   *)
(* loops leave the tasks alone.                                            *)
LEMMA LoopFrame ==
    ASSUME NEW n \in Node,
           BeginPass(n) \/ Reconnect(n) \/ OpenFails(n) \/ StartConsumer(n) \/ NoticeLoss(n)
             \/ NoticePubClose(n) \/ Drain(n) \/ New(n) \/ ClosePubChannel(n) \/ Shutdown(n)
    PROVE  UNCHANGED taskState
<1> USE ZenonT(30) DEF taskState, broker, handlers, history
<1>1. CASE BeginPass(n) \/ Reconnect(n) \/ OpenFails(n)
    BY <1>1 DEF BeginPass, Reconnect, OpenFails
<1>2. CASE StartConsumer(n) \/ NoticeLoss(n)
    BY <1>2 DEF StartConsumer, NoticeLoss
<1>3. CASE NoticePubClose(n) \/ Drain(n)
    BY <1>3 DEF NoticePubClose, Drain
<1>4. CASE New(n) \/ ClosePubChannel(n) \/ Shutdown(n)
    BY <1>4 DEF New, ClosePubChannel, Shutdown
<1> QED
    BY <1>1, <1>2, <1>3, <1>4

(* What does not touch the tasks keeps PendingOrSettled. *)
LEMMA PendingFrame ==
    ASSUME PendingOrSettled, UNCHANGED taskState PROVE PendingOrSettled'
BY SMTT(30) DEF taskState, PendingOrSettled, Pending, Owners, Settled, Resolved, Accepted
-----------------------------------------------------------------------------
(***************************************************************************)
(* One lemma per conjunct of QueueInv that a step has to re-establish;     *)
(* those of the retry budget, FiniteWork and RunsPaid, are in              *)
(* TaskQueueProofs.                                                        *)
(***************************************************************************)

(* Every step keeps every variable in its type. *)
LEMMA NextType == ASSUME QueueInv, [Next]_vars PROVE TypeOK'
<1> USE ZenonT(30), BadMsgAssumption DEF QueueInv
<1>1. ASSUME NEW n \in Node, NEW t \in Task, NEW m \in Msg, Publish(n, t, m) PROVE TypeOK'
    BY <1>1, SMTT(30) DEF TypeOK, Publish, Enqueue, client, handlers, history, MaxRetry
<1>2. ASSUME NEW n \in Node, NEW m \in Msg, NEW h \in Handler, Deliver(n, m, h) PROVE TypeOK'
    BY <1>2, SMTT(30) DEF TypeOK, Deliver, client, MaxRetry, MessagesOK
<1>3. ASSUME NEW n \in Node, NEW m \in Msg, RejectInvalid(n, m) PROVE TypeOK'
    BY <1>3 DEF TypeOK, RejectInvalid, client, handlers, history
<1>4. ASSUME NEW h \in Handler, GoroutineStep(h) PROVE TypeOK'
  <2>1. CASE HandleOk(h)
    BY <2>1, SMTT(30) DEF TypeOK, HandleOk, Goto, broker, client, HandlersOK, MessagesOK
  <2>2. CASE HandleFail(h)
    BY <2>2, SMTT(30) DEF TypeOK, HandleFail, Goto, broker, client, HandlersOK, MessagesOK
  <2>3. ASSUME NEW m \in Msg, Republish(h, m) PROVE TypeOK'
    BY <2>3, SMTT(30) DEF TypeOK, Republish, Enqueue, Goto, client, history, HandlersOK, MaxRetry
  <2>4. CASE RepublishIntoVoid(h)
    BY <2>4, SMTT(30) DEF TypeOK, RepublishIntoVoid, Goto, broker, client, HandlersOK, MessagesOK
  <2>7. CASE RepublishRefused(h)
    BY <2>7 DEF TypeOK, RepublishRefused, Goto, broker, client, history
  <2>5. CASE Ack(h)
    BY <2>5 DEF TypeOK, Ack, Finish, client, history, HandlersOK
  <2>6. CASE Nack(h)
    BY <2>6, SMTT(30) DEF TypeOK, Nack, Finish, client, HandlersOK, MessagesOK
  <2> QED
    BY <1>4, <2>1, <2>2, <2>3, <2>4, <2>5, <2>6, <2>7 DEF GoroutineStep
<1>5. ASSUME NEW n \in Node,
             BeginPass(n) \/ Reconnect(n) \/ OpenFails(n) \/ StartConsumer(n) \/ NoticeLoss(n)
               \/ NoticePubClose(n) \/ Drain(n) \/ New(n)
      PROVE  TypeOK'
  <2> USE DEF TypeOK, broker, handlers, history
  <2>1. CASE BeginPass(n) \/ StartConsumer(n)
    BY <2>1, SMTT(30) DEF BeginPass, StartConsumer
  <2>2. CASE Reconnect(n) \/ OpenFails(n)
    BY <2>2, ZenonT(30) DEF Reconnect, OpenFails
  <2>3. CASE NoticeLoss(n) \/ NoticePubClose(n)
    BY <2>3, SMTT(30) DEF NoticeLoss, NoticePubClose
  <2>4. CASE Drain(n)
    BY <2>4 DEF Drain
  <2>5. CASE New(n)
    BY <2>5 DEF New
  <2> QED
    BY <1>5, <2>1, <2>2, <2>3, <2>4, <2>5
<1>6. ASSUME NEW n \in Node,
             LoseConnection(n) \/ CloseConsumerChannel(n) \/ StopConsumer(n)
      PROVE  TypeOK'
    BY <1>6, ReturnHeldType, SMTT(30)
    DEF TypeOK, LoseConnection, CloseConsumerChannel, StopConsumer, Fault
<1>7. ASSUME NEW n \in Node, ClosePubChannel(n) \/ Shutdown(n) PROVE TypeOK'
  <2>1. CASE ClosePubChannel(n)
    BY <2>1, SMTT(30) DEF TypeOK, ClosePubChannel, broker, handlers
  <2>2. CASE Shutdown(n)
    BY <2>2, SMTT(30) DEF TypeOK, Shutdown, Fault, broker, handlers
  <2> QED
    BY <1>7, <2>1, <2>2
<1>8. ASSUME NEW n \in Node, Close(n) \/ Crash(n) PROVE TypeOK'
  <2>1. Vanish(n) /\ faults' \in Nat /\ pubErrs' \in Nat
    BY <1>8, SMTT(30) DEF TypeOK, Close, Crash, Fault
  <2> QED
    BY <2>1, ReturnHeldType DEF TypeOK, Vanish
<1>9. CASE UNCHANGED vars
    BY <1>9 DEF TypeOK, vars, broker, client, handlers, history
<1> QED
    BY <1>1, <1>2, <1>3, <1>4, <1>5, <1>6, <1>7, <1>8, <1>9 DEF Next

(* Every step keeps MessagesOK: bad messages are only rejected, used ones keep a task. *)
LEMMA NextMessages == ASSUME QueueInv, [Next]_vars PROVE MessagesOK'
<1> USE ZenonT(30), BadMsgAssumption DEF QueueInv, TypeOK, MessagesOK, HandlersOK
<1>1. ASSUME NEW n \in Node, NEW t \in Task, NEW m \in Msg, Publish(n, t, m) PROVE MessagesOK'
    BY <1>1 DEF Publish, Enqueue, client, handlers, history
<1>2. ASSUME NEW n \in Node, NEW m \in Msg, NEW h \in Handler, Deliver(n, m, h) PROVE MessagesOK'
    BY <1>2, SMTT(30) DEF Deliver, client
<1>3. ASSUME NEW n \in Node, NEW m \in Msg, RejectInvalid(n, m) PROVE MessagesOK'
    BY <1>3 DEF RejectInvalid, client, handlers, history
<1>4. ASSUME NEW h \in Handler, GoroutineStep(h) PROVE MessagesOK'
  <2>1. CASE HandleOk(h) \/ HandleFail(h)
    BY <2>1 DEF HandleOk, HandleFail, Goto, broker, client
  <2>2. ASSUME NEW m \in Msg, Republish(h, m) PROVE MessagesOK'
    BY <2>2 DEF Republish, Enqueue, Goto, client, history
  <2>3. CASE RepublishIntoVoid(h) \/ RepublishRefused(h)
    BY <2>3 DEF RepublishIntoVoid, RepublishRefused, Goto, broker, client, history
  <2>4. CASE Ack(h)
    BY <2>4, SMTT(30) DEF Ack, Finish, client, history
  <2>5. CASE Nack(h)
    BY <2>5, SMTT(30) DEF Nack, Finish, client
  <2> QED
    BY <1>4, <2>1, <2>2, <2>3, <2>4, <2>5 DEF GoroutineStep
<1>5. ASSUME NEW n \in Node,
             BeginPass(n) \/ Reconnect(n) \/ OpenFails(n) \/ StartConsumer(n) \/ NoticeLoss(n)
               \/ NoticePubClose(n) \/ Drain(n) \/ New(n) \/ ClosePubChannel(n) \/ Shutdown(n)
      PROVE  MessagesOK'
  <2> USE DEF broker, handlers, history
  <2>1. CASE BeginPass(n) \/ Reconnect(n) \/ OpenFails(n) \/ StartConsumer(n) \/ NoticeLoss(n)
    BY <2>1 DEF BeginPass, Reconnect, OpenFails, StartConsumer, NoticeLoss
  <2>2. CASE NoticePubClose(n) \/ Drain(n) \/ New(n) \/ ClosePubChannel(n) \/ Shutdown(n)
    BY <2>2 DEF NoticePubClose, Drain, New, ClosePubChannel, Shutdown
  <2> QED
    BY <1>5, <2>1, <2>2
<1>6. ASSUME NEW n \in Node,
             LoseConnection(n) \/ CloseConsumerChannel(n) \/ StopConsumer(n)
      PROVE  MessagesOK'
    BY <1>6, SMTT(30)
    DEF LoseConnection, CloseConsumerChannel, StopConsumer, ReturnHeld, Held, LiveBusy, Busy
<1>7. ASSUME NEW n \in Node, Close(n) \/ Crash(n) PROVE MessagesOK'
    BY <1>7, SMTT(30) DEF Close, Crash, Vanish, ReturnHeld, Held, LiveBusy, Busy
<1>8. CASE UNCHANGED vars
    BY <1>8 DEF vars, broker, client, handlers, history
<1> QED
    BY <1>1, <1>2, <1>3, <1>4, <1>5, <1>6, <1>7, <1>8 DEF Next

(* Every step keeps HandlersOK: a live delivery has a working connection. *)
LEMMA NextHandlers == ASSUME QueueInv, [Next]_vars PROVE HandlersOK'
<1> USE ZenonT(30), BadMsgAssumption
    DEF QueueInv, TypeOK, MessagesOK, HandlersOK, DownOK, UnackedOwned, Owners, MaxRetry
<1>1. ASSUME NEW n \in Node, NEW t \in Task, NEW m \in Msg, Publish(n, t, m) PROVE HandlersOK'
    BY <1>1, SMTT(30) DEF Publish, Enqueue, client, handlers, history
<1>2. ASSUME NEW n \in Node, NEW m \in Msg, NEW h \in Handler, Deliver(n, m, h) PROVE HandlersOK'
    BY <1>2, SMTT(30) DEF Deliver, client
<1>3. ASSUME NEW n \in Node, NEW m \in Msg, RejectInvalid(n, m) PROVE HandlersOK'
    BY <1>3 DEF RejectInvalid, client, handlers, history
<1>4. ASSUME NEW h \in Handler, GoroutineStep(h) PROVE HandlersOK'
  <2>1. CASE HandleOk(h) \/ HandleFail(h)
    BY <2>1, SMTT(30) DEF HandleOk, HandleFail, Goto, broker, client
  <2>2. ASSUME NEW m \in Msg, Republish(h, m) PROVE HandlersOK'
    BY <2>2, SMTT(30) DEF Republish, Enqueue, Goto, client, history
  <2>3. CASE RepublishIntoVoid(h) \/ RepublishRefused(h)
    BY <2>3, SMTT(30) DEF RepublishIntoVoid, RepublishRefused, Goto, broker, client, history
  <2>4. CASE Ack(h)
    BY <2>4, SMTT(30) DEF Ack, Finish, client, history
  <2>5. CASE Nack(h)
    BY <2>5, SMTT(30) DEF Nack, Finish, client
  <2> QED
    BY <1>4, <2>1, <2>2, <2>3, <2>4, <2>5 DEF GoroutineStep
<1>5. ASSUME NEW n \in Node,
             BeginPass(n) \/ Reconnect(n) \/ OpenFails(n) \/ StartConsumer(n) \/ NoticeLoss(n)
               \/ NoticePubClose(n) \/ Drain(n) \/ New(n) \/ ClosePubChannel(n) \/ Shutdown(n)
      PROVE  HandlersOK'
  <2> USE DEF broker, handlers, history
  <2>1. CASE BeginPass(n) \/ Reconnect(n) \/ OpenFails(n) \/ StartConsumer(n) \/ NoticeLoss(n)
    BY <2>1, SMTT(30) DEF BeginPass, Reconnect, OpenFails, StartConsumer, NoticeLoss
  <2>2. CASE NoticePubClose(n) \/ Drain(n) \/ New(n) \/ ClosePubChannel(n) \/ Shutdown(n)
    BY <2>2, SMTT(30) DEF NoticePubClose, Drain, New, ClosePubChannel, Shutdown
  <2> QED
    BY <1>5, <2>1, <2>2
<1>6. ASSUME NEW n \in Node, ChannelGone(n) PROVE HandlersOK'
    BY <1>6, ChannelGoneHandlers
<1>8. CASE UNCHANGED vars
    BY <1>8 DEF vars, broker, client, handlers, history
<1> QED
    BY <1>1, <1>2, <1>3, <1>4, <1>5, <1>6, <1>8 DEF Next, ChannelGone

(* Every step keeps UnackedOwned: one live goroutine per unacked message. *)
LEMMA NextOwned == ASSUME QueueInv, [Next]_vars PROVE UnackedOwned'
<1> USE ZenonT(30), BadMsgAssumption DEF QueueInv, TypeOK, HandlersOK, UnackedOwned, Owners
<1>1. ASSUME NEW n \in Node, NEW t \in Task, NEW m \in Msg, Publish(n, t, m) PROVE UnackedOwned'
    BY <1>1, SMTT(30) DEF Publish, Enqueue, client, handlers, history
<1>2. ASSUME NEW n \in Node, NEW m \in Msg, NEW h \in Handler, Deliver(n, m, h) PROVE UnackedOwned'
    BY <1>2, SMTT(30) DEF Deliver, client
<1>3. ASSUME NEW n \in Node, NEW m \in Msg, RejectInvalid(n, m) PROVE UnackedOwned'
    BY <1>3, SMTT(30) DEF RejectInvalid, client, handlers, history
<1>4. ASSUME NEW h \in Handler, GoroutineStep(h) PROVE UnackedOwned'
  <2>1. CASE HandleOk(h) \/ HandleFail(h)
    BY <2>1, SMTT(30) DEF HandleOk, HandleFail, Goto, broker, client
  <2>2. ASSUME NEW m \in Msg, Republish(h, m) PROVE UnackedOwned'
    BY <2>2, SMTT(30) DEF Republish, Enqueue, Goto, client, history
  <2>3. CASE RepublishIntoVoid(h) \/ RepublishRefused(h)
    BY <2>3, SMTT(30) DEF RepublishIntoVoid, RepublishRefused, Goto, broker, client, history
  <2>4. CASE Ack(h)
    BY <2>4, SMTT(30) DEF Ack, Finish, client, history
  <2>5. CASE Nack(h)
    BY <2>5, SMTT(30) DEF Nack, Finish, client
  <2> QED
    BY <1>4, <2>1, <2>2, <2>3, <2>4, <2>5 DEF GoroutineStep
<1>5. ASSUME NEW n \in Node,
             BeginPass(n) \/ Reconnect(n) \/ OpenFails(n) \/ StartConsumer(n) \/ NoticeLoss(n)
               \/ NoticePubClose(n) \/ Drain(n) \/ New(n) \/ ClosePubChannel(n) \/ Shutdown(n)
      PROVE  UnackedOwned'
  <2> USE DEF broker, handlers, history
  <2>1. CASE BeginPass(n) \/ Reconnect(n) \/ OpenFails(n) \/ StartConsumer(n) \/ NoticeLoss(n)
    BY <2>1, SMTT(30) DEF BeginPass, Reconnect, OpenFails, StartConsumer, NoticeLoss
  <2>2. CASE NoticePubClose(n) \/ Drain(n) \/ New(n) \/ ClosePubChannel(n) \/ Shutdown(n)
    BY <2>2, SMTT(30) DEF NoticePubClose, Drain, New, ClosePubChannel, Shutdown
  <2> QED
    BY <1>5, <2>1, <2>2
<1>6. ASSUME NEW n \in Node, ChannelGone(n) PROVE UnackedOwned'
    BY <1>6, ChannelGoneOwned
<1>8. CASE UNCHANGED vars
    BY <1>8, SMTT(30) DEF vars, broker, client, handlers, history
<1> QED
    BY <1>1, <1>2, <1>3, <1>4, <1>5, <1>6, <1>8 DEF Next, ChannelGone

(* Every step keeps DownOK: a process that is down has no connection and no consumer. *)
LEMMA NextDown == ASSUME QueueInv, [Next]_vars PROVE DownOK'
<1> USE ZenonT(30), BadMsgAssumption DEF QueueInv, TypeOK, DownOK
<1>1. ASSUME NEW n \in Node, NEW t \in Task, NEW m \in Msg, Publish(n, t, m) PROVE DownOK'
    BY <1>1 DEF Publish, Enqueue, client, handlers, history
<1>2. ASSUME NEW n \in Node, NEW m \in Msg, NEW h \in Handler, Deliver(n, m, h) PROVE DownOK'
    BY <1>2 DEF Deliver, client
<1>3. ASSUME NEW n \in Node, NEW m \in Msg, RejectInvalid(n, m) PROVE DownOK'
    BY <1>3 DEF RejectInvalid, client, handlers, history
<1>4. ASSUME NEW h \in Handler, GoroutineStep(h) PROVE DownOK'
  <2>1. CASE HandleOk(h) \/ HandleFail(h)
    BY <2>1 DEF HandleOk, HandleFail, Goto, broker, client
  <2>2. ASSUME NEW m \in Msg, Republish(h, m) PROVE DownOK'
    BY <2>2 DEF Republish, Enqueue, Goto, client, history
  <2>3. CASE RepublishIntoVoid(h) \/ RepublishRefused(h)
    BY <2>3 DEF RepublishIntoVoid, RepublishRefused, Goto, broker, client, history
  <2>4. CASE Ack(h)
    BY <2>4 DEF Ack, Finish, client, history
  <2>5. CASE Nack(h)
    BY <2>5 DEF Nack, Finish, client
  <2> QED
    BY <1>4, <2>1, <2>2, <2>3, <2>4, <2>5 DEF GoroutineStep
<1>5. ASSUME NEW n \in Node,
             BeginPass(n) \/ Reconnect(n) \/ OpenFails(n) \/ StartConsumer(n) \/ NoticeLoss(n)
               \/ NoticePubClose(n) \/ Drain(n) \/ New(n) \/ ClosePubChannel(n) \/ Shutdown(n)
      PROVE  DownOK'
  <2> USE DEF broker, handlers, history
  <2>1. CASE BeginPass(n) \/ Reconnect(n) \/ OpenFails(n) \/ StartConsumer(n) \/ NoticeLoss(n)
    BY <2>1, SMTT(30) DEF BeginPass, Reconnect, OpenFails, StartConsumer, NoticeLoss
  <2>2. CASE NoticePubClose(n) \/ Drain(n) \/ New(n) \/ ClosePubChannel(n) \/ Shutdown(n)
    BY <2>2, SMTT(30) DEF NoticePubClose, Drain, New, ClosePubChannel, Shutdown
  <2> QED
    BY <1>5, <2>1, <2>2
<1>6. ASSUME NEW n \in Node,
             LoseConnection(n) \/ CloseConsumerChannel(n) \/ StopConsumer(n)
      PROVE  DownOK'
    BY <1>6, ZenonT(30)
    DEF LoseConnection, CloseConsumerChannel, StopConsumer, ReturnHeld, Held, LiveBusy, Busy
<1>7. ASSUME NEW n \in Node, Close(n) \/ Crash(n) PROVE DownOK'
    BY <1>7, SMTT(30) DEF Close, Crash, Vanish, ReturnHeld, Held, LiveBusy, Busy
<1>8. CASE UNCHANGED vars
    BY <1>8 DEF vars, broker, client, handlers, history
<1> QED
    BY <1>1, <1>2, <1>3, <1>4, <1>5, <1>6, <1>7, <1>8 DEF Next

(* Every step keeps PendingOrSettled. *)
LEMMA NextPending == ASSUME QueueInv, [Next]_vars PROVE PendingOrSettled'
<1> USE ZenonT(30), BadMsgAssumption
    DEF QueueInv, TypeOK, MessagesOK, HandlersOK, UnackedOwned, Owners,
        PendingOrSettled, Pending, Settled, Resolved, Accepted
<1>1. ASSUME NEW n \in Node, NEW t \in Task, NEW m \in Msg, Publish(n, t, m) PROVE PendingOrSettled'
    BY <1>1, SMTT(30) DEF Publish, Enqueue, client, handlers, history
<1>2. ASSUME NEW n \in Node, NEW m \in Msg, NEW h \in Handler, Deliver(n, m, h) PROVE PendingOrSettled'
    BY <1>2, SMTT(30) DEF Deliver, client
<1>3. ASSUME NEW n \in Node, NEW m \in Msg, RejectInvalid(n, m) PROVE PendingOrSettled'
    BY <1>3, SMTT(30) DEF RejectInvalid, client, handlers, history
<1>4. ASSUME NEW h \in Handler, GoroutineStep(h) PROVE PendingOrSettled'
  <2>1. CASE HandleOk(h) \/ HandleFail(h)
    BY <2>1, SMTT(30) DEF HandleOk, HandleFail, Goto, broker, client
  <2>2. ASSUME NEW m \in Msg, Republish(h, m) PROVE PendingOrSettled'
    BY <2>2, SMTT(30) DEF Republish, Enqueue, Goto, client, history
  <2>3. CASE RepublishIntoVoid(h) \/ RepublishRefused(h)
    BY <2>3, SMTT(30) DEF RepublishIntoVoid, RepublishRefused, Goto, broker, client, history
  <2>4. CASE Ack(h)
    BY <2>4, SMTT(30) DEF Ack, Finish, client, history
  <2>5. CASE Nack(h)
    BY <2>5, SMTT(30) DEF Nack, Finish, client
  <2> QED
    BY ZenonT(30), <1>4, <2>1, <2>2, <2>3, <2>4, <2>5 DEF GoroutineStep
<1>5. ASSUME NEW n \in Node,
             BeginPass(n) \/ Reconnect(n) \/ OpenFails(n) \/ StartConsumer(n) \/ NoticeLoss(n)
               \/ NoticePubClose(n) \/ Drain(n) \/ New(n) \/ ClosePubChannel(n) \/ Shutdown(n)
      PROVE  PendingOrSettled'
  <2> HIDE DEF PendingOrSettled
  <2> QED
    BY ZenonT(30), <1>5, LoopFrame, PendingFrame
<1>6. ASSUME NEW n \in Node, ChannelGone(n) PROVE PendingOrSettled'
    BY ZenonT(30), <1>6, ChannelGonePending
<1>8. CASE UNCHANGED vars
  <2>1. UNCHANGED taskState
    BY <1>8 DEF vars, broker, handlers, history, taskState
  <2> HIDE DEF PendingOrSettled
  <2> QED
    BY ZenonT(30), <2>1, PendingFrame
<1> QED
    BY ZenonT(30), <1>1, <1>2, <1>3, <1>4, <1>5, <1>6, <1>8 DEF Next, ChannelGone
=============================================================================
