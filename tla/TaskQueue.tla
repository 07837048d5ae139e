------------------------------ MODULE TaskQueue ------------------------------
(***************************************************************************)
(* The AMQP side of internal/queue: a durable broker queue, the processes  *)
(* (cmd/server and cmd/worker) that consume it with a prefetch window, the *)
(* handler goroutines with their retry / ack / nack paths, connection      *)
(* losses, graceful shutdown, crashes and restarts.  The extraction and    *)
(* the sync consumer are the same code with other constants; this module   *)
(* is one of them.                                                         *)
(*                                                                         *)
(* A Task is one publish call.  A Msg is one message of the broker: a      *)
(* retry is a new message of the same task with retry_count + 1.           *)
(***************************************************************************)
EXTENDS Integers, FiniteSets

CONSTANTS
    Node,       \* processes holding a Queue
    Task,       \* accepted PublishSyncTask / PublishExtractionTask calls
    Msg,        \* message identities, never reused (bounds the copies of a task)
    BadMsg,     \* messages in the queue at start whose body does not unmarshal
    Handler,    \* goroutine identities (bounds the handlers that are alive at once)
    Prefetch,   \* ch.Qos and the capacity of sem: 10 for sync, 3 for extraction
    MaxFaults,  \* bound: connection losses, consumer channel errors, shutdowns, crashes
    MaxPubErrs, \* bound: errors that close the publishing channel alone
    MaxRequeue, \* bound: returns of a task after which its handlers nack no more
    None        \* no task, node or message

ASSUME BadMsgAssumption == BadMsg \subseteq Msg

VARIABLES
    mstate,     \* broker: unused | ready | unacked | acked, per message
    mtask,      \* task in the body
    mrc,        \* retry_count in the body
    proc,       \* up | stopping (ctx cancelled) | drained (wg.Wait returned) | down
    link,       \* q.AMQPConn: up | lost (dead, not noticed yet) | down (IsClosed)
    pubCh,      \* q.AMQPChannel: open | lost (closed by the broker, not noticed yet) | closed
    consumer,   \* consumer loop: off (before its ctx check) | opening | on | returned
    hpc,        \* goroutine: idle | run | retry | ack | nack
    hnode,      \* its process
    hmsg,       \* its delivery
    hlive,      \* the channel of its delivery is still open
    succeeded,  \* history: tasks whose handler returned nil at least once
    exhausted,  \* history: tasks discarded with their retry budget used up
    voided,     \* history: tasks with a retry written to a lost publishing channel
    attempts,   \* history: handler runs per task
    requeues,   \* history: returns of its messages to the queue per task
    faults,     \* history: faults so far
    pubErrs     \* history: errors of the publishing channel so far

broker   == <<mstate, mtask, mrc>>
client   == <<proc, link, pubCh, consumer>>
handlers == <<hpc, hnode, hmsg, hlive>>
history  == <<succeeded, exhausted, voided, attempts, requeues, faults, pubErrs>>
vars     == <<broker, client, handlers, history>>

\* t.RetryCount < 2
MaxRetry == 2

Busy(n) == {h \in Handler : hpc[h] # "idle" /\ hnode[h] = n}

LiveBusy(n) == {h \in Busy(n) : hlive[h]}

\* Messages the broker has delivered to process n and has no answer for.
Held(n) == {hmsg[h] : h \in LiveBusy(n)}

HeldOf(n, t) == {m \in Held(n) : mtask[m] = t}

Accepted == {t \in Task : \E m \in Msg \ BadMsg : mstate[m] # "unused" /\ mtask[m] = t}

Init ==
    /\ mstate = [m \in Msg |-> IF m \in BadMsg THEN "ready" ELSE "unused"]
    /\ mtask = [m \in Msg |-> None]
    /\ mrc = [m \in Msg |-> 0]
    /\ proc = [n \in Node |-> "up"]
    /\ link \in [Node -> {"up", "down"}]
    /\ pubCh = [n \in Node |-> IF link[n] = "up" THEN "open" ELSE "closed"]
    /\ consumer = [n \in Node |-> "off"]
    /\ hpc = [h \in Handler |-> "idle"]
    /\ hnode = [h \in Handler |-> None]
    /\ hmsg = [h \in Handler |-> None]
    /\ hlive = [h \in Handler |-> FALSE]
    /\ succeeded = {}
    /\ exhausted = {}
    /\ voided = {}
    /\ attempts = [t \in Task |-> 0]
    /\ requeues = [t \in Task |-> 0]
    /\ faults = 0
    /\ pubErrs = 0

-----------------------------------------------------------------------------
(* Broker: a message of task t with retry count rc enters the queue. *)
Enqueue(m, t, rc) ==
    /\ mstate[m] = "unused"
    /\ mstate' = [mstate EXCEPT ![m] = "ready"]
    /\ mtask' = [mtask EXCEPT ![m] = t]
    /\ mrc' = [mrc EXCEPT ![m] = rc]

(* Broker: the channel that carried the deliveries of process n is gone;   *)
(* what was not acknowledged goes back to the queue unchanged.             *)
ReturnHeld(n) ==
    /\ mstate' = [m \in Msg |-> IF m \in Held(n) THEN "ready" ELSE mstate[m]]
    /\ requeues' = [t \in Task |-> requeues[t] + Cardinality(HeldOf(n, t))]
    /\ hlive' = [h \in Handler |-> hlive[h] /\ hnode[h] # n]

(* PublishSyncTask on a working connection (the outcomes on a failing one  *)
(* are those of module QueueConnection).                                   *)
Publish(n, t, m) ==
    /\ proc[n] # "down" /\ link[n] = "up" /\ pubCh[n] = "open"
    /\ t \notin Accepted
    /\ Enqueue(m, t, 0)
    /\ UNCHANGED <<client, handlers, history>>

(* One pass of the consumer loop: past the ctx.Done check at its top. *)
BeginPass(n) ==
    /\ proc[n] = "up" /\ consumer[n] = "off"
    /\ consumer' = [consumer EXCEPT ![n] = "opening"]
    /\ UNCHANGED <<broker, proc, link, pubCh, handlers, history>>

(* reconnectWithBackoff succeeds on a closed connection. *)
Reconnect(n) ==
    /\ consumer[n] = "opening" /\ link[n] = "down"
    /\ link' = [link EXCEPT ![n] = "up"]
    /\ pubCh' = [pubCh EXCEPT ![n] = "open"]
    /\ UNCHANGED <<broker, proc, consumer, handlers, history>>

(* conn.Channel, Qos or Consume fails: reconnectWithBackoff replaces the   *)
(* connection if it finds q.AMQPChannel closed, and the loop starts over.  *)
(* Once ctx is cancelled it may give up instead.                           *)
OpenFails(n) ==
    /\ consumer[n] = "opening" /\ link[n] = "up"
    /\ \/ pubCh[n] # "closed" /\ UNCHANGED pubCh
       \/ pubCh[n] = "closed" /\ pubCh' = [pubCh EXCEPT ![n] = "open"]
       \/ pubCh[n] = "closed" /\ proc[n] # "up" /\ UNCHANGED pubCh
    /\ consumer' = [consumer EXCEPT ![n] = "off"]
    /\ UNCHANGED <<broker, proc, link, handlers, history>>

(* conn.Channel, Qos and Consume succeed; a new sem is made. *)
StartConsumer(n) ==
    /\ consumer[n] = "opening" /\ link[n] = "up"
    /\ consumer' = [consumer EXCEPT ![n] = "on"]
    /\ UNCHANGED <<broker, proc, link, pubCh, handlers, history>>

(* The loop takes a delivery and starts its goroutine.  select may prefer  *)
(* a delivery to ctx.Done, so this can happen after shutdown has begun and *)
(* even after Drain has returned.                                          *)
Deliver(n, m, h) ==
    /\ consumer[n] = "on" /\ link[n] = "up"
    /\ mstate[m] = "ready" /\ m \notin BadMsg
    /\ hpc[h] = "idle"
    /\ Cardinality(LiveBusy(n)) < Prefetch
    /\ mstate' = [mstate EXCEPT ![m] = "unacked"]
    /\ hpc' = [hpc EXCEPT ![h] = "run"]
    /\ hnode' = [hnode EXCEPT ![h] = n]
    /\ hmsg' = [hmsg EXCEPT ![h] = m]
    /\ hlive' = [hlive EXCEPT ![h] = TRUE]
    /\ attempts' = [attempts EXCEPT ![mtask[m]] = @ + 1]
    /\ UNCHANGED <<mtask, mrc, client, succeeded, exhausted, voided, requeues, faults, pubErrs>>

(* A body that does not unmarshal: Nack without requeue. *)
RejectInvalid(n, m) ==
    /\ consumer[n] = "on" /\ link[n] = "up"
    /\ mstate[m] = "ready" /\ m \in BadMsg
    /\ mstate' = [mstate EXCEPT ![m] = "acked"]
    /\ UNCHANGED <<mtask, mrc, client, handlers, history>>
-----------------------------------------------------------------------------
(* The goroutine of one delivery. *)
Goto(h, pc) == hpc' = [hpc EXCEPT ![h] = pc] /\ UNCHANGED <<hnode, hmsg, hlive>>

Finish(h) ==
    /\ hpc' = [hpc EXCEPT ![h] = "idle"]
    /\ hnode' = [hnode EXCEPT ![h] = None]
    /\ hmsg' = [hmsg EXCEPT ![h] = None]
    /\ hlive' = [hlive EXCEPT ![h] = FALSE]

HandleOk(h) ==
    /\ hpc[h] = "run"
    /\ succeeded' = succeeded \cup {mtask[hmsg[h]]}
    /\ Goto(h, "ack")
    /\ UNCHANGED <<broker, client, exhausted, voided, attempts, requeues, faults, pubErrs>>

(* Mutant: RetryCount <= 2. *)
HandleFailOneMore(h) ==
    /\ hpc[h] = "run"
    /\ IF mrc[hmsg[h]] <= MaxRetry
       THEN Goto(h, "retry") /\ UNCHANGED exhausted
       ELSE Goto(h, "ack") /\ exhausted' = exhausted \cup {mtask[hmsg[h]]}
    /\ UNCHANGED <<broker, client, succeeded, voided, attempts, requeues, faults, pubErrs>>

(* Mutant: a failed task is acknowledged without a retry. *)
HandleFailNoRetry(h) ==
    /\ hpc[h] = "run"
    /\ Goto(h, "ack")
    /\ UNCHANGED <<broker, client, history>>

HandleFail(h) ==
    /\ hpc[h] = "run"
    /\ IF mrc[hmsg[h]] < MaxRetry
       THEN Goto(h, "retry") /\ UNCHANGED exhausted
       ELSE Goto(h, "ack") /\ exhausted' = exhausted \cup {mtask[hmsg[h]]}
    /\ UNCHANGED <<broker, client, succeeded, voided, attempts, requeues, faults, pubErrs>>

(* Mutant: the retry carries the old retry_count. *)
RepublishSameCount(h, m) ==
    /\ hpc[h] = "retry"
    /\ pubCh[hnode[h]] = "open" /\ link[hnode[h]] = "up"
    /\ Enqueue(m, mtask[hmsg[h]], mrc[hmsg[h]])
    /\ Goto(h, "ack")
    /\ UNCHANGED <<client, history>>

(* The retry is published on q.AMQPChannel: refused when that channel is   *)
(* closed, written without an error to a dead connection or channel while  *)
(* the loss is not noticed (there are no confirms), enqueued otherwise.    *)
Republish(h, m) ==
    /\ hpc[h] = "retry"
    /\ pubCh[hnode[h]] = "open" /\ link[hnode[h]] = "up"
    /\ Enqueue(m, mtask[hmsg[h]], mrc[hmsg[h]] + 1)
    /\ Goto(h, "ack")
    /\ UNCHANGED <<client, history>>

RepublishIntoVoid(h) ==
    /\ hpc[h] = "retry"
    /\ pubCh[hnode[h]] # "closed"
    /\ pubCh[hnode[h]] = "lost" \/ link[hnode[h]] = "lost"
    /\ voided' = IF hlive[h] THEN voided \cup {mtask[hmsg[h]]} ELSE voided
    /\ Goto(h, "ack")
    /\ UNCHANGED <<broker, client, succeeded, exhausted, attempts, requeues, faults, pubErrs>>

(* Mutant: a retry that cannot be published returns without a Nack. *)
RepublishRefusedReturns(h) ==
    /\ hpc[h] = "retry" /\ pubCh[hnode[h]] = "closed"
    /\ Finish(h)
    /\ UNCHANGED <<broker, client, history>>

RepublishRefused(h) ==
    /\ hpc[h] = "retry" /\ pubCh[hnode[h]] = "closed"
    /\ Goto(h, "nack")
    /\ UNCHANGED <<broker, client, history>>

(* Mutant: an ack that is not tied to the channel of the delivery. *)
AckAnyChannel(h) ==
    /\ hpc[h] = "ack"
    /\ mstate' = [mstate EXCEPT ![hmsg[h]] = "acked"]
    /\ Finish(h)
    /\ UNCHANGED <<mtask, mrc, client, history>>

(* Ack and Nack reach the broker only through the channel of the delivery; *)
(* on a closed one they return an error that is logged.                    *)
Ack(h) ==
    /\ hpc[h] = "ack"
    /\ mstate' = IF hlive[h] THEN [mstate EXCEPT ![hmsg[h]] = "acked"] ELSE mstate
    /\ Finish(h)
    /\ UNCHANGED <<mtask, mrc, client, history>>

Nack(h) ==
    /\ hpc[h] = "nack"
    /\ IF hlive[h]
       THEN /\ requeues[mtask[hmsg[h]]] < MaxRequeue
            /\ mstate' = [mstate EXCEPT ![hmsg[h]] = "ready"]
            /\ requeues' = [requeues EXCEPT ![mtask[hmsg[h]]] = @ + 1]
       ELSE UNCHANGED <<mstate, requeues>>
    /\ Finish(h)
    /\ UNCHANGED <<mtask, mrc, client, succeeded, exhausted, voided, attempts, faults, pubErrs>>

GoroutineStep(h) ==
    \/ HandleOk(h) \/ HandleFail(h)
    \/ \E m \in Msg : Republish(h, m)
    \/ RepublishIntoVoid(h) \/ RepublishRefused(h)
    \/ Ack(h) \/ Nack(h)
-----------------------------------------------------------------------------
(* Faults and the life of a process. *)
Fault == faults < MaxFaults /\ faults' = faults + 1 /\ UNCHANGED pubErrs

LoseConnection(n) ==
    /\ Fault /\ proc[n] # "down" /\ link[n] = "up"
    /\ link' = [link EXCEPT ![n] = "lost"]
    /\ ReturnHeld(n)
    /\ UNCHANGED <<mtask, mrc, proc, pubCh, consumer, hpc, hnode, hmsg,
                   succeeded, exhausted, voided, attempts>>

(* Mutant: the consumer returns when its msgs channel is closed. *)
NoticeLossEndsConsumer(n) ==
    /\ proc[n] # "down" /\ link[n] = "lost"
    /\ link' = [link EXCEPT ![n] = "down"]
    /\ pubCh' = [pubCh EXCEPT ![n] = "closed"]
    /\ consumer' = [consumer EXCEPT ![n] = IF @ = "on" THEN "returned" ELSE @]
    /\ UNCHANGED <<broker, proc, handlers, history>>

(* A heartbeat or a read fails: the client closes connection and channels, *)
(* and the closed msgs channel ends the consumer.                          *)
NoticeLoss(n) ==
    /\ proc[n] # "down" /\ link[n] = "lost"
    /\ link' = [link EXCEPT ![n] = "down"]
    /\ pubCh' = [pubCh EXCEPT ![n] = "closed"]
    /\ consumer' = [consumer EXCEPT ![n] = IF @ = "on" THEN "off" ELSE @]
    /\ UNCHANGED <<broker, proc, handlers, history>>

(* The broker closes the publishing channel only, or the consumer's only. *)
ClosePubChannel(n) ==
    /\ pubErrs < MaxPubErrs /\ pubErrs' = pubErrs + 1
    /\ proc[n] # "down" /\ link[n] = "up" /\ pubCh[n] = "open"
    /\ pubCh' = [pubCh EXCEPT ![n] = "lost"]
    /\ UNCHANGED <<broker, proc, link, consumer, handlers, succeeded, exhausted, voided,
                   attempts, requeues, faults>>

NoticePubClose(n) ==
    /\ pubCh[n] = "lost"
    /\ pubCh' = [pubCh EXCEPT ![n] = "closed"]
    /\ UNCHANGED <<broker, proc, link, consumer, handlers, history>>

CloseConsumerChannel(n) ==
    /\ Fault /\ consumer[n] = "on" /\ link[n] = "up"
    /\ consumer' = [consumer EXCEPT ![n] = "off"]
    /\ ReturnHeld(n)
    /\ UNCHANGED <<mtask, mrc, proc, link, pubCh, hpc, hnode, hmsg,
                   succeeded, exhausted, voided, attempts>>

Shutdown(n) ==
    /\ Fault /\ proc[n] = "up"
    /\ proc' = [proc EXCEPT ![n] = "stopping"]
    /\ UNCHANGED <<broker, link, pubCh, consumer, handlers, succeeded, exhausted, voided,
                   attempts, requeues>>

(* The loop sees ctx.Done: ch.Close, with handlers still running. *)
StopConsumer(n) ==
    /\ proc[n] \in {"stopping", "drained"} /\ consumer[n] # "returned"
    /\ consumer' = [consumer EXCEPT ![n] = "returned"]
    /\ ReturnHeld(n)
    /\ UNCHANGED <<mtask, mrc, proc, link, pubCh, hpc, hnode, hmsg,
                   succeeded, exhausted, voided, attempts, faults, pubErrs>>

Drain(n) ==
    /\ proc[n] = "stopping" /\ Busy(n) = {}
    /\ proc' = [proc EXCEPT ![n] = "drained"]
    /\ UNCHANGED <<broker, link, pubCh, consumer, handlers, history>>

(* The process ends: its goroutines are gone and its channels close. *)
Vanish(n) ==
    /\ proc' = [proc EXCEPT ![n] = "down"]
    /\ link' = [link EXCEPT ![n] = "down"]
    /\ pubCh' = [pubCh EXCEPT ![n] = "closed"]
    /\ consumer' = [consumer EXCEPT ![n] = "returned"]
    /\ hpc' = [h \in Handler |-> IF h \in Busy(n) THEN "idle" ELSE hpc[h]]
    /\ hnode' = [h \in Handler |-> IF h \in Busy(n) THEN None ELSE hnode[h]]
    /\ hmsg' = [h \in Handler |-> IF h \in Busy(n) THEN None ELSE hmsg[h]]
    /\ ReturnHeld(n)
    /\ UNCHANGED <<mtask, mrc, succeeded, exhausted, voided, attempts>>

Close(n) == proc[n] = "drained" /\ Vanish(n) /\ UNCHANGED <<faults, pubErrs>>

Crash(n) == Fault /\ proc[n] # "down" /\ Vanish(n)

(* New: the first connectAMQP may fail, the process starts all the same. *)
New(n) ==
    /\ proc[n] = "down"
    /\ proc' = [proc EXCEPT ![n] = "up"]
    /\ \E ok \in BOOLEAN : /\ link' = [link EXCEPT ![n] = IF ok THEN "up" ELSE "down"]
                           /\ pubCh' = [pubCh EXCEPT ![n] = IF ok THEN "open" ELSE "closed"]
    /\ consumer' = [consumer EXCEPT ![n] = "off"]
    /\ UNCHANGED <<broker, handlers, history>>

Next ==
    \/ \E n \in Node, t \in Task, m \in Msg : Publish(n, t, m)
    \/ \E n \in Node, m \in Msg, h \in Handler : Deliver(n, m, h)
    \/ \E n \in Node, m \in Msg : RejectInvalid(n, m)
    \/ \E h \in Handler : GoroutineStep(h)
    \/ \E n \in Node :
          \/ BeginPass(n) \/ Reconnect(n) \/ OpenFails(n) \/ StartConsumer(n)
          \/ LoseConnection(n) \/ NoticeLoss(n)
          \/ ClosePubChannel(n) \/ NoticePubClose(n) \/ CloseConsumerChannel(n)
          \/ Shutdown(n) \/ StopConsumer(n) \/ Drain(n) \/ Close(n) \/ Crash(n) \/ New(n)

Spec == Init /\ [][Next]_vars

(***************************************************************************)
(* Fairness.  The Go scheduler runs every goroutine that can run; the      *)
(* consumer loop never leaves its retry loop while the process is up;      *)
(* heartbeats (10s) notice a dead connection; a process that is down is    *)
(* started again by its platform; a FIFO queue reaches every message that  *)
(* is again and again deliverable.                                         *)
(***************************************************************************)
Fairness ==
    /\ \A h \in Handler : WF_vars(GoroutineStep(h))
    /\ \A n \in Node :
          /\ WF_vars(BeginPass(n)) /\ WF_vars(Reconnect(n)) /\ SF_vars(StartConsumer(n))
          /\ WF_vars(NoticeLoss(n)) /\ WF_vars(NoticePubClose(n)) /\ WF_vars(StopConsumer(n))
          /\ SF_vars(Drain(n)) /\ WF_vars(Close(n)) /\ WF_vars(New(n))
    /\ \A m \in Msg : SF_vars(\E n \in Node, h \in Handler : Deliver(n, m, h))

FairSpec == Spec /\ Fairness
-----------------------------------------------------------------------------
(* Every variable keeps its type; the retry count never passes MaxRetry. *)
TypeOK ==
    /\ mstate \in [Msg -> {"unused", "ready", "unacked", "acked"}]
    /\ mtask \in [Msg -> Task \cup {None}]
    /\ mrc \in [Msg -> 0 .. MaxRetry]
    /\ proc \in [Node -> {"up", "stopping", "drained", "down"}]
    /\ link \in [Node -> {"up", "lost", "down"}]
    /\ pubCh \in [Node -> {"open", "lost", "closed"}]
    /\ consumer \in [Node -> {"off", "opening", "on", "returned"}]
    /\ hpc \in [Handler -> {"idle", "run", "retry", "ack", "nack"}]
    /\ hnode \in [Handler -> Node \cup {None}]
    /\ hmsg \in [Handler -> Msg \cup {None}]
    /\ hlive \in [Handler -> BOOLEAN]
    /\ succeeded \subseteq Task
    /\ exhausted \subseteq Task
    /\ voided \subseteq Task
    /\ attempts \in [Task -> Nat]
    /\ requeues \in [Task -> Nat]
    /\ faults \in Nat
    /\ pubErrs \in Nat

Resolved == succeeded \cup exhausted

Settled == Resolved \cup voided

Queued(t) == \E m \in Msg \ BadMsg : mtask[m] = t /\ mstate[m] \in {"ready", "unacked"}

(***************************************************************************)
(* No accepted task is lost but in one way: until its handler has          *)
(* succeeded or a run with the last retry count has failed, the broker     *)
(* holds a message of it, unless a retry of it went to a publishing        *)
(* channel that the broker alone had closed.  This is what the order       *)
(* "republish, then ack" (and nack when the republish fails) is for,       *)
(* whatever connection losses, shutdowns, crashes and acks on dead         *)
(* channels come in between.                                               *)
(***************************************************************************)
NoTaskLost == \A t \in Accepted : t \in Settled \/ Queued(t)

(* "Ack current delivery now that retry has been successfully queued or    *)
(* retry budget exhausted" (internal/queue/amqp.go:533): the same without  *)
(* the exception.                                                          *)
AckedRetryQueued == \A t \in Accepted : t \in Resolved \/ Queued(t)

(* The queue keeps the promise of AtLeastOnce: a message leaves the broker *)
(* for good only if its task is settled or has another message there.      *)
AQ == INSTANCE AtLeastOnce WITH
        accepted <- Accepted, queued <- {t \in Task : Queued(t)}, resolved <- Settled

ImplementsAtLeastOnce == AQ!ASpec

(***************************************************************************)
(* The retry budget: with no message returned to the queue a task is run   *)
(* at most MaxRetry + 1 times, and every return (dead channel, crash, nack *)
(* on a failed republish) costs at most MaxRetry + 1 further runs.         *)
(***************************************************************************)
AttemptsBounded ==
    \A t \in Task : attempts[t] <= (MaxRetry + 1) * (1 + requeues[t])

Owners(m) == {h \in Handler : hpc[h] # "idle" /\ hlive[h] /\ hmsg[h] = m}

(***************************************************************************)
(* A delivery has one live owner: the broker counts a message as unacked   *)
(* exactly while one goroutine can still answer for it, so a stale         *)
(* goroutine's Ack never removes a message that was delivered again.       *)
(***************************************************************************)
OneLiveOwner ==
    \A m \in Msg :
        IF mstate[m] = "unacked" THEN \E h \in Handler : Owners(m) = {h} ELSE Owners(m) = {}

(* Message m will be run (again): no goroutine is about to acknowledge it. *)
Pending(m) ==
    \/ mstate[m] = "ready"
    \/ mstate[m] = "unacked" /\ \A h \in Owners(m) : hpc[h] # "ack"

MessagesOK ==
    /\ \A m \in BadMsg : mstate[m] \in {"ready", "acked"}
    /\ \A m \in Msg \ BadMsg : mstate[m] # "unused" => mtask[m] \in Task

HandlersOK ==
    \A h \in Handler : hpc[h] # "idle" =>
        /\ hmsg[h] \in Msg \ BadMsg /\ hnode[h] \in Node
        /\ mstate[hmsg[h]] # "unused"
        /\ hpc[h] = "retry" => mrc[hmsg[h]] < MaxRetry
        /\ hlive[h] => link[hnode[h]] = "up" /\ mstate[hmsg[h]] = "unacked"

UnackedOwned ==
    /\ \A m \in Msg : mstate[m] = "unacked" => Owners(m) # {}
    /\ \A m \in Msg : \A g, h \in Owners(m) : g = h

DownOK ==
    \A n \in Node : proc[n] = "down" => link[n] = "down" /\ consumer[n] = "returned"

PendingOrSettled ==
    \A t \in Accepted : t \in Settled \/ \E m \in Msg \ BadMsg : mtask[m] = t /\ Pending(m)

(* Messages and goroutines in use: finitely many, each step adds at most one. *)
UsedMsg == {m \in Msg \ BadMsg : mstate[m] # "unused"}

BusyHandler == {h \in Handler : hpc[h] # "idle"}

FiniteWork == IsFiniteSet(UsedMsg) /\ IsFiniteSet(BusyHandler)

(***************************************************************************)
(* The runs a task may still have if nothing is returned any more, each as *)
(* a pair with its retry count: those of its messages in the queue and     *)
(* those of the retries its goroutines (stale ones too) may yet publish.   *)
(***************************************************************************)
QueuedRuns(t) ==
    {r \in UsedMsg \X (0 .. MaxRetry) :
        mtask[r[1]] = t /\ mstate[r[1]] = "ready" /\ mrc[r[1]] <= r[2]}

RetryRuns(t) ==
    {r \in BusyHandler \X (0 .. MaxRetry) :
        hpc[r[1]] \in {"run", "retry"} /\ mtask[hmsg[r[1]]] = t /\ mrc[hmsg[r[1]]] < r[2]}

(* The inductive strengthening of AttemptsBounded: the publish and every   *)
(* return pay for MaxRetry + 1 runs, past ones and those still to come.    *)
RunsPaid ==
    \A t \in Task :
        /\ t \notin Accepted => attempts[t] = 0
        /\ attempts[t] + Cardinality(QueuedRuns(t)) + Cardinality(RetryRuns(t))
               <= (MaxRetry + 1) * (1 + requeues[t])

(***************************************************************************)
(* The inductive strengthening of the invariants.  A goroutine about to    *)
(* acknowledge on a live channel has settled its task or has left another  *)
(* pending message behind; that needs a live delivery to have one owner    *)
(* and a working connection (a retry written to a dead connection is       *)
(* followed by an ack that is dead as well).                               *)
(***************************************************************************)
QueueInv ==
    /\ TypeOK /\ MessagesOK /\ HandlersOK /\ UnackedOwned /\ DownOK
    /\ PendingOrSettled /\ FiniteWork /\ RunsPaid

(* "Transient failures retry with bounded limits (up to 2 attempts) before *)
(* poison message discarding" (README.md:44): a task is run once and       *)
(* retried at most twice.                                                  *)
RetriesBounded == \A t \in Task : attempts[t] <= MaxRetry + 1

(* Every accepted task is eventually run to success or given up after its  *)
(* last retry, once faults stop.                                           *)
EventuallyResolved == \A t \in Task : (t \in Accepted) ~> (t \in Resolved)
=============================================================================
