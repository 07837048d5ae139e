--------------------------- MODULE QueueConnection ---------------------------
(***************************************************************************)
(* One Queue object of internal/queue: which connection it publishes on,   *)
(* how its two consumers reconnect, the in-memory fallback and Close.      *)
(*                                                                         *)
(* q.AMQPConn and q.AMQPChannel are set and cleared together, and the      *)
(* channel is opened on that connection: the pair is one Conn here, with   *)
(* chOpen for the state of its publishing channel.                         *)
(***************************************************************************)
EXTENDS Integers, FiniteSets

CONSTANTS
    Consumer,       \* the extraction and the sync consumer
    Conn,           \* connection identities (bounds the successful dials)
    Pub,            \* PublishSyncTask calls
    MemCap,         \* capacity of syncCh (1000; extractionCh: 100)
    Sem,            \* handlers the in-memory consumer runs at once (10; 3)
    MaxFaults,      \* bound: connections the network loses, and errors that
                    \* close a channel and not its connection
    None            \* nil

ASSUME CapacityAssumption ==
    /\ MemCap \in Nat /\ Sem \in Nat \ {0} /\ MaxFaults \in Nat
    /\ Conn # {} /\ None \notin Conn \cup Consumer

VARIABLES
    amqpConfigured, \* cfg.AMQPURL is not empty (never changes)
    cstate,      \* unused | open | lost (dead, IsClosed still FALSE) | closed
    chOpen,      \* publishing channel of the connection is open
    AMQPConn,    \* q.AMQPConn and its q.AMQPChannel
    useInMemory, isClosed,
    ctxDone,     \* the shutdown signal was received
    connMu,      \* holder of q.connMu
    cpc,         \* where each consumer loop is
    after,       \* where its reconnectWithBackoff call continues
    ccon,        \* the connection it opens or has its dedicated channel on
    cnew, cold,  \* conn and oldConn in its connectAMQP call
    ppc,         \* publisher: idle | send | ok | err
    pcon,        \* ch read under q.mu, used after the unlock
    place,       \* where an accepted task went: none | memory | broker | void
    mem,         \* tasks in syncCh
    received,    \* the task the in-memory consumer took out and has not started
    running,     \* tasks the in-memory consumer has started
    handled,     \* tasks whose in-memory handler has returned
    memLoop,     \* the in-memory consumer loop is running
    losses, chErrs

queue     == <<cstate, chOpen, AMQPConn, useInMemory, isClosed, amqpConfigured>>
loops     == <<connMu, cpc, after, ccon, cnew, cold>>
publisher == <<ppc, pcon, place>>
memory    == <<mem, received, running, handled, memLoop>>
faultVars == <<losses, chErrs>>
vars      == <<queue, ctxDone, loops, publisher, memory, faultVars>>

MayFail == losses + chErrs < MaxFaults

Closed(c) == c # None => cstate[c] = "closed"

\* AMQPConn and AMQPChannel are there and neither is closed
Connected == ~Closed(AMQPConn) /\ chOpen[AMQPConn]

Health == amqpConfigured => ~useInMemory /\ Connected

(* New and StartConsumers. *)
Init ==
    /\ amqpConfigured \in BOOLEAN
    /\ \E c \in {CHOOSE d \in Conn : TRUE}, ok \in BOOLEAN :
          /\ ok => amqpConfigured
          /\ cstate = [d \in Conn |-> IF ok /\ d = c THEN "open" ELSE "unused"]
          /\ chOpen = [d \in Conn |-> ok /\ d = c]
          /\ AMQPConn = IF ok THEN c ELSE None
          /\ useInMemory = ~ok
    /\ isClosed = FALSE
    /\ ctxDone = FALSE
    /\ connMu = None
    /\ cpc = [k \in Consumer |-> IF amqpConfigured THEN "top" ELSE "returned"]
    /\ after = [k \in Consumer |-> "open"]
    /\ ccon = [k \in Consumer |-> None]
    /\ cnew = [k \in Consumer |-> None]
    /\ cold = [k \in Consumer |-> None]
    /\ ppc = [p \in Pub |-> "idle"]
    /\ pcon = [p \in Pub |-> None]
    /\ place = [p \in Pub |-> "none"]
    /\ mem = {} /\ received = {} /\ running = {} /\ handled = {}
    /\ memLoop = ~amqpConfigured
    /\ losses = 0 /\ chErrs = 0
-----------------------------------------------------------------------------
(* Consumer k: runSelfHealing...Consumer, reconnectWithBackoff, connectAMQP *)
Goto(k, pc) == cpc' = [cpc EXCEPT ![k] = pc]

(* Top of the loop: ctx, isClosed, then the connection. *)
Top(k) ==
    /\ cpc[k] = "top"
    /\ IF ctxDone \/ isClosed
       THEN Goto(k, "returned") /\ UNCHANGED <<after, ccon>>
       ELSE /\ Goto(k, IF Closed(AMQPConn) THEN "reconnect" ELSE "open")
            /\ after' = [after EXCEPT ![k] = "open"]
            /\ ccon' = [ccon EXCEPT ![k] = IF Closed(AMQPConn) THEN None ELSE AMQPConn]
    /\ UNCHANGED <<queue, ctxDone, connMu, cnew, cold, publisher, memory, faultVars>>

(* Mutant: the loop of reconnectWithBackoff looks at neither ctx nor isClosed. *)
ReconnectForever(k) ==
    /\ cpc[k] = "reconnect"
    /\ Goto(k, IF Connected THEN "have" ELSE "lock")
    /\ UNCHANGED <<queue, ctxDone, connMu, after, ccon, cnew, cold, publisher, memory, faultVars>>

(* One round of reconnectWithBackoff up to its call of connectAMQP.  An    *)
(* error ends the loop, at once or (after = "top") at its next ctx check.  *)
Reconnect(k) ==
    /\ cpc[k] = "reconnect"
    /\ Goto(k, IF ctxDone \/ isClosed THEN "returned"
               ELSE IF Connected THEN "have" ELSE "lock")
    /\ UNCHANGED <<queue, ctxDone, connMu, after, ccon, cnew, cold, publisher, memory, faultVars>>

(* connectAMQP: connMu, then the checks of isClosed and of the connection. *)
Lock(k) ==
    /\ cpc[k] = "lock" /\ connMu = None
    /\ IF isClosed \/ Connected
       THEN Goto(k, IF isClosed THEN "reconnect" ELSE "have") /\ UNCHANGED connMu
       ELSE Goto(k, "dial") /\ connMu' = k
    /\ UNCHANGED <<queue, ctxDone, after, ccon, cnew, cold, publisher, memory, faultVars>>

(* Dial, channel and both queue declarations; any of them may fail, and    *)
(* then what was opened is closed again.                                   *)
DialOk(k) ==
    /\ cpc[k] = "dial"
    /\ \E d \in Conn : cstate[d] = "unused"
    /\ LET c == CHOOSE d \in Conn : cstate[d] = "unused" IN
          /\ cstate' = [cstate EXCEPT ![c] = "open"]
          /\ chOpen' = [chOpen EXCEPT ![c] = TRUE]
          /\ cnew' = [cnew EXCEPT ![k] = c]
    /\ Goto(k, "swap")
    /\ UNCHANGED <<AMQPConn, useInMemory, isClosed, amqpConfigured, ctxDone, connMu, after, ccon,
                   cold, publisher, memory, faultVars>>

(* Mutant: a failed dial ends the consumer. *)
DialFailsOnce(k) ==
    /\ cpc[k] = "dial"
    /\ connMu' = None
    /\ Goto(k, "returned")
    /\ UNCHANGED <<queue, ctxDone, after, ccon, cnew, cold, publisher, memory, faultVars>>

(* Mutant: a failed dial keeps connMu. *)
DialFailsLocked(k) ==
    /\ cpc[k] = "dial"
    /\ Goto(k, "reconnect")
    /\ UNCHANGED <<queue, ctxDone, connMu, after, ccon, cnew, cold, publisher, memory, faultVars>>

DialFails(k) ==
    /\ cpc[k] = "dial"
    /\ connMu' = None
    /\ Goto(k, "reconnect")
    /\ UNCHANGED <<queue, ctxDone, after, ccon, cnew, cold, publisher, memory, faultVars>>

(* Mutant: isClosed is not looked at again after the dial. *)
SwapUnchecked(k) ==
    /\ cpc[k] = "swap"
    /\ cold' = [cold EXCEPT ![k] = AMQPConn]
    /\ AMQPConn' = cnew[k]
    /\ useInMemory' = FALSE
    /\ cnew' = [cnew EXCEPT ![k] = None]
    /\ Goto(k, "closeOld")
    /\ UNCHANGED <<cstate, chOpen, connMu, isClosed, amqpConfigured, ctxDone, after, ccon,
                   publisher, memory, faultVars>>

(* Under q.mu: install the new connection unless Close came in between. *)
Swap(k) ==
    /\ cpc[k] = "swap"
    /\ IF isClosed
       THEN /\ cstate' = [cstate EXCEPT ![cnew[k]] = "closed"]
            /\ chOpen' = [chOpen EXCEPT ![cnew[k]] = FALSE]
            /\ connMu' = None
            /\ Goto(k, "reconnect")
            /\ UNCHANGED <<AMQPConn, useInMemory, cold>>
       ELSE /\ cold' = [cold EXCEPT ![k] = AMQPConn]
            /\ AMQPConn' = cnew[k]
            /\ useInMemory' = FALSE
            /\ Goto(k, "closeOld")
            /\ UNCHANGED <<cstate, chOpen, connMu>>
    /\ cnew' = [cnew EXCEPT ![k] = None]
    /\ UNCHANGED <<isClosed, amqpConfigured, ctxDone, after, ccon, publisher, memory, faultVars>>

CloseOld(k) ==
    /\ cpc[k] = "closeOld"
    /\ IF cold[k] = None THEN UNCHANGED <<cstate, chOpen>>
       ELSE /\ cstate' = [cstate EXCEPT ![cold[k]] = "closed"]
            /\ chOpen' = [chOpen EXCEPT ![cold[k]] = FALSE]
    /\ cold' = [cold EXCEPT ![k] = None]
    /\ connMu' = None
    /\ Goto(k, "have")
    /\ UNCHANGED <<AMQPConn, useInMemory, isClosed, amqpConfigured, ctxDone, after, ccon, cnew,
                   publisher, memory, faultVars>>

(* reconnectWithBackoff returned nil: read the connection again. *)
Have(k) ==
    /\ cpc[k] = "have"
    /\ Goto(k, IF Closed(AMQPConn) THEN "top" ELSE after[k])
    /\ ccon' = [ccon EXCEPT ![k] =
                   IF Closed(AMQPConn) \/ after[k] = "top" THEN None ELSE AMQPConn]
    /\ UNCHANGED <<queue, ctxDone, connMu, after, cnew, cold, publisher, memory, faultVars>>

(* conn.Channel, Qos, Consume. *)
OpenOk(k) ==
    /\ cpc[k] = "open" /\ cstate[ccon[k]] = "open"
    /\ Goto(k, "consume")
    /\ UNCHANGED <<queue, ctxDone, connMu, after, ccon, cnew, cold, publisher, memory, faultVars>>

OpenFails(k) ==
    /\ cpc[k] = "open"
    /\ Goto(k, "reconnect")
    /\ after' = [after EXCEPT ![k] = "top"]
    /\ ccon' = [ccon EXCEPT ![k] = None]
    /\ UNCHANGED <<queue, ctxDone, connMu, cnew, cold, publisher, memory, faultVars>>

(* The msgs channel closes with its connection, or by a channel error. *)
MsgsClosed(k) ==
    /\ cpc[k] = "consume"
    /\ \/ cstate[ccon[k]] = "closed" /\ UNCHANGED chErrs
       \/ MayFail /\ chErrs' = chErrs + 1
    /\ Goto(k, "top")
    /\ ccon' = [ccon EXCEPT ![k] = None]
    /\ UNCHANGED <<queue, ctxDone, connMu, after, cnew, cold, publisher, memory, losses>>

CtxStops(k) ==
    /\ cpc[k] = "consume" /\ ctxDone
    /\ Goto(k, "returned")
    /\ ccon' = [ccon EXCEPT ![k] = None]
    /\ UNCHANGED <<queue, ctxDone, connMu, after, cnew, cold, publisher, memory, faultVars>>

ConsumerStep(k) ==
    \/ Top(k) \/ Reconnect(k) \/ Lock(k) \/ DialOk(k) \/ DialFails(k) \/ Swap(k)
    \/ CloseOld(k) \/ Have(k) \/ OpenOk(k) \/ OpenFails(k) \/ MsgsClosed(k) \/ CtxStops(k)
-----------------------------------------------------------------------------
(* PublishSyncTask: the mode and the channel are read under q.mu. *)
InMemory == useInMemory \/ Closed(AMQPConn)

PublishMemory(p) ==
    /\ ppc[p] = "idle" /\ InMemory
    /\ IF Cardinality(mem) < MemCap
       THEN /\ mem' = mem \cup {p}
            /\ place' = [place EXCEPT ![p] = "memory"]
            /\ ppc' = [ppc EXCEPT ![p] = "ok"]
       ELSE ppc' = [ppc EXCEPT ![p] = "err"] /\ UNCHANGED <<mem, place>>
    /\ UNCHANGED <<queue, ctxDone, loops, pcon, received, running, handled, memLoop, faultVars>>

(* The select of PublishSyncTask may see the request's ctx.Done instead. *)
PublishCancelled(p) ==
    /\ ppc[p] = "idle" /\ InMemory
    /\ ppc' = [ppc EXCEPT ![p] = "err"]
    /\ UNCHANGED <<queue, ctxDone, loops, pcon, place, memory, faultVars>>

PublishRead(p) ==
    /\ ppc[p] = "idle" /\ ~InMemory
    /\ pcon' = [pcon EXCEPT ![p] = AMQPConn]
    /\ ppc' = [ppc EXCEPT ![p] = "send"]
    /\ UNCHANGED <<queue, ctxDone, loops, place, memory, faultVars>>

(* The publish itself.  The channel is not in confirm mode: bytes written  *)
(* to a dead connection count as published.                                *)
PublishSend(p) ==
    /\ ppc[p] = "send"
    /\ IF chOpen[pcon[p]]
       THEN /\ ppc' = [ppc EXCEPT ![p] = "ok"]
            /\ place' = [place EXCEPT ![p] =
                           IF cstate[pcon[p]] = "open" THEN "broker" ELSE "void"]
       ELSE ppc' = [ppc EXCEPT ![p] = "err"] /\ UNCHANGED place
    /\ pcon' = [pcon EXCEPT ![p] = None]
    /\ UNCHANGED <<queue, ctxDone, loops, memory, faultVars>>

(* consumeSyncInMemory, started only when AMQP is not configured: a task   *)
(* is received                                                             *)
MemReceive(p) ==
    /\ memLoop /\ received = {} /\ p \in mem
    /\ mem' = mem \ {p}
    /\ received' = {p}
    /\ UNCHANGED <<queue, ctxDone, loops, publisher, running, handled, memLoop, faultVars>>

(* Mutant: the semaphore has one place less. *)
MemStartOneLess(p) ==
    /\ p \in received /\ Cardinality(running) < Sem - 1
    /\ received' = {}
    /\ running' = running \cup {p}
    /\ UNCHANGED <<queue, ctxDone, loops, publisher, mem, handled, memLoop, faultVars>>

(* and waits for a place of the semaphore, whatever becomes of ctx. *)
MemStart(p) ==
    /\ p \in received /\ Cardinality(running) < Sem
    /\ received' = {}
    /\ running' = running \cup {p}
    /\ UNCHANGED <<queue, ctxDone, loops, publisher, mem, handled, memLoop, faultVars>>

MemHandled(p) ==
    /\ p \in running
    /\ running' = running \ {p}
    /\ handled' = handled \cup {p}
    /\ UNCHANGED <<queue, ctxDone, loops, publisher, mem, received, memLoop, faultVars>>

MemStops ==
    /\ memLoop /\ received = {} /\ ctxDone
    /\ memLoop' = FALSE
    /\ UNCHANGED <<queue, ctxDone, loops, publisher, mem, received, running, handled, faultVars>>

\* the goroutine of the in-memory consumer
MemLoopStep == (\E p \in Pub : MemReceive(p) \/ MemStart(p)) \/ MemStops
-----------------------------------------------------------------------------
LoseConnection(c) ==
    /\ MayFail /\ cstate[c] = "open"
    /\ cstate' = [cstate EXCEPT ![c] = "lost"]
    /\ losses' = losses + 1
    /\ UNCHANGED <<chOpen, AMQPConn, useInMemory, isClosed, amqpConfigured, ctxDone, loops,
                   publisher, memory, chErrs>>

NoticeLoss(c) ==
    /\ cstate[c] = "lost"
    /\ cstate' = [cstate EXCEPT ![c] = "closed"]
    /\ chOpen' = [chOpen EXCEPT ![c] = FALSE]
    /\ UNCHANGED <<AMQPConn, useInMemory, isClosed, amqpConfigured, ctxDone, loops, publisher,
                   memory, faultVars>>

PubChannelError(c) ==
    /\ MayFail /\ cstate[c] = "open" /\ chOpen[c]
    /\ chOpen' = [chOpen EXCEPT ![c] = FALSE]
    /\ chErrs' = chErrs + 1
    /\ UNCHANGED <<cstate, AMQPConn, useInMemory, isClosed, amqpConfigured, ctxDone, loops,
                   publisher, memory, losses>>

Shutdown ==
    /\ ~ctxDone
    /\ ctxDone' = TRUE
    /\ UNCHANGED <<queue, loops, publisher, memory, faultVars>>

(* main: Drain waits for the handlers that were started (a received task   *)
(* is not in q.wg yet), then the deferred Close.                           *)
Close ==
    /\ ctxDone /\ ~isClosed /\ running = {}
    /\ isClosed' = TRUE
    /\ IF AMQPConn = None THEN UNCHANGED <<cstate, chOpen>>
       ELSE /\ cstate' = [cstate EXCEPT ![AMQPConn] = "closed"]
            /\ chOpen' = [chOpen EXCEPT ![AMQPConn] = FALSE]
    /\ AMQPConn' = None
    /\ UNCHANGED <<useInMemory, amqpConfigured, ctxDone, loops, publisher, memory, faultVars>>

Next ==
    \/ \E k \in Consumer : ConsumerStep(k)
    \/ \E p \in Pub : PublishMemory(p) \/ PublishCancelled(p) \/ PublishRead(p)
                        \/ PublishSend(p) \/ MemHandled(p)
    \/ \E c \in Conn : LoseConnection(c) \/ NoticeLoss(c) \/ PubChannelError(c)
    \/ MemLoopStep \/ Shutdown \/ Close

Spec == Init /\ [][Next]_vars

(***************************************************************************)
(* Fairness.  Goroutines run; Go's mutex does not starve a waiter; a dead  *)
(* connection is noticed by the heartbeat; the broker, tried again and     *)
(* again, is reached and answers in the end.                               *)
(***************************************************************************)
Fairness ==
    /\ \A k \in Consumer : WF_vars(ConsumerStep(k))
    /\ SF_vars(\E k \in Consumer : DialOk(k)) /\ SF_vars(\E k \in Consumer : OpenOk(k))
    /\ WF_vars(\E c \in Conn : NoticeLoss(c))
    /\ WF_vars(MemLoopStep) /\ WF_vars(\E p \in Pub : MemHandled(p))

FairSpec == Spec /\ Fairness
-----------------------------------------------------------------------------
QueueType ==
    /\ cstate \in [Conn -> {"unused", "open", "lost", "closed"}]
    /\ chOpen \in [Conn -> BOOLEAN]
    /\ AMQPConn \in Conn \cup {None}

FlagType ==
    /\ useInMemory \in BOOLEAN /\ amqpConfigured \in BOOLEAN /\ isClosed \in BOOLEAN
    /\ ctxDone \in BOOLEAN /\ memLoop \in BOOLEAN

LoopsType ==
    /\ connMu \in Consumer \cup {None}
    /\ cpc \in [Consumer -> {"top", "reconnect", "lock", "dial", "swap", "closeOld", "have",
                             "open", "consume", "returned"}]
    /\ after \in [Consumer -> {"open", "top"}]
    /\ ccon \in [Consumer -> Conn \cup {None}]
    /\ cnew \in [Consumer -> Conn \cup {None}]
    /\ cold \in [Consumer -> Conn \cup {None}]

PubType ==
    /\ ppc \in [Pub -> {"idle", "send", "ok", "err"}]
    /\ pcon \in [Pub -> Conn \cup {None}]
    /\ place \in [Pub -> {"none", "memory", "broker", "void"}]

MemType ==
    /\ mem \subseteq Pub /\ Cardinality(mem) <= MemCap
    /\ received \subseteq Pub /\ running \subseteq Pub /\ handled \subseteq Pub
    /\ mem \cap received = {} /\ (mem \cup received) \cap running = {}
    /\ (mem \cup received \cup running) \cap handled = {}

FaultType == losses \in Nat /\ chErrs \in Nat /\ losses + chErrs <= MaxFaults

(* Every variable keeps its type, and an in-memory task is waiting,        *)
(* received, running or handled, never two of these.                       *)
TypeOK == QueueType /\ FlagType /\ LoopsType /\ PubType /\ MemType /\ FaultType

(***************************************************************************)
(* No connection is leaked: when nobody is inside connectAMQP, the only    *)
(* connection that is not closed is q.AMQPConn, and a closed Queue has     *)
(* none.  Close racing a dial in progress, and two consumers reconnecting  *)
(* at once, are what could leave one behind.                               *)
(***************************************************************************)
NoConnectionLeak ==
    /\ connMu = None => \A c \in Conn : cstate[c] \in {"open", "lost"} => c = AMQPConn
    /\ isClosed => AMQPConn = None

\* inside connectAMQP, past the checks
Connecting == {"dial", "swap", "closeOld"}

(* q.connMu is held by the consumer that connects and by nobody else. *)
ConnMuHeld == \A k \in Consumer : cpc[k] \in Connecting <=> connMu = k

(* A connection that is not closed is q.AMQPConn or in the hands of a      *)
(* consumer inside connectAMQP: dialled and not yet installed (cnew), or   *)
(* replaced and not yet closed (cold).                                     *)
NoneStray ==
    \A c \in Conn : cstate[c] \in {"open", "lost"} =>
       \/ c = AMQPConn
       \/ \E k \in Consumer : \/ cpc[k] = "swap" /\ cnew[k] = c
                              \/ cpc[k] = "closeOld" /\ cold[k] = c

(* The in-memory tasks are of publishers that returned, finitely many. *)
MemPublished ==
    /\ IsFiniteSet(mem)
    /\ \A p \in Pub : ppc[p] = "idle" => p \notin mem \cup received \cup running \cup handled

(***************************************************************************)
(* The inductive invariant behind NoConnectionLeak and TypeOK.             *)
(***************************************************************************)
ConnInv ==
    TypeOK /\ ConnMuHeld /\ NoneStray /\ (isClosed => AMQPConn = None) /\ MemPublished

(***************************************************************************)
(* "Background AMQP consumers automatically reconnect ... upon network     *)
(* disruptions or broker restarts" (README.md:42): unless the process is   *)
(* told to stop, both consumers end up consuming on the open connection,   *)
(* for good once losses stop, and the queue reports healthy (a publishing  *)
(* channel that was closed alone is not reopened).                         *)
(***************************************************************************)
SelfHealing ==
    <>[](ctxDone \/ ~amqpConfigured
                 \/ (/\ Health \/ chErrs > 0
                     /\ \A k \in Consumer : cpc[k] = "consume" /\ cstate[ccon[k]] = "open"))

(* After the shutdown signal every consumer loop returns: none is left     *)
(* waiting for a connection, a lock or a delivery.                         *)
ConsumersStop ==
    ctxDone ~> (~memLoop /\ \A k \in Consumer : cpc[k] = "returned")

(* With no broker configured, a task accepted into the in-process channel  *)
(* is handled unless the process is told to stop, though the consumer runs *)
(* only Sem handlers at once.                                              *)
MemoryTasksHandled ==
    \A p \in Pub : (~amqpConfigured /\ place[p] = "memory") ~> (p \in handled \/ ctxDone)

(* "Transparent In-Memory Fallback ... when AMQP_URL is absent or during   *)
(* initial dial retries" (README.md:45): the same with a broker configured *)
(* that is not reached.                                                    *)
FallbackTasksHandled == \A p \in Pub : (place[p] = "memory") ~> (p \in handled \/ ctxDone)

(* "publisher confirmations" (README.md:44): a task whose publish returned *)
(* nil is in the broker's queue or in the in-memory one.                   *)
ConfirmedPublish == \A p \in Pub : ppc[p] = "ok" => place[p] \in {"memory", "broker"}
=============================================================================
