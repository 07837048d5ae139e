--------------------------- MODULE Notifications ----------------------------
(***************************************************************************)
(* The Telegram notices of internal/observability/telegram.go: log records *)
(* and system events enter a bounded channel, one goroutine (Manager.Start)*)
(* sends them through a proxy that may fail, and Drain ends it when the    *)
(* process shuts down.                                                     *)
(*                                                                         *)
(* A text is a member of Notice; a message is as many chunks as its length *)
(* asks for (SplitMessage).  Timers may fire at any time.  The context of  *)
(* a Send (20 s, 5 s while draining) may expire in any of its waits.       *)
(***************************************************************************)
EXTENDS Integers, Sequences

CONSTANTS
    Record,      \* log records of level Warn or above of the rest of the program
    Event,       \* calls of TriggerSystemEvent
    Own,         \* any log record whose text names "telegram" or a "dropped
                 \* system event": the records this package writes itself
    Cap,         \* capacity of m.queue (1000)
    MaxChunks,   \* bound: chunks of a message
    None         \* no message

Notice == Record \cup Event

ASSUME NotificationsAssumption ==
    /\ Cap \in Nat \ {0} /\ MaxChunks \in Nat \ {0}
    /\ Record \cap Event = {} /\ Own \notin Notice /\ None \notin Notice \cup {Own}

VARIABLES
    queue,     \* m.queue
    npc,       \* notice: new | waiting (its event blocks on the full queue) |
               \* accepted | sent | failed | dropped
    main,      \* running | draining (in Drain) | exited
    mpc,       \* manager: warmup | select | pause | drain | drained | left
    hand,      \* msg, while it is being sent
    left,      \* chunks still to be sent, this one included
    attempt,   \* of sendChunk; 0: Send has not looked at the cooldown yet
    lastErr,   \* lastErr # nil
    failures,  \* c.failures, up to the limit: above it all values act alike
    cooling,   \* time.Now().Before(c.coolDownUntil)
    skipped    \* history: notices with a chunk that was rate limited three
               \* times, for which sendChunk returned nil

channel == <<queue, npc>>
sending == <<hand, left, attempt, lastErr>>
client  == <<failures, cooling, skipped>>
vars    == <<channel, main, mpc, sending, client>>

MaxAttempts == 3
FailureLimit == 3

\* the numbers of chunks a message may be cut into
SplitMessage == 1 .. MaxChunks

Init ==
    /\ queue = <<>> /\ npc = [n \in Notice |-> "new"]
    /\ main = "running" /\ mpc = "warmup"
    /\ hand = None /\ left = 0 /\ attempt = 0 /\ lastErr = FALSE
    /\ failures = 0 /\ cooling = FALSE /\ skipped = {}

ctxDone == main # "running"

(***************************************************************************)
(* The channel                                                             *)
(***************************************************************************)
\* Mutant: the handler forwards the records of its own package as well.
IgnoredNothing == {}

\* the records Handle does not forward
Ignored == {Own}

Room == Len(queue) < Cap

Put(n) ==
    /\ queue' = Append(queue, n)
    /\ npc' = [npc EXCEPT ![n] = "accepted"]

\* What a step that logs records of this package does to the channel.
LogOwn == queue' = IF Own \notin Ignored /\ Room THEN Append(queue, Own) ELSE queue

Handle(r) ==
    /\ main # "exited" /\ npc[r] = "new"
    /\ \/ r \notin Ignored /\ Room /\ Put(r)
       \/ /\ npc' = [npc EXCEPT ![r] = "dropped"]  \* no room, or h.next.Handle failed
          /\ UNCHANGED queue
    /\ UNCHANGED <<main, mpc, sending, client>>

TriggerSystemEvent(e) ==
    /\ main # "exited" /\ npc[e] = "new"
    /\ \/ Room /\ Put(e)
       \/ ~Room /\ npc' = [npc EXCEPT ![e] = "waiting"] /\ UNCHANGED queue
    /\ UNCHANGED <<main, mpc, sending, client>>

GiveUp(e) ==
    /\ main # "exited" /\ npc[e] = "waiting"
    /\ npc' = [npc EXCEPT ![e] = "dropped"]
    /\ LogOwn
    /\ UNCHANGED <<main, mpc, sending, client>>

\* Mutant: the place that a receive frees is open to any sender.
ReceiveLeavesPlace ==
    /\ queue # <<>> /\ hand = None
    /\ hand' = Head(queue) /\ queue' = Tail(queue)
    /\ UNCHANGED npc

\* A receive from a full Go channel takes in the value of a blocked sender.
Receive ==
    /\ queue # <<>> /\ hand = None
    /\ hand' = Head(queue)
    /\ \/ /\ \A e \in Event : npc[e] # "waiting"
          /\ queue' = Tail(queue) /\ UNCHANGED npc
       \/ \E e \in Event :
             /\ npc[e] = "waiting"
             /\ queue' = Append(Tail(queue), e)
             /\ npc' = [npc EXCEPT ![e] = "accepted"]

(***************************************************************************)
(* TelegramClient                                                          *)
(***************************************************************************)
recordSuccess == failures' = 0 /\ UNCHANGED cooling

recordFailure ==
    LET val == failures + 1
    IN  /\ failures' = IF val <= FailureLimit THEN val ELSE failures
        /\ cooling' = (cooling \/ val >= FailureLimit)

\* The end of a Send that returns an error or nil: the manager pauses after an
\* error unless it is draining.
SendEnds(verdict) ==
    /\ npc' = [n \in Notice |-> IF n = hand THEN verdict ELSE npc[n]]
    /\ hand' = None /\ left' = 0 /\ attempt' = 0 /\ lastErr' = FALSE
    /\ mpc' = IF verdict = "failed" /\ mpc = "select" THEN "pause" ELSE mpc

\* Mutant: Send does not look at the cooldown.
SendIgnoresCooldown ==
    /\ hand # None /\ attempt = 0
    /\ left' \in SplitMessage /\ attempt' = 1
    /\ UNCHANGED <<channel, mpc, hand, lastErr, main, client>>

Send ==
    /\ hand # None /\ attempt = 0
    /\ \/ cooling /\ SendEnds("failed") /\ LogOwn
       \/ /\ ~cooling
          /\ left' \in SplitMessage /\ attempt' = 1
          /\ UNCHANGED <<channel, mpc, hand, lastErr>>
    /\ UNCHANGED <<main, client>>

NextChunk ==
    \/ /\ left > 1 /\ left' = left - 1 /\ attempt' = 1 /\ lastErr' = FALSE
       /\ UNCHANGED <<npc, mpc, hand>>
    \/ left = 1 /\ SendEnds("sent")

SendOk ==
    /\ attempt > 0
    /\ recordSuccess /\ NextChunk
    /\ UNCHANGED <<queue, main, skipped>>

\* The proxy answers with an error or not at all, or (limited) asks to retry.
SendRefused(limited) ==
    /\ attempt > 0
    /\ \/ SendEnds("failed") /\ LogOwn /\ UNCHANGED client  \* ctx.Done()
       \/ /\ attempt < MaxAttempts
          /\ attempt' = attempt + 1 /\ lastErr' = (lastErr \/ ~limited)
          /\ IF limited THEN LogOwn ELSE UNCHANGED queue
          /\ UNCHANGED <<npc, mpc, hand, left, client>>
       \/ /\ attempt = MaxAttempts /\ recordFailure /\ LogOwn
          /\ \/ (lastErr \/ ~limited) /\ SendEnds("failed") /\ UNCHANGED skipped
             \/ ~lastErr /\ limited /\ NextChunk /\ skipped' = skipped \cup {hand}
    /\ UNCHANGED main

CoolDownEnds ==
    /\ cooling /\ cooling' = FALSE
    /\ UNCHANGED <<channel, main, mpc, sending, failures, skipped>>

(***************************************************************************)
(* Manager                                                                 *)
(***************************************************************************)
WarmUp ==
    /\ mpc = "warmup"
    /\ \/ ctxDone /\ mpc' = "left"
       \/ mpc' = "select"
    /\ UNCHANGED <<channel, main, sending, client>>

Take ==
    /\ mpc \in {"select", "drain"} /\ Receive
    /\ UNCHANGED <<main, mpc, left, attempt, lastErr, client>>

Pause ==
    /\ mpc = "pause"
    /\ \/ ctxDone /\ mpc' = "left"
       \/ mpc' = "select"
    /\ UNCHANGED <<channel, main, sending, client>>

SeeDone ==
    /\ mpc = "select" /\ hand = None /\ ctxDone
    /\ mpc' = "drain"
    /\ UNCHANGED <<channel, main, sending, client>>

\* Mutant: the drain ends with the message that it has in hand.
DrainedTooSoon ==
    /\ mpc = "drain" /\ queue = <<>>
    /\ mpc' = "drained"
    /\ UNCHANGED <<channel, main, sending, client>>

Drained ==
    /\ mpc = "drain" /\ hand = None /\ queue = <<>>
    /\ mpc' = "drained"
    /\ UNCHANGED <<channel, main, sending, client>>

Drain ==
    /\ main = "running" /\ main' = "draining"
    /\ UNCHANGED <<channel, mpc, sending, client>>

\* <-m.done; the deferred Drain is the last thing main does
Exit ==
    /\ main = "draining" /\ mpc \in {"drained", "left"}
    /\ main' = "exited"
    /\ UNCHANGED <<channel, mpc, sending, client>>

ManagerStep ==
    \/ WarmUp \/ Take \/ Pause \/ SeeDone \/ Drained
    \/ Send \/ SendOk \/ \E limited \in BOOLEAN : SendRefused(limited)

Next ==
    \/ \E r \in Record : Handle(r)
    \/ \E e \in Event : TriggerSystemEvent(e) \/ GiveUp(e)
    \/ ManagerStep \/ CoolDownEnds \/ Drain \/ Exit

Spec == Init /\ [][Next]_vars

\* The scheduler runs the manager and main, requests and waits have timeouts,
\* and a blocked event is given up after two seconds.  The proxy need not
\* answer, the cooldown need not end and nobody need shut the process down.
FairSpec ==
    /\ Spec /\ WF_vars(ManagerStep) /\ WF_vars(Exit)
    /\ \A e \in Event : WF_vars(GiveUp(e))

(***************************************************************************)
(* Properties                                                              *)
(***************************************************************************)
(* Every variable has its type, and the channel never exceeds its capacity. *)
TypeOK ==
    /\ queue \in Seq(Notice) /\ Len(queue) <= Cap
    /\ npc \in [Notice -> {"new", "waiting", "accepted", "sent", "failed", "dropped"}]
    /\ main \in {"running", "draining", "exited"}
    /\ mpc \in {"warmup", "select", "pause", "drain", "drained", "left"}
    /\ hand \in Notice \cup {None}
    /\ left \in 0 .. MaxChunks /\ attempt \in 0 .. MaxAttempts /\ lastErr \in BOOLEAN
    /\ failures \in 0 .. FailureLimit /\ cooling \in BOOLEAN /\ skipped \subseteq Notice

InQueue(n) == \E i \in 1 .. Len(queue) : queue[i] = n

(* A notice that was accepted and not yet dealt with is in the channel or in *)
(* the manager's hand, once and in one of them.                              *)
Conserved ==
    /\ \A i, j \in 1 .. Len(queue) : queue[i] = queue[j] => i = j
    /\ hand # None => ~InQueue(hand)
    /\ \A n \in Notice : npc[n] = "accepted" <=> InQueue(n) \/ n = hand

(* A system event waits only while the channel is full, so no log record can *)
(* take a place before it.                                                   *)
WaitMeansFull ==
    /\ \A r \in Record : npc[r] # "waiting"
    /\ (\E e \in Event : npc[e] = "waiting") => Len(queue) = Cap

(* The manager has a message in hand only in its loops, counts attempts only *)
(* of a message in hand with a chunk left, and stops only in a shutdown.     *)
ManagerOK ==
    /\ hand # None => mpc \in {"select", "drain"}
    /\ attempt > 0 => hand # None /\ left > 0
    /\ mpc \in {"drain", "drained", "left"} => ctxDone

(* Send refuses in the five minutes after three consecutive failures, so no  *)
(* request is made in them; the one exception is the rest of a message whose *)
(* chunk was rate limited three times: sendChunk records that failure and    *)
(* returns nil, and Send goes on.                                            *)
CooldownRespected == attempt > 0 /\ cooling => hand \in skipped

(* The inductive invariant of the proofs. *)
NoticeInv == TypeOK /\ Conserved /\ WaitMeansFull /\ ManagerOK /\ CooldownRespected

(* When the drain of Start ends, every notice the channel ever accepted has   *)
(* been sent or has failed: Drain leaves nothing behind unless the manager    *)
(* returns from the warm-up or from the pause after an error.                 *)
DrainComplete ==
    [][mpc # "drained" /\ mpc' = "drained" =>
         \A n \in Notice : npc'[n] \notin {"waiting", "accepted"}]_vars

(* Whatever the proxy does, every notice that was accepted or waits is dealt  *)
(* with unless the process ends, and Drain returns: a failing Send is logged, *)
(* and Handle does not turn that record into a notice.                        *)
Progress ==
    /\ \A n \in Notice :
          npc[n] \in {"waiting", "accepted"}
             ~> npc[n] \in {"sent", "failed", "dropped"} \/ main = "exited"
    /\ main = "draining" ~> main = "exited"
=============================================================================
