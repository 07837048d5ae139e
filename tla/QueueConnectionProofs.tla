------------------------ MODULE QueueConnectionProofs ------------------------
(***************************************************************************)
(* Proofs that ConnInv is an invariant of QueueConnection for any number   *)
(* of consumers, connections, publishers and faults, and what follows from *)
(* it.                                                                     *)
(***************************************************************************)
EXTENDS QueueConnection, FiniteSetTheorems, TLAPS

(* New leaves a queue that satisfies the inductive invariant, with or      *)
(* without a connection.                                                   *)
LEMMA InitConnInv == Init => ConnInv
  <1> SUFFICES ASSUME Init PROVE ConnInv
    BY ZenonT(30)
  <1> USE ZenonT(30), CapacityAssumption
  <1>1. (CHOOSE d \in Conn : TRUE) \in Conn
    OBVIOUS
  <1>2. TypeOK
    <2>1. PICK c \in {CHOOSE d \in Conn : TRUE}, ok \in BOOLEAN :
             /\ ok => amqpConfigured
             /\ cstate = [d \in Conn |-> IF ok /\ d = c THEN "open" ELSE "unused"]
             /\ chOpen = [d \in Conn |-> ok /\ d = c]
             /\ AMQPConn = IF ok THEN c ELSE None
             /\ useInMemory = ~ok
      BY DEF Init
    <2>2. chOpen \in [Conn -> BOOLEAN]
      BY <2>1
    <2>3. useInMemory \in BOOLEAN
      BY <2>1
    <2>4. memLoop \in BOOLEAN /\ amqpConfigured \in BOOLEAN
      BY DEF Init
    <2>5. /\ cstate \in [Conn -> {"unused", "open", "lost", "closed"}]
          /\ AMQPConn \in Conn \cup {None}
      BY <1>1, <2>1
    <2>6. cpc \in [Consumer -> {"top", "reconnect", "lock", "dial", "swap", "closeOld", "have",
                                "open", "consume", "returned"}]
      BY DEF Init
    <2>7. isClosed \in BOOLEAN /\ ctxDone \in BOOLEAN /\ connMu \in Consumer \cup {None}
      BY DEF Init
    <2>8. /\ after \in [Consumer -> {"open", "top"}]
          /\ ccon \in [Consumer -> Conn \cup {None}]
          /\ cnew \in [Consumer -> Conn \cup {None}]
          /\ cold \in [Consumer -> Conn \cup {None}]
      BY DEF Init
    <2>9. /\ ppc \in [Pub -> {"idle", "send", "ok", "err"}]
          /\ pcon \in [Pub -> Conn \cup {None}]
          /\ place \in [Pub -> {"none", "memory", "broker", "void"}]
          /\ mem = {} /\ received = {} /\ running = {} /\ handled = {}
          /\ losses = 0 /\ chErrs = 0
      BY DEF Init
    <2> QED
      BY <2>2, <2>3, <2>4, <2>5, <2>6, <2>7, <2>8, <2>9, FS_EmptySet, SMTT(30)
         DEF TypeOK, QueueType, FlagType, LoopsType, PubType, MemType, FaultType
  <1>3. ConnMuHeld
    BY DEF Init, ConnMuHeld, Connecting
  <1>4. NoneStray
    BY <1>1 DEF Init, NoneStray
  <1>5. (isClosed => AMQPConn = None) /\ MemPublished
    BY FS_EmptySet DEF Init, MemPublished
  <1> QED
    BY <1>2, <1>3, <1>4, <1>5 DEF ConnInv

\* the steps of publisher p and of its task in memory
PubStep(p) ==
    \/ PublishMemory(p) \/ PublishCancelled(p) \/ PublishRead(p) \/ PublishSend(p)
    \/ MemReceive(p) \/ MemStart(p) \/ MemHandled(p)

(* Publishing touches neither the connection nor the consumer loops, and   *)
(* the consumer loops of the broker touch no publisher and no task in      *)
(* memory.                                                                 *)
LEMMA PubFrame == ASSUME NEW p, PubStep(p) PROVE UNCHANGED <<queue, loops>>
  BY ZenonT(30) DEF PubStep, PublishMemory, PublishCancelled, PublishRead, PublishSend,
                   MemReceive, MemStart, MemHandled

LEMMA ConsumerFrame == ASSUME NEW k, ConsumerStep(k) PROVE UNCHANGED <<publisher, memory>>
  BY ZenonT(30) DEF ConsumerStep, Top, Reconnect, Lock, DialOk, DialFails, Swap, CloseOld, Have, OpenOk,
         OpenFails, MsgsClosed, CtxStops

(* Only a consumer moves a consumer loop. *)
LEMMA LoopsFrame ==
    ASSUME [Next]_vars PROVE (\E k \in Consumer : ConsumerStep(k)) \/ UNCHANGED loops
  <1>1. ASSUME NEW c \in Conn, LoseConnection(c) \/ NoticeLoss(c) \/ PubChannelError(c)
        PROVE  UNCHANGED loops
    BY <1>1, ZenonT(30) DEF LoseConnection, NoticeLoss, PubChannelError
  <1>2. CASE MemStops \/ Shutdown \/ Close \/ UNCHANGED vars
    BY <1>2, ZenonT(30) DEF MemStops, Shutdown, Close, vars
  <1> QED
    BY <1>1, <1>2, PubFrame, ZenonT(30) DEF Next, MemLoopStep, PubStep

(* Closing the publishing channel of a connection leaves the flags a       *)
(* function.                                                               *)
LEMMA ChannelCloses ==
    ASSUME chOpen \in [Conn -> BOOLEAN], NEW c
    PROVE  [chOpen EXCEPT ![c] = FALSE] \in [Conn -> BOOLEAN]
  BY ZenonT(30)

(* A flag is only ever set to TRUE or to FALSE. *)
LEMMA NextFlags == FlagType /\ [Next]_vars => FlagType'
  <1> SUFFICES ASSUME FlagType, [Next]_vars PROVE FlagType'
    BY ZenonT(30)
  <1> USE ZenonT(30)
  <1>1. ASSUME NEW k \in Consumer, ConsumerStep(k) PROVE FlagType'
    <2>1. CASE Swap(k)
      BY <2>1 DEF Swap, FlagType, memory
    <2>2. CASE DialOk(k) \/ CloseOld(k)
      BY <2>2 DEF DialOk, CloseOld, FlagType, memory
    <2>3. CASE Top(k) \/ Reconnect(k) \/ Lock(k) \/ DialFails(k) \/ Have(k)
      BY <2>3 DEF Top, Reconnect, Lock, DialFails, Have, FlagType, queue, memory
    <2>4. CASE OpenOk(k) \/ OpenFails(k) \/ MsgsClosed(k) \/ CtxStops(k)
      BY <2>4 DEF OpenOk, OpenFails, MsgsClosed, CtxStops, FlagType, queue, memory
    <2> QED
      BY <1>1, <2>1, <2>2, <2>3, <2>4 DEF ConsumerStep
  <1>2. ASSUME NEW p \in Pub, PubStep(p) PROVE FlagType'
    <2>1. UNCHANGED <<queue, ctxDone, memLoop>>
      BY <1>2 DEF PubStep, PublishMemory, PublishCancelled, PublishRead, PublishSend, MemReceive,
                  MemStart, MemHandled, memory
    <2> QED
      BY <2>1 DEF FlagType, queue
  <1>3. ASSUME NEW c \in Conn, LoseConnection(c) \/ NoticeLoss(c) \/ PubChannelError(c)
        PROVE  FlagType'
    BY <1>3 DEF LoseConnection, NoticeLoss, PubChannelError, FlagType, memory
  <1>4. CASE MemStops
    BY <1>4 DEF MemStops, FlagType, queue
  <1>5. CASE Shutdown
    BY <1>5 DEF Shutdown, FlagType, queue, memory
  <1>6. CASE Close
    BY <1>6 DEF Close, FlagType, memory
  <1>7. CASE UNCHANGED vars
    BY <1>7 DEF vars, FlagType, queue, memory
  <1> QED
    BY <1>1, <1>2, <1>3, <1>4, <1>5, <1>6, <1>7 DEF Next, MemLoopStep, PubStep

(* What a step leaves alone keeps its type. *)
LEMMA TypeFrame ==
    /\ QueueType /\ UNCHANGED queue => QueueType'
    /\ LoopsType /\ UNCHANGED loops => LoopsType'
    /\ PubType /\ UNCHANGED publisher => PubType'
    /\ MemType /\ UNCHANGED <<mem, received, running, handled>> => MemType'
    /\ FaultType /\ UNCHANGED faultVars => FaultType'
  <1>1. QueueType /\ UNCHANGED queue => QueueType'
    BY ZenonT(30) DEF QueueType, queue
  <1>2. LoopsType /\ UNCHANGED loops => LoopsType'
    BY ZenonT(30) DEF LoopsType, loops
  <1>3. PubType /\ UNCHANGED publisher => PubType'
    BY ZenonT(30) DEF PubType, publisher
  <1>4. MemType /\ UNCHANGED <<mem, received, running, handled>> => MemType'
    BY ZenonT(30) DEF MemType
  <1>5. FaultType /\ UNCHANGED faultVars => FaultType'
    BY ZenonT(30) DEF FaultType, faultVars
  <1> QED
    BY <1>1, <1>2, <1>3, <1>4, <1>5, ZenonT(30)

(* A step of a consumer keeps the types of the loops and of the connection. *)
LEMMA ConsumerType ==
    ASSUME NEW k \in Consumer, ConsumerStep(k), QueueType, LoopsType, FaultType
    PROVE  /\ QueueType' /\ LoopsType' /\ FaultType'
           /\ UNCHANGED <<ctxDone, publisher, memory>>
  <1> DEFINE Goal == /\ QueueType' /\ LoopsType' /\ FaultType'
                     /\ UNCHANGED <<ctxDone, publisher, memory>>
  <1> USE ZenonT(30), CapacityAssumption
  <1>1. CASE Top(k)
    BY <1>1, TypeFrame, SMTT(30) DEF Top, Goto, QueueType, LoopsType
  <1>2. CASE Reconnect(k)
    BY <1>2, TypeFrame DEF Reconnect, Goto, LoopsType
  <1>3. CASE Lock(k)
    BY <1>3, TypeFrame DEF Lock, Goto, LoopsType
  <1>4. CASE DialOk(k)
    <2>1. (CHOOSE d \in Conn : cstate[d] = "unused") \in Conn
      BY <1>4 DEF DialOk
    <2>2. QueueType'
      BY <1>4, <2>1 DEF DialOk, QueueType
    <2> QED
      BY <1>4, <2>1, <2>2, TypeFrame DEF DialOk, Goto, LoopsType
  <1>5. CASE DialFails(k)
    BY <1>5, TypeFrame DEF DialFails, Goto, LoopsType
  <1>6. CASE Swap(k)
    <2>1. CASE isClosed
      <3>1. /\ cstate' = [cstate EXCEPT ![cnew[k]] = "closed"]
            /\ chOpen' = [chOpen EXCEPT ![cnew[k]] = FALSE]
            /\ UNCHANGED AMQPConn
        BY <1>6, <2>1 DEF Swap
      <3>2. QueueType'
        BY <3>1, ChannelCloses DEF QueueType
      <3> QED
        BY <1>6, <2>1, <3>2, TypeFrame DEF Swap, Goto, LoopsType
    <2>2. CASE ~isClosed
      <3>1. AMQPConn' = cnew[k] /\ UNCHANGED <<cstate, chOpen>>
        BY <1>6, <2>2 DEF Swap
      <3>2. QueueType'
        BY <3>1 DEF QueueType, LoopsType
      <3> QED
        BY <1>6, <2>2, <3>2, TypeFrame DEF Swap, Goto, QueueType, LoopsType
    <2> QED
      BY <2>1, <2>2
  <1>7. CASE CloseOld(k)
    <2>1. /\ \/ UNCHANGED <<cstate, chOpen>>
             \/ /\ cstate' = [cstate EXCEPT ![cold[k]] = "closed"]
                /\ chOpen' = [chOpen EXCEPT ![cold[k]] = FALSE]
          /\ UNCHANGED AMQPConn
      BY <1>7 DEF CloseOld
    <2>2. QueueType'
      BY <2>1, ChannelCloses DEF QueueType
    <2> QED
      BY <1>7, <2>2, TypeFrame DEF CloseOld, Goto, LoopsType
  <1>8. CASE Have(k)
    BY <1>8, TypeFrame DEF Have, Goto, QueueType, LoopsType
  <1>9. CASE OpenOk(k)
    BY <1>9, TypeFrame DEF OpenOk, Goto, LoopsType
  <1>10. CASE OpenFails(k)
    BY <1>10, TypeFrame DEF OpenFails, Goto, LoopsType
  <1>11. CASE MsgsClosed(k)
    <2>1. FaultType'
      BY <1>11, SMTT(30) DEF MsgsClosed, MayFail, FaultType
    <2> QED
      BY <1>11, <2>1, TypeFrame DEF MsgsClosed, Goto, LoopsType
  <1>12. CASE CtxStops(k)
    BY <1>12, TypeFrame DEF CtxStops, Goto, LoopsType
  <1> QED
    BY <1>1, <1>2, <1>3, <1>4, <1>5, <1>6, <1>7, <1>8, <1>9, <1>10, <1>11, <1>12
       DEF ConsumerStep

(* A step of a publisher or of its task keeps the types of both, and the   *)
(* tasks in memory apart.                                                  *)
LEMMA PubStepType ==
    ASSUME NEW p \in Pub, PubStep(p), QueueType, PubType, MemType, MemPublished
    PROVE  PubType' /\ MemType' /\ UNCHANGED <<queue, loops, ctxDone, memLoop, faultVars>>
  <1> USE ZenonT(30), CapacityAssumption
  <1>1. CASE PublishMemory(p)
    <2>1. p \notin mem \cup received \cup running \cup handled
      BY <1>1 DEF PublishMemory, MemPublished
    <2>2. /\ Cardinality(mem) \in Nat
          /\ Cardinality(mem \cup {p}) = Cardinality(mem) + 1
      BY <2>1, FS_AddElement, FS_CardinalityType DEF MemPublished
    <2>3. /\ UNCHANGED <<received, running, handled>>
          /\ \/ mem' = mem
             \/ mem' = mem \cup {p} /\ Cardinality(mem) < MemCap
      BY <1>1 DEF PublishMemory
    <2>4. MemType'
      <3>1. Cardinality(mem') <= MemCap
        <4>1. Cardinality(mem) < MemCap => Cardinality(mem) + 1 <= MemCap
          BY <2>2, SMTT(30)
        <4> QED
          BY <2>2, <2>3, <4>1 DEF MemType
      <3>2. /\ mem' \subseteq Pub
            /\ mem' \cap received = {} /\ (mem' \cup received) \cap running = {}
            /\ (mem' \cup received \cup running) \cap handled = {}
        BY <2>1, <2>3 DEF MemType
      <3> QED
        BY <2>3, <3>1, <3>2 DEF MemType
    <2> QED
      BY <1>1, <2>4 DEF PublishMemory, PubType
  <1>2. CASE PublishCancelled(p)
    BY <1>2, TypeFrame DEF PublishCancelled, PubType, memory
  <1>3. CASE PublishRead(p)
    BY <1>3, TypeFrame DEF PublishRead, PubType, QueueType, memory
  <1>4. CASE PublishSend(p)
    BY <1>4, TypeFrame DEF PublishSend, PubType, memory
  <1>5. CASE MemReceive(p)
    <2>1. /\ Cardinality(mem) \in Nat
          /\ Cardinality(mem \ {p}) = Cardinality(mem) - 1
      BY <1>5, FS_RemoveElement, FS_CardinalityType DEF MemPublished, MemReceive
    <2> QED
      BY <1>5, <2>1, TypeFrame, SMTT(30) DEF MemReceive, MemType
  <1>6. CASE MemStart(p)
    BY <1>6, TypeFrame DEF MemStart, MemType
  <1>7. CASE MemHandled(p)
    BY <1>7, TypeFrame DEF MemHandled, MemType
  <1> QED
    BY <1>1, <1>2, <1>3, <1>4, <1>5, <1>6, <1>7 DEF PubStep

(* Every step of a consumer, of a publisher, of the network and of Close   *)
(* keeps the types.                                                        *)
LEMMA NextType == TypeOK /\ MemPublished /\ [Next]_vars => TypeOK'
  <1> SUFFICES ASSUME TypeOK, MemPublished, [Next]_vars PROVE TypeOK'
    BY ZenonT(30)
  <1> USE ZenonT(30), CapacityAssumption
  <1> QueueType /\ FlagType /\ LoopsType /\ PubType /\ MemType /\ FaultType
    BY DEF TypeOK
  <1> DEFINE Goal == QueueType' /\ LoopsType' /\ PubType' /\ MemType' /\ FaultType'
  <1> SUFFICES Goal
    BY NextFlags DEF TypeOK
  <1>1. ASSUME NEW k \in Consumer, ConsumerStep(k) PROVE Goal
    BY <1>1, ConsumerType, TypeFrame DEF memory
  <1>2. ASSUME NEW p \in Pub, PubStep(p) PROVE Goal
    BY <1>2, PubStepType, TypeFrame
  <1>3. ASSUME NEW c \in Conn, LoseConnection(c) PROVE Goal
    <2>1. QueueType'
      BY <1>3 DEF LoseConnection, QueueType
    <2>2. FaultType'
      BY <1>3, SMTT(30) DEF LoseConnection, MayFail, FaultType
    <2> QED
      BY <1>3, <2>1, <2>2, TypeFrame DEF LoseConnection, memory
  <1>4. ASSUME NEW c \in Conn, NoticeLoss(c) PROVE Goal
    <2>1. QueueType'
      BY <1>4 DEF NoticeLoss, QueueType
    <2> QED
      BY <1>4, <2>1, TypeFrame DEF NoticeLoss, memory
  <1>5. ASSUME NEW c \in Conn, PubChannelError(c) PROVE Goal
    <2>1. QueueType'
      BY <1>5 DEF PubChannelError, QueueType
    <2>2. FaultType'
      BY <1>5, SMTT(30) DEF PubChannelError, MayFail, FaultType
    <2> QED
      BY <1>5, <2>1, <2>2, TypeFrame DEF PubChannelError, memory
  <1>6. CASE MemStops
    BY <1>6, TypeFrame DEF MemStops
  <1>7. CASE Shutdown
    BY <1>7, TypeFrame DEF Shutdown, memory
  <1>8. CASE Close
    <2>1. /\ \/ UNCHANGED <<cstate, chOpen>>
             \/ /\ cstate' = [cstate EXCEPT ![AMQPConn] = "closed"]
                /\ chOpen' = [chOpen EXCEPT ![AMQPConn] = FALSE]
          /\ AMQPConn' = None
      BY <1>8 DEF Close
    <2>2. QueueType'
      BY <2>1, ChannelCloses DEF QueueType
    <2> QED
      BY <1>8, <2>2, TypeFrame DEF Close, memory
  <1>9. CASE UNCHANGED vars
    <2>1. UNCHANGED <<queue, loops, publisher, mem, received, running, handled, faultVars>>
      BY <1>9 DEF vars, memory
    <2> QED
      BY <2>1, TypeFrame
  <1> QED
    BY <1>1, <1>2, <1>3, <1>4, <1>5, <1>6, <1>7, <1>8, <1>9 DEF Next, MemLoopStep, PubStep

(* connMu is taken before the dial and given back after the old connection *)
(* is closed, so the consumer that connects is the one that holds it.      *)
LEMMA NextConnMu == TypeOK /\ ConnMuHeld /\ [Next]_vars => ConnMuHeld'
  <1> SUFFICES ASSUME TypeOK, ConnMuHeld, [Next]_vars PROVE ConnMuHeld'
    BY ZenonT(30)
  <1> USE ZenonT(30), CapacityAssumption
  <1>1. ASSUME NEW k \in Consumer, ConsumerStep(k) PROVE ConnMuHeld'
    <2> cpc \in [Consumer -> {"top", "reconnect", "lock", "dial", "swap", "closeOld", "have",
                              "open", "consume", "returned"}] /\ after[k] \in {"open", "top"}
      BY DEF TypeOK, LoopsType
    <2>1. CASE Top(k)
      BY <2>1 DEF Top, Goto, ConnMuHeld, Connecting
    <2>2. CASE Reconnect(k)
      BY <2>2 DEF Reconnect, Goto, ConnMuHeld, Connecting
    <2>3. CASE Lock(k)
      BY <2>3, SMTT(30) DEF Lock, Goto, ConnMuHeld, Connecting
    <2>4. CASE DialOk(k)
      BY <2>4 DEF DialOk, Goto, ConnMuHeld, Connecting
    <2>5. CASE DialFails(k)
      BY <2>5 DEF DialFails, Goto, ConnMuHeld, Connecting
    <2>6. CASE Swap(k)
      BY <2>6 DEF Swap, Goto, ConnMuHeld, Connecting
    <2>7. CASE CloseOld(k)
      BY <2>7 DEF CloseOld, Goto, ConnMuHeld, Connecting
    <2>8. CASE Have(k)
      BY <2>8 DEF Have, Goto, ConnMuHeld, Connecting
    <2>9. CASE OpenOk(k)
      BY <2>9 DEF OpenOk, Goto, ConnMuHeld, Connecting
    <2>10. CASE OpenFails(k)
      BY <2>10 DEF OpenFails, Goto, ConnMuHeld, Connecting
    <2>11. CASE MsgsClosed(k)
      BY <2>11 DEF MsgsClosed, Goto, ConnMuHeld, Connecting
    <2>12. CASE CtxStops(k)
      BY <2>12 DEF CtxStops, Goto, ConnMuHeld, Connecting
    <2> QED
      BY <1>1, <2>1, <2>2, <2>3, <2>4, <2>5, <2>6, <2>7, <2>8, <2>9, <2>10, <2>11, <2>12 DEF ConsumerStep
  <1>2. CASE UNCHANGED loops
    BY <1>2 DEF loops, ConnMuHeld
  <1> QED
    BY <1>1, <1>2, LoopsFrame

(* The heart of NoConnectionLeak: what is opened is handed from cnew to    *)
(* AMQPConn to cold, and closed where it is handed on to nobody.           *)
LEMMA NextNoneStray ==
    TypeOK /\ ConnMuHeld /\ NoneStray /\ (isClosed => AMQPConn = None) /\ [Next]_vars
       => NoneStray' /\ (isClosed => AMQPConn = None)'
  <1> DEFINE Goal == NoneStray' /\ (isClosed => AMQPConn = None)'
  <1> SUFFICES ASSUME TypeOK, ConnMuHeld, NoneStray, isClosed => AMQPConn = None, [Next]_vars
               PROVE  Goal
    BY ZenonT(30)
  <1> USE ZenonT(30), CapacityAssumption
  <1> /\ cstate \in [Conn -> {"unused", "open", "lost", "closed"}]
      /\ AMQPConn \in Conn \cup {None}
      /\ cpc \in [Consumer -> {"top", "reconnect", "lock", "dial", "swap", "closeOld", "have",
                               "open", "consume", "returned"}]
      /\ cnew \in [Consumer -> Conn \cup {None}] /\ cold \in [Consumer -> Conn \cup {None}]
    BY DEF TypeOK, QueueType, LoopsType
  <1>1. ASSUME NEW k \in Consumer, ConsumerStep(k) PROVE Goal
    <2>1. CASE DialOk(k)
      <3> DEFINE d == CHOOSE e \in Conn : cstate[e] = "unused"
      <3>1. /\ d \in Conn
            /\ cstate' = [cstate EXCEPT ![d] = "open"]
            /\ cnew' = [cnew EXCEPT ![k] = d]
        BY <2>1 DEF DialOk
      <3>2. /\ cpc[k] = "dial" /\ cpc' = [cpc EXCEPT ![k] = "swap"]
            /\ UNCHANGED <<AMQPConn, isClosed, cold>>
        BY <2>1 DEF DialOk, Goto
      <3> HIDE DEF d
      <3>3. ASSUME NEW c \in Conn, cstate'[c] \in {"open", "lost"}, c # AMQPConn'
            PROVE  \E j \in Consumer : \/ cpc'[j] = "swap" /\ cnew'[j] = c
                                       \/ cpc'[j] = "closeOld" /\ cold'[j] = c
        <4>1. CASE c = d
          BY <3>1, <3>2, <4>1
        <4>2. CASE c # d
          BY <3>1, <3>2, <3>3, <4>2 DEF NoneStray
        <4> QED
          BY <4>1, <4>2
      <3> QED
        BY <3>2, <3>3 DEF NoneStray
    <2>2. CASE Swap(k)
      <3>1. \A j \in Consumer : cpc[j] \in {"swap", "closeOld"} => j = k
        BY <2>2 DEF Swap, ConnMuHeld, Connecting
      <3>2. CASE isClosed
        BY <2>2, <3>1, <3>2, SMTT(30) DEF Swap, Goto, NoneStray
      <3>3. CASE ~isClosed
        <4>1. /\ cold' = [cold EXCEPT ![k] = AMQPConn] /\ AMQPConn' = cnew[k]
              /\ cpc[k] = "swap" /\ cpc' = [cpc EXCEPT ![k] = "closeOld"]
              /\ UNCHANGED <<cstate, isClosed>>
          BY <2>2, <3>3 DEF Swap, Goto
        <4>2. ASSUME NEW c \in Conn, cstate'[c] \in {"open", "lost"}, c # AMQPConn'
              PROVE  cpc'[k] = "closeOld" /\ cold'[k] = c
          BY <3>1, <4>1, <4>2 DEF NoneStray
        <4> QED
          BY <3>3, <4>1, <4>2 DEF NoneStray
      <3> QED
        BY <3>2, <3>3
    <2>3. CASE CloseOld(k)
      <3>1. \A j \in Consumer : cpc[j] \in {"swap", "closeOld"} => j = k
        BY <2>3 DEF CloseOld, ConnMuHeld, Connecting
      <3>2. /\ cpc[k] = "closeOld" /\ UNCHANGED <<AMQPConn, isClosed>>
            /\ cold[k] # None => cstate' = [cstate EXCEPT ![cold[k]] = "closed"]
            /\ cold[k] = None => cstate' = cstate
        BY <2>3 DEF CloseOld
      <3>3. ASSUME NEW c \in Conn, cstate'[c] \in {"open", "lost"} PROVE c = AMQPConn
        BY <3>1, <3>2, <3>3, SMTT(30) DEF NoneStray
      <3> QED
        BY <3>2, <3>3 DEF NoneStray
    <2>4. ASSUME UNCHANGED queue, UNCHANGED <<cnew, cold>>, cpc[k] \notin {"swap", "closeOld"},
                 NEW pc, Goto(k, pc)
          PROVE  Goal
      BY <2>4 DEF queue, Goto, NoneStray
    <2>5. CASE Top(k)
      BY <2>4, <2>5 DEF Top
    <2>6. CASE Reconnect(k)
      BY <2>4, <2>6 DEF Reconnect
    <2>7. CASE Lock(k)
      BY <2>4, <2>7 DEF Lock
    <2>8. CASE DialFails(k)
      BY <2>4, <2>8 DEF DialFails
    <2>9. CASE Have(k)
      BY <2>4, <2>9 DEF Have
    <2>10. CASE OpenOk(k) \/ OpenFails(k)
      BY <2>4, <2>10 DEF OpenOk, OpenFails
    <2>11. CASE MsgsClosed(k) \/ CtxStops(k)
      BY <2>4, <2>11 DEF MsgsClosed, CtxStops
    <2> QED
      BY <1>1, <2>1, <2>2, <2>3, <2>5, <2>6, <2>7, <2>8, <2>9, <2>10, <2>11
         DEF ConsumerStep
  <1>2. ASSUME NEW c \in Conn, LoseConnection(c) PROVE Goal
    BY <1>2 DEF LoseConnection, loops, NoneStray
  <1>3. ASSUME NEW c \in Conn, NoticeLoss(c) PROVE Goal
    BY <1>3 DEF NoticeLoss, loops, NoneStray
  <1>4. CASE Close
    BY <1>4, SMTT(30) DEF Close, loops, NoneStray
  <1>5. ASSUME UNCHANGED <<cstate, AMQPConn, isClosed, loops>> PROVE Goal
    BY <1>5 DEF loops, NoneStray
  <1>6. ASSUME NEW c \in Conn, PubChannelError(c) PROVE Goal
    BY <1>5, <1>6 DEF PubChannelError
  <1>7. ASSUME NEW p \in Pub, PubStep(p) PROVE Goal
    BY <1>5, <1>7, PubFrame DEF queue
  <1>8. CASE MemStops \/ Shutdown \/ UNCHANGED vars
    BY <1>5, <1>8 DEF MemStops, Shutdown, vars, queue
  <1> QED
    BY <1>1, <1>2, <1>3, <1>4, <1>6, <1>7, <1>8 DEF Next, MemLoopStep, PubStep

(* A publisher leaves idle when it puts its task into the channel. *)
LEMMA NextMemPublished == TypeOK /\ MemPublished /\ [Next]_vars => MemPublished'
  <1> SUFFICES ASSUME TypeOK, MemPublished, [Next]_vars PROVE MemPublished'
    BY ZenonT(30)
  <1> USE ZenonT(30)
  <1> ppc \in [Pub -> {"idle", "send", "ok", "err"}]
    BY DEF TypeOK, PubType
  <1>1. ASSUME NEW p \in Pub, PublishMemory(p) PROVE MemPublished'
    <2>1. IsFiniteSet(mem \cup {p})
      BY FS_AddElement DEF MemPublished
    <2> QED
      BY <1>1, <2>1 DEF PublishMemory, MemPublished
  <1>2. ASSUME NEW p \in Pub, PublishCancelled(p) PROVE MemPublished'
    BY <1>2 DEF PublishCancelled, MemPublished, memory
  <1>3. ASSUME NEW p \in Pub, PublishRead(p) PROVE MemPublished'
    BY <1>3 DEF PublishRead, MemPublished, memory
  <1>4. ASSUME NEW p \in Pub, PublishSend(p) PROVE MemPublished'
    BY <1>4 DEF PublishSend, MemPublished, memory
  <1>5. ASSUME NEW p \in Pub, MemReceive(p) PROVE MemPublished'
    <2>1. IsFiniteSet(mem \ {p})
      BY FS_RemoveElement DEF MemPublished
    <2> QED
      BY <1>5, <2>1 DEF MemReceive, MemPublished, publisher
  <1>6. ASSUME NEW p \in Pub, MemStart(p) \/ MemHandled(p) PROVE MemPublished'
    BY <1>6 DEF MemStart, MemHandled, MemPublished, publisher
  <1>7. CASE UNCHANGED <<publisher, mem, received, running, handled>>
    BY <1>7 DEF publisher, MemPublished
  <1>8. ASSUME NEW k \in Consumer, ConsumerStep(k) PROVE MemPublished'
    BY <1>7, <1>8, ConsumerFrame DEF memory
  <1>9. ASSUME NEW c \in Conn, LoseConnection(c) \/ NoticeLoss(c) \/ PubChannelError(c)
        PROVE  MemPublished'
    BY <1>7, <1>9 DEF LoseConnection, NoticeLoss, PubChannelError, memory
  <1>10. CASE MemStops \/ Shutdown \/ Close \/ UNCHANGED vars
    BY <1>7, <1>10 DEF MemStops, Shutdown, Close, vars, memory
  <1> QED
    BY <1>1, <1>2, <1>3, <1>4, <1>5, <1>6, <1>8, <1>9, <1>10 DEF Next, MemLoopStep

(* ConnInv holds in every reachable state of connectAMQP, the consumer     *)
(* loops, Publish and Close, for any number of consumers, connections and  *)
(* publishers.                                                             *)
THEOREM Invariance == Spec => []ConnInv
  <1>1. ConnInv /\ [Next]_vars => ConnInv'
    BY NextType, NextConnMu, NextNoneStray, NextMemPublished, ZenonT(30) DEF ConnInv
  <1> QED
    BY InitConnInv, <1>1, PTL DEF Spec

(* The types of QueueConnection, and that a task accepted into the         *)
(* in-process channel is waiting, running or handled and never two of      *)
(* these, whatever the capacities.                                         *)
THEOREM TypeCorrect == Spec => []TypeOK
  <1>1. ConnInv => TypeOK
    BY ZenonT(30) DEF ConnInv
  <1> QED
    BY Invariance, <1>1, PTL

(* No connection is leaked by connectAMQP and Close, however many          *)
(* consumers reconnect at once and however often connections are lost:     *)
(* outside connectAMQP only q.AMQPConn is not closed, and after Close      *)
(* there is none.                                                          *)
THEOREM NoLeak == Spec => []NoConnectionLeak
  <1>1. ConnInv => NoConnectionLeak
    BY CapacityAssumption, SMTT(30) DEF ConnInv, ConnMuHeld, NoneStray, Connecting, NoConnectionLeak
  <1> QED
    BY Invariance, <1>1, PTL
=============================================================================
