-------------------------- MODULE TaskQueueProofs ---------------------------
EXTENDS TaskQueueSteps

(***************************************************************************)
(* The retry budget: every step keeps FiniteWork and RunsPaid.  A run is   *)
(* counted by pairs <<message or goroutine, retry count>>; a step moves a  *)
(* column of such pairs from one set to another, spends one, drops some,   *)
(* or adds at most MaxRetry + 1 for each message that is returned.         *)
(***************************************************************************)

(* The runs with retry counts c and above of one message or goroutine. *)
Column(x, c) == {x} \X (c .. MaxRetry)

(* Column(x, c) has MaxRetry + 1 - c elements. *)
LEMMA ColumnCard ==
    ASSUME NEW x, NEW c \in 0 .. MaxRetry + 1
    PROVE  IsFiniteSet(Column(x, c)) /\ Cardinality(Column(x, c)) = MaxRetry + 1 - c
<1>1. IsFiniteSet({x}) /\ Cardinality({x}) = 1
    BY FS_Singleton, ZenonT(30)
<1>2. /\ IsFiniteSet(c .. MaxRetry)
      /\ Cardinality(c .. MaxRetry) = MaxRetry + 1 - c
    BY FS_Interval, SMTT(30) DEF MaxRetry
<1>3. /\ IsFiniteSet(Column(x, c))
      /\ Cardinality(Column(x, c)) = Cardinality({x}) * Cardinality(c .. MaxRetry)
    BY <1>1, <1>2, FS_Product, ZenonT(30) DEF Column
<1> QED
    BY <1>1, <1>2, <1>3, SMTT(30) DEF MaxRetry

(* Disjoint finite sets add up. *)
LEMMA DisjointCard ==
    ASSUME NEW S, NEW T, IsFiniteSet(S), IsFiniteSet(T), \A x \in S : x \notin T
    PROVE  /\ IsFiniteSet(S \cup T)
           /\ Cardinality(S \cup T) = Cardinality(S) + Cardinality(T)
           /\ Cardinality(S) \in Nat /\ Cardinality(T) \in Nat
<1>1. S \cap T = {}
    BY ZenonT(30)
<1>2. Cardinality(S \cap T) = 0
    BY <1>1, FS_EmptySet, ZenonT(30)
<1>3. IsFiniteSet(S \cup T) /\ Cardinality(S \cup T) = Cardinality(S) + Cardinality(T) - 0
    BY <1>2, FS_Union, ZenonT(30)
<1>4. Cardinality(S) \in Nat /\ Cardinality(T) \in Nat
    BY FS_CardinalityType, ZenonT(30)
<1> QED
    BY <1>3, <1>4, SMTT(30)

(* The runs still to come of a task are finitely many. *)
LEMMA RunsFinite ==
    ASSUME FiniteWork, NEW t \in Task
    PROVE  /\ IsFiniteSet(QueuedRuns(t)) /\ Cardinality(QueuedRuns(t)) \in Nat
           /\ IsFiniteSet(RetryRuns(t)) /\ Cardinality(RetryRuns(t)) \in Nat
<1>0. 0 \in Int /\ MaxRetry \in Int
    BY SMTT(30) DEF MaxRetry
<1>1. IsFiniteSet(0 .. MaxRetry)
    BY <1>0, FS_Interval, ZenonT(30)
<1>2. /\ IsFiniteSet(UsedMsg \X (0 .. MaxRetry))
      /\ IsFiniteSet(BusyHandler \X (0 .. MaxRetry))
    BY <1>1, FS_Product, ZenonT(30) DEF FiniteWork
<1>3. /\ QueuedRuns(t) \in SUBSET (UsedMsg \X (0 .. MaxRetry))
      /\ RetryRuns(t) \in SUBSET (BusyHandler \X (0 .. MaxRetry))
    BY ZenonT(30) DEF QueuedRuns, RetryRuns
<1> QED
    BY <1>2, <1>3, FS_Subset, FS_CardinalityType, ZenonT(30)

(* Membership in a column, pair by pair. *)
LEMMA InColumn ==
    ASSUME NEW x, NEW c \in Nat, NEW r
    PROVE  r \in Column(x, c) <=> \E k \in 0 .. MaxRetry : r = <<x, k>> /\ c <= k
BY SMTT(30) DEF Column, MaxRetry

(* Membership in the runs of queued messages and of pending retries. *)
LEMMA InRuns ==
    ASSUME NEW t, NEW r
    PROVE  /\ r \in QueuedRuns(t) <=>
                 \E m \in Msg \ BadMsg, k \in 0 .. MaxRetry :
                     r = <<m, k>> /\ mstate[m] = "ready" /\ mtask[m] = t /\ mrc[m] <= k
           /\ r \in RetryRuns(t) <=>
                 \E h \in Handler, k \in 0 .. MaxRetry :
                     /\ r = <<h, k>> /\ hpc[h] \in {"run", "retry"}
                     /\ mtask[hmsg[h]] = t /\ mrc[hmsg[h]] < k
<1>1. r \in QueuedRuns(t) <=>
          \E m \in Msg \ BadMsg, k \in 0 .. MaxRetry :
              r = <<m, k>> /\ mstate[m] = "ready" /\ mtask[m] = t /\ mrc[m] <= k
    BY SMTT(30) DEF QueuedRuns, UsedMsg
<1>2. r \in RetryRuns(t) <=>
          \E h \in Handler, k \in 0 .. MaxRetry :
              /\ r = <<h, k>> /\ hpc[h] \in {"run", "retry"}
              /\ mtask[hmsg[h]] = t /\ mrc[hmsg[h]] < k
    BY SMTT(30) DEF RetryRuns, BusyHandler
<1> QED
    BY <1>1, <1>2, ZenonT(30)

(* A set that grows by at most C, in numbers. *)
LEMMA GrowCard ==
    ASSUME NEW S, NEW T, NEW C, IsFiniteSet(S), IsFiniteSet(C), T \subseteq S \cup C
    PROVE  /\ Cardinality(T) <= Cardinality(S) + Cardinality(C)
           /\ Cardinality(T) \in Nat /\ Cardinality(S) \in Nat /\ Cardinality(C) \in Nat
<1>1. /\ IsFiniteSet(S \cup C)
      /\ Cardinality(S \cup C) = Cardinality(S) + Cardinality(C) - Cardinality(S \cap C)
    BY FS_Union, ZenonT(30)
<1>2. IsFiniteSet(S \cap C)
    BY FS_Intersection, ZenonT(30)
<1>3. IsFiniteSet(T) /\ Cardinality(T) <= Cardinality(S \cup C)
    BY <1>1, FS_Subset, ZenonT(30)
<1>4. /\ Cardinality(T) \in Nat /\ Cardinality(S) \in Nat /\ Cardinality(C) \in Nat
      /\ Cardinality(S \cap C) \in Nat
    BY <1>2, <1>3, FS_CardinalityType, ZenonT(30)
<1> QED
    BY <1>1, <1>3, <1>4, SMTT(30)

(* A set that loses all of C, in numbers. *)
LEMMA ShrinkCard ==
    ASSUME NEW S, NEW T, NEW C, IsFiniteSet(S), T \subseteq S, C \subseteq S,
           \A x \in T : x \notin C
    PROVE  /\ Cardinality(T) + Cardinality(C) <= Cardinality(S)
           /\ Cardinality(T) \in Nat /\ Cardinality(S) \in Nat /\ Cardinality(C) \in Nat
<1>1. IsFiniteSet(T) /\ IsFiniteSet(C)
    BY FS_Subset, ZenonT(30)
<1>2. /\ Cardinality(T \cup C) = Cardinality(T) + Cardinality(C)
      /\ Cardinality(T) \in Nat /\ Cardinality(C) \in Nat
    BY <1>1, DisjointCard, ZenonT(30)
<1>3. T \cup C \in SUBSET S
    BY ZenonT(30)
<1>4. Cardinality(T \cup C) <= Cardinality(S) /\ Cardinality(S) \in Nat
    BY <1>3, FS_Subset, FS_CardinalityType, ZenonT(30)
<1> QED
    BY <1>2, <1>4, ZenonT(30)
-----------------------------------------------------------------------------
(* The conjuncts of RunsPaid for one task. *)
Paid(t) ==
    /\ t \notin Accepted => attempts[t] = 0
    /\ attempts[t] + Cardinality(QueuedRuns(t)) + Cardinality(RetryRuns(t))
           <= (MaxRetry + 1) * (1 + requeues[t])

(* No message enters the queue: no run of a queued message is added. *)
LEMMA QueuedFrame ==
    ASSUME \A m \in Msg \ BadMsg : mstate'[m] = "ready" =>
               mstate[m] = "ready" /\ mtask'[m] = mtask[m] /\ mrc'[m] = mrc[m],
           NEW t
    PROVE  QueuedRuns(t)' \subseteq QueuedRuns(t)
<1> SUFFICES ASSUME NEW r \in QueuedRuns(t)' PROVE r \in QueuedRuns(t)
    BY ZenonT(30)
<1>1. PICK m \in Msg \ BadMsg, k \in 0 .. MaxRetry :
          r = <<m, k>> /\ mstate'[m] = "ready" /\ mtask'[m] = t /\ mrc'[m] <= k
    BY SMTT(30) DEF QueuedRuns, UsedMsg
<1> QED
    BY <1>1, InRuns, ZenonT(30)

(* No goroutine starts: no run of a pending retry is added. *)
LEMMA RetryFrame ==
    ASSUME \A h \in Handler : hpc'[h] \in {"run", "retry"} =>
               /\ hpc[h] \in {"run", "retry"}
               /\ mtask'[hmsg'[h]] = mtask[hmsg[h]] /\ mrc'[hmsg'[h]] = mrc[hmsg[h]],
           NEW t
    PROVE  RetryRuns(t)' \subseteq RetryRuns(t)
<1> SUFFICES ASSUME NEW r \in RetryRuns(t)' PROVE r \in RetryRuns(t)
    BY ZenonT(30)
<1>1. PICK h \in Handler, k \in 0 .. MaxRetry :
          /\ r = <<h, k>> /\ hpc'[h] \in {"run", "retry"}
          /\ mtask'[hmsg'[h]] = t /\ mrc'[hmsg'[h]] < k
    BY SMTT(30) DEF RetryRuns, BusyHandler
<1> QED
    BY <1>1, InRuns, ZenonT(30)

(* A step that adds no run keeps the account of the task. *)
LEMMA PaidFrame ==
    ASSUME TypeOK, FiniteWork, NEW t \in Task, Paid(t),
           QueuedRuns(t)' \subseteq QueuedRuns(t), RetryRuns(t)' \subseteq RetryRuns(t),
           attempts'[t] = attempts[t], requeues'[t] = requeues[t],
           t \in Accepted => t \in Accepted'
    PROVE  Paid(t)'
<1>1. /\ Cardinality(QueuedRuns(t)') <= Cardinality(QueuedRuns(t))
      /\ Cardinality(RetryRuns(t)') <= Cardinality(RetryRuns(t))
      /\ IsFiniteSet(QueuedRuns(t)') /\ IsFiniteSet(RetryRuns(t)')
    BY RunsFinite, FS_Subset, ZenonT(30)
<1>2. Cardinality(QueuedRuns(t)') \in Nat /\ Cardinality(RetryRuns(t)') \in Nat
    BY <1>1, FS_CardinalityType, ZenonT(30)
<1>3. Cardinality(QueuedRuns(t)) \in Nat /\ Cardinality(RetryRuns(t)) \in Nat
    BY RunsFinite, ZenonT(30)
<1>4. attempts[t] \in Nat /\ requeues[t] \in Nat
    BY ZenonT(30) DEF TypeOK
<1>5. attempts'[t] + Cardinality(QueuedRuns(t)') + Cardinality(RetryRuns(t)')
          <= (MaxRetry + 1) * (1 + requeues'[t])
    BY <1>1, <1>2, <1>3, <1>4, SMTT(30) DEF Paid, MaxRetry
<1> QED
    BY <1>5, ZenonT(30) DEF Paid

(* A task stays accepted while its messages keep their task and stay used. *)
LEMMA AcceptedKept ==
    ASSUME \A m \in Msg \ BadMsg : mstate[m] # "unused" =>
               mstate'[m] # "unused" /\ mtask'[m] = mtask[m],
           NEW t, t \in Accepted
    PROVE  t \in Accepted'
BY ZenonT(30) DEF Accepted

(* A new message adds its column to the runs of its task and changes no    *)
(* other message.                                                          *)
LEMMA EnqueueRuns ==
    ASSUME QueueInv, NEW m \in Msg, NEW u, NEW rc \in 0 .. MaxRetry, Enqueue(m, u, rc), NEW t
    PROVE  /\ QueuedRuns(t)' \subseteq QueuedRuns(t) \cup Column(m, rc)
           /\ t # u => QueuedRuns(t)' \subseteq QueuedRuns(t)
           /\ \A k \in Msg \ BadMsg : mstate[k] # "unused" =>
                  mstate'[k] = mstate[k] /\ mtask'[k] = mtask[k] /\ mrc'[k] = mrc[k]
<1>1. /\ mstate[m] = "unused" /\ mstate'[m] = "ready" /\ mtask'[m] = u /\ mrc'[m] = rc
      /\ \A k \in Msg : k # m =>
             mstate'[k] = mstate[k] /\ mtask'[k] = mtask[k] /\ mrc'[k] = mrc[k]
    BY ZenonT(30) DEF Enqueue, QueueInv, TypeOK
<1>2. ASSUME NEW r \in QueuedRuns(t)'
      PROVE  r \in QueuedRuns(t) \/ (r \in Column(m, rc) /\ t = u)
  <2>1. PICK k \in Msg \ BadMsg, i \in 0 .. MaxRetry :
            r = <<k, i>> /\ mstate'[k] = "ready" /\ mtask'[k] = t /\ mrc'[k] <= i
    BY SMTT(30) DEF QueuedRuns, UsedMsg
  <2>2. CASE k = m
    <3>1. rc \in Nat
      BY SMTT(30) DEF MaxRetry
    <3> QED
      BY <1>1, <2>1, <2>2, <3>1, InColumn, ZenonT(30)
  <2>3. CASE k # m
    BY <1>1, <2>1, <2>3, InRuns, ZenonT(30)
  <2> QED
    BY <2>2, <2>3, ZenonT(30)
<1> QED
    BY <1>1, <1>2, ZenonT(30)

(* PublishSyncTask: the new message has MaxRetry + 1 runs, all paid for. *)
LEMMA PublishPaid ==
    ASSUME QueueInv, NEW n \in Node, NEW u \in Task, NEW m \in Msg, Publish(n, u, m),
           NEW t \in Task
    PROVE  Paid(t)'
<1> USE ZenonT(30)
<1>1. /\ Enqueue(m, u, 0) /\ u \notin Accepted /\ UNCHANGED <<hpc, hmsg, attempts, requeues>>
    BY DEF Publish, handlers, history
<1>2. 0 \in 0 .. MaxRetry
    BY SMTT(30) DEF MaxRetry
<1>3. /\ QueuedRuns(t)' \subseteq QueuedRuns(t) \cup Column(m, 0)
      /\ t # u => QueuedRuns(t)' \subseteq QueuedRuns(t)
      /\ \A k \in Msg \ BadMsg : mstate[k] # "unused" =>
             mstate'[k] = mstate[k] /\ mtask'[k] = mtask[k] /\ mrc'[k] = mrc[k]
    BY <1>1, <1>2, EnqueueRuns
<1>4. t \in Accepted => t \in Accepted'
    BY <1>3, AcceptedKept
<1>5. RetryRuns(t)' \subseteq RetryRuns(t)
    BY <1>1, <1>3, RetryFrame DEF QueueInv, HandlersOK
<1>6. Paid(t) /\ TypeOK /\ FiniteWork
    BY DEF QueueInv, RunsPaid, Paid
<1>7. CASE t # u
    BY <1>1, <1>3, <1>4, <1>5, <1>6, <1>7, PaidFrame
<1>8. CASE t = u
  <2>1. QueuedRuns(t) = {}
    BY <1>1, <1>8, InRuns, SMTT(30) DEF Accepted
  <2>2. RetryRuns(t) = {}
    BY <1>1, <1>8, InRuns, ZenonT(30) DEF Accepted, QueueInv, HandlersOK
  <2>3. IsFiniteSet(Column(m, 0)) /\ Cardinality(Column(m, 0)) = MaxRetry + 1
    BY ColumnCard, SMTT(30) DEF MaxRetry
  <2>4. IsFiniteSet(QueuedRuns(t)') /\ Cardinality(QueuedRuns(t)') <= MaxRetry + 1
    BY <1>3, <2>1, <2>3, FS_Subset
  <2>5. Cardinality(QueuedRuns(t)') \in Nat
    BY <2>4, FS_CardinalityType
  <2>6. Cardinality(RetryRuns(t)') = 0
    BY <1>5, <2>2, FS_EmptySet
  <2>7. attempts'[t] = 0 /\ requeues'[t] \in Nat
    BY <1>1, <1>6, <1>8 DEF Paid, TypeOK
  <2>8. attempts'[t] + Cardinality(QueuedRuns(t)') + Cardinality(RetryRuns(t)')
            <= (MaxRetry + 1) * (1 + requeues'[t])
    BY <2>4, <2>5, <2>6, <2>7, SMTT(30) DEF MaxRetry
  <2> QED
    BY <2>7, <2>8 DEF Paid
<1> QED
    BY <1>7, <1>8

(* A delivery spends the run at the message's own retry count and hands    *)
(* the runs above it to the goroutine.                                     *)
LEMMA DeliverPaid ==
    ASSUME QueueInv, NEW n \in Node, NEW m \in Msg, NEW h \in Handler, Deliver(n, m, h),
           NEW t \in Task
    PROVE  Paid(t)'
<1> USE ZenonT(30)
<1>1. /\ mstate[m] = "ready" /\ m \notin BadMsg /\ mstate'[m] = "unacked"
      /\ \A k \in Msg : k # m => mstate'[k] = mstate[k]
      /\ UNCHANGED <<mtask, mrc, requeues>>
    BY DEF Deliver, QueueInv, TypeOK
<1>2. /\ hpc[h] = "idle" /\ hmsg'[h] = m
      /\ \A g \in Handler : g # h => hpc'[g] = hpc[g] /\ hmsg'[g] = hmsg[g]
    BY DEF Deliver, QueueInv, TypeOK
<1>3. mtask[m] \in Task /\ mrc[m] \in 0 .. MaxRetry
    BY <1>1 DEF QueueInv, MessagesOK, TypeOK
<1>4. /\ t = mtask[m] => attempts'[t] = attempts[t] + 1
      /\ t # mtask[m] => attempts'[t] = attempts[t]
    BY <1>3, ZenonT(30) DEF Deliver, QueueInv, TypeOK
<1>5. t \in Accepted => t \in Accepted'
    BY <1>1, AcceptedKept
<1>6. QueuedRuns(t)' \subseteq QueuedRuns(t)
    BY <1>1, QueuedFrame
<1>7. Paid(t) /\ TypeOK /\ FiniteWork
    BY DEF QueueInv, RunsPaid, Paid
<1>8. CASE t # mtask[m]
  <2>1. RetryRuns(t)' \subseteq RetryRuns(t)
    <3> SUFFICES ASSUME NEW r \in RetryRuns(t)' PROVE r \in RetryRuns(t)
      OBVIOUS
    <3>1. PICK g \in Handler, k \in 0 .. MaxRetry :
              /\ r = <<g, k>> /\ hpc'[g] \in {"run", "retry"}
              /\ mtask'[hmsg'[g]] = t /\ mrc'[hmsg'[g]] < k
      BY SMTT(30) DEF RetryRuns, BusyHandler
    <3> QED
      BY <1>1, <1>2, <1>8, <3>1, InRuns
  <2> QED
    BY <1>1, <1>4, <1>5, <1>6, <1>7, <1>8, <2>1, PaidFrame
<1>9. CASE t = mtask[m]
  <2> DEFINE c == mrc[m]
             C == Column(m, c)
             D == Column(h, c + 1)
  <2>1. c \in Nat /\ c \in 0 .. MaxRetry + 1 /\ c + 1 \in Nat /\ c + 1 \in 0 .. MaxRetry + 1
    BY <1>3, SMTT(30) DEF MaxRetry
  <2>2. C \subseteq QueuedRuns(t)
    <3> SUFFICES ASSUME NEW r \in C PROVE r \in QueuedRuns(t)
      OBVIOUS
    <3>1. PICK j \in 0 .. MaxRetry : r = <<m, j>> /\ c <= j
      BY <2>1, InColumn
    <3> QED
      BY <1>1, <1>9, <3>1, InRuns
  <2>3. \A r \in QueuedRuns(t)' : r \notin C
    <3> SUFFICES ASSUME NEW r \in QueuedRuns(t)', r \in C PROVE FALSE
      OBVIOUS
    <3>1. PICK j \in 0 .. MaxRetry : r = <<m, j>>
      BY <2>1, InColumn
    <3>2. PICK k \in Msg \ BadMsg, i \in 0 .. MaxRetry : r = <<k, i>> /\ mstate'[k] = "ready"
      BY SMTT(30) DEF QueuedRuns, UsedMsg
    <3> QED
      BY <1>1, <3>1, <3>2, SMTT(30)
  <2>4. RetryRuns(t)' \subseteq RetryRuns(t) \cup D
    <3> SUFFICES ASSUME NEW r \in RetryRuns(t)' PROVE r \in RetryRuns(t) \/ r \in D
      OBVIOUS
    <3>1. PICK g \in Handler, k \in 0 .. MaxRetry :
              /\ r = <<g, k>> /\ hpc'[g] \in {"run", "retry"}
              /\ mtask'[hmsg'[g]] = t /\ mrc'[hmsg'[g]] < k
      BY SMTT(30) DEF RetryRuns, BusyHandler
    <3>2. CASE g = h
      <4>1. c + 1 <= k
        BY <1>1, <1>2, <2>1, <3>1, <3>2, SMTT(30)
      <4> QED
        BY <2>1, <3>1, <3>2, <4>1, InColumn
    <3>3. CASE g # h
      BY <1>1, <1>2, <3>1, <3>3, InRuns
    <3> QED
      BY <3>2, <3>3
  <2>5. /\ IsFiniteSet(C) /\ Cardinality(C) = MaxRetry + 1 - c
        /\ IsFiniteSet(D) /\ Cardinality(D) = MaxRetry + 1 - (c + 1)
    BY <2>1, ColumnCard
  <2> HIDE DEF C, D
  <2>6. IsFiniteSet(QueuedRuns(t)) /\ IsFiniteSet(RetryRuns(t))
    BY <1>7, RunsFinite
  <2>7. /\ Cardinality(QueuedRuns(t)') + Cardinality(C) <= Cardinality(QueuedRuns(t))
        /\ Cardinality(QueuedRuns(t)') \in Nat /\ Cardinality(QueuedRuns(t)) \in Nat
    BY <1>6, <2>2, <2>3, <2>6, ShrinkCard
  <2>8. /\ Cardinality(RetryRuns(t)') <= Cardinality(RetryRuns(t)) + Cardinality(D)
        /\ Cardinality(RetryRuns(t)') \in Nat /\ Cardinality(RetryRuns(t)) \in Nat
    BY <2>4, <2>5, <2>6, GrowCard
  <2>9. attempts[t] \in Nat /\ requeues[t] \in Nat /\ requeues'[t] = requeues[t]
    BY <1>1, <1>7 DEF TypeOK
  <2>10. attempts'[t] + Cardinality(QueuedRuns(t)') + Cardinality(RetryRuns(t)')
             <= (MaxRetry + 1) * (1 + requeues'[t])
    BY <1>4, <1>7, <1>9, <2>1, <2>5, <2>7, <2>8, <2>9, SMTT(30) DEF Paid, MaxRetry
  <2>11. t \in Accepted
    BY <1>1, <1>9 DEF Accepted
  <2> QED
    BY <1>5, <2>10, <2>11 DEF Paid
<1> QED
    BY <1>8, <1>9

(* Publishing a retry moves the runs above the goroutine's retry count     *)
(* from the goroutine to the new message.                                  *)
LEMMA RepublishPaid ==
    ASSUME QueueInv, NEW h \in Handler, NEW m \in Msg, Republish(h, m), NEW t \in Task
    PROVE  Paid(t)'
<1> USE ZenonT(30)
<1> DEFINE u == mtask[hmsg[h]]
           c == mrc[hmsg[h]] + 1
           C == Column(m, c)
           D == Column(h, c)
<1>1. /\ hpc[h] = "retry" /\ hpc'[h] = "ack" /\ Enqueue(m, u, c)
      /\ \A g \in Handler : g # h => hpc'[g] = hpc[g]
      /\ UNCHANGED <<hmsg, attempts, requeues>>
    BY DEF Republish, Goto, history, QueueInv, TypeOK
<1>2. hmsg[h] \in Msg \ BadMsg /\ mstate[hmsg[h]] # "unused" /\ mrc[hmsg[h]] < MaxRetry
    BY <1>1 DEF QueueInv, HandlersOK
<1>3. c \in 0 .. MaxRetry /\ c \in Nat /\ c \in 0 .. MaxRetry + 1 /\ mrc[hmsg[h]] \in Nat
  <2>1. mrc[hmsg[h]] \in 0 .. MaxRetry
    BY <1>2 DEF QueueInv, TypeOK
  <2> QED
    BY <1>2, <2>1, SMTT(30) DEF MaxRetry
<1>4. /\ QueuedRuns(t)' \subseteq QueuedRuns(t) \cup C
      /\ t # u => QueuedRuns(t)' \subseteq QueuedRuns(t)
      /\ \A k \in Msg \ BadMsg : mstate[k] # "unused" =>
             mstate'[k] = mstate[k] /\ mtask'[k] = mtask[k] /\ mrc'[k] = mrc[k]
    BY <1>1, <1>3, EnqueueRuns
<1>5. t \in Accepted => t \in Accepted'
    BY <1>4, AcceptedKept
<1>6. RetryRuns(t)' \subseteq RetryRuns(t)
  <2>1. \A g \in Handler : hpc'[g] \in {"run", "retry"} =>
            g # h /\ hpc[g] \in {"run", "retry"}
    BY <1>1
  <2>2. \A g \in Handler : hpc[g] \in {"run", "retry"} =>
            mtask'[hmsg'[g]] = mtask[hmsg[g]] /\ mrc'[hmsg'[g]] = mrc[hmsg[g]]
    BY <1>1, <1>4 DEF QueueInv, HandlersOK
  <2> QED
    BY <2>1, <2>2, RetryFrame
<1>7. Paid(t) /\ TypeOK /\ FiniteWork
    BY DEF QueueInv, RunsPaid, Paid
<1>8. attempts'[t] = attempts[t] /\ requeues'[t] = requeues[t]
    BY <1>1
<1>9. CASE t # u
    BY <1>4, <1>5, <1>6, <1>7, <1>8, <1>9, PaidFrame
<1>10. CASE t = u
  <2>1. D \subseteq RetryRuns(t)
    <3> SUFFICES ASSUME NEW r \in D PROVE r \in RetryRuns(t)
      OBVIOUS
    <3>1. PICK j \in 0 .. MaxRetry : r = <<h, j>> /\ c <= j
      BY <1>3, InColumn
    <3>2. mrc[hmsg[h]] < j
      BY <1>3, <3>1, SMTT(30)
    <3> QED
      BY <1>1, <1>10, <3>1, <3>2, InRuns
  <2>2. \A r \in RetryRuns(t)' : r \notin D
    <3> SUFFICES ASSUME NEW r \in RetryRuns(t)', r \in D PROVE FALSE
      OBVIOUS
    <3>1. PICK j \in 0 .. MaxRetry : r = <<h, j>>
      BY <1>3, InColumn
    <3>2. PICK g \in Handler, i \in 0 .. MaxRetry : r = <<g, i>> /\ hpc'[g] \in {"run", "retry"}
      BY SMTT(30) DEF RetryRuns, BusyHandler
    <3> QED
      BY <1>1, <3>1, <3>2, SMTT(30)
  <2>3. /\ IsFiniteSet(C) /\ Cardinality(C) = MaxRetry + 1 - c
        /\ IsFiniteSet(D) /\ Cardinality(D) = MaxRetry + 1 - c
    BY <1>3, ColumnCard
  <2> HIDE DEF C, D, c
  <2>4. IsFiniteSet(QueuedRuns(t)) /\ IsFiniteSet(RetryRuns(t))
    BY <1>7, RunsFinite
  <2>5. /\ Cardinality(QueuedRuns(t)') <= Cardinality(QueuedRuns(t)) + Cardinality(C)
        /\ Cardinality(QueuedRuns(t)') \in Nat /\ Cardinality(QueuedRuns(t)) \in Nat
    BY <1>4, <2>3, <2>4, GrowCard
  <2>6. /\ Cardinality(RetryRuns(t)') + Cardinality(D) <= Cardinality(RetryRuns(t))
        /\ Cardinality(RetryRuns(t)') \in Nat /\ Cardinality(RetryRuns(t)) \in Nat
    BY <1>6, <2>1, <2>2, <2>4, ShrinkCard
  <2>7. attempts[t] \in Nat /\ requeues[t] \in Nat
    BY <1>7 DEF TypeOK
  <2>8. attempts'[t] + Cardinality(QueuedRuns(t)') + Cardinality(RetryRuns(t)')
            <= (MaxRetry + 1) * (1 + requeues'[t])
    BY <1>3, <1>7, <1>8, <2>3, <2>5, <2>6, <2>7, SMTT(30) DEF Paid, MaxRetry
  <2> QED
    BY <1>5, <1>7, <1>8, <2>8 DEF Paid
<1> QED
    BY <1>9, <1>10

(* Messages that go back to the queue: each pays for its MaxRetry + 1 runs. *)
LEMMA ReturnedPaid ==
    ASSUME QueueInv, NEW t \in Task, NEW H \in SUBSET UsedMsg,
           QueuedRuns(t)' \subseteq QueuedRuns(t) \cup (H \X (0 .. MaxRetry)),
           RetryRuns(t)' \subseteq RetryRuns(t),
           attempts'[t] = attempts[t], requeues'[t] = requeues[t] + Cardinality(H),
           t \in Accepted => t \in Accepted'
    PROVE  Paid(t)'
<1> USE ZenonT(30)
<1> DEFINE C == H \X (0 .. MaxRetry)
<1>1. Paid(t) /\ TypeOK /\ FiniteWork
    BY DEF QueueInv, RunsPaid, Paid
<1>2. IsFiniteSet(H) /\ Cardinality(H) \in Nat
    BY <1>1, FS_Subset, FS_CardinalityType DEF FiniteWork
<1>3. IsFiniteSet(0 .. MaxRetry) /\ Cardinality(0 .. MaxRetry) = 3
  <2>1. 0 \in Int /\ MaxRetry \in Int
    BY SMTT(30) DEF MaxRetry
  <2>2. /\ IsFiniteSet(0 .. MaxRetry)
        /\ Cardinality(0 .. MaxRetry) = IF 0 > MaxRetry THEN 0 ELSE MaxRetry - 0 + 1
    BY <2>1, FS_Interval
  <2> QED
    BY <2>2, SMTT(30) DEF MaxRetry
<1>4. IsFiniteSet(C) /\ Cardinality(C) = Cardinality(H) * Cardinality(0 .. MaxRetry)
    BY <1>2, <1>3, FS_Product
<1> HIDE DEF C
<1>5. IsFiniteSet(QueuedRuns(t)) /\ IsFiniteSet(RetryRuns(t))
    BY <1>1, RunsFinite
<1>6. QueuedRuns(t)' \subseteq QueuedRuns(t) \cup C
    BY DEF C
<1>7. /\ Cardinality(QueuedRuns(t)') <= Cardinality(QueuedRuns(t)) + Cardinality(C)
      /\ Cardinality(QueuedRuns(t)') \in Nat /\ Cardinality(QueuedRuns(t)) \in Nat
    BY <1>4, <1>5, <1>6, GrowCard
<1>8. Cardinality(RetryRuns(t)') <= Cardinality(RetryRuns(t)) /\ IsFiniteSet(RetryRuns(t)')
    BY <1>5, FS_Subset
<1>9. Cardinality(RetryRuns(t)') \in Nat /\ Cardinality(RetryRuns(t)) \in Nat
    BY <1>5, <1>8, FS_CardinalityType
<1>10. attempts[t] \in Nat /\ requeues[t] \in Nat
    BY <1>1 DEF TypeOK
<1>11. Cardinality(C) = 3 * Cardinality(H)
    BY <1>2, <1>3, <1>4, SMTT(30)
<1>12. attempts'[t] + Cardinality(QueuedRuns(t)') + Cardinality(RetryRuns(t)')
           <= (MaxRetry + 1) * (1 + requeues'[t])
    BY <1>1, <1>2, <1>7, <1>8, <1>9, <1>10, <1>11, SMTT(30) DEF Paid, MaxRetry
<1> QED
    BY <1>1, <1>12 DEF Paid

(* The channel of a process is gone: what it held of the task is returned. *)
LEMMA ChannelGonePaid ==
    ASSUME QueueInv, NEW n \in Node, ChannelGone(n), NEW t \in Task
    PROVE  Paid(t)'
<1> USE ZenonT(30)
<1>1. /\ ReturnHeld(n) /\ mtask' = mtask /\ mrc' = mrc
      /\ \A h \in Handler : hpc'[h] # "idle" => hpc'[h] = hpc[h] /\ hmsg'[h] = hmsg[h]
    BY ChannelGoneFrame DEF QueueInv
<1>2. attempts' = attempts
    BY DEF ChannelGone, LoseConnection, CloseConsumerChannel, StopConsumer, Close, Crash, Vanish
<1>3. requeues'[t] = requeues[t] + Cardinality(HeldOf(n, t))
    BY <1>1 DEF ReturnHeld
<1>4. HeldOf(n, t) \in SUBSET UsedMsg
    BY DEF HeldOf, Held, LiveBusy, Busy, QueueInv, HandlersOK, UsedMsg
<1>5. \A m \in Msg : mstate'[m] = IF m \in Held(n) THEN "ready" ELSE mstate[m]
    BY <1>1 DEF ReturnHeld
<1>6. t \in Accepted => t \in Accepted'
    BY <1>1, <1>5, AcceptedKept
<1>7. RetryRuns(t)' \subseteq RetryRuns(t)
  <2>1. \A h \in Handler : hpc'[h] \in {"run", "retry"} =>
            hpc[h] \in {"run", "retry"} /\ hmsg'[h] = hmsg[h]
    BY <1>1
  <2> QED
    BY <1>1, <2>1, RetryFrame
<1>8. QueuedRuns(t)' \subseteq QueuedRuns(t) \cup (HeldOf(n, t) \X (0 .. MaxRetry))
  <2> SUFFICES ASSUME NEW r \in QueuedRuns(t)'
               PROVE  r \in QueuedRuns(t) \/ r \in HeldOf(n, t) \X (0 .. MaxRetry)
    OBVIOUS
  <2>1. PICK m \in Msg \ BadMsg, k \in 0 .. MaxRetry :
            r = <<m, k>> /\ mstate'[m] = "ready" /\ mtask'[m] = t /\ mrc'[m] <= k
    BY SMTT(30) DEF QueuedRuns, UsedMsg
  <2>2. CASE m \in Held(n)
    <3>1. m \in HeldOf(n, t)
      BY <1>1, <2>1, <2>2 DEF HeldOf
    <3> QED
      BY <2>1, <3>1, ZenonT(30)
  <2>3. CASE m \notin Held(n)
    <3>1. mstate'[m] = mstate[m]
      BY <1>5, <2>3, ZenonT(30)
    <3> QED
      BY <1>1, <2>1, <3>1, InRuns
  <2> QED
    BY <2>2, <2>3
<1> QED
    BY <1>2, <1>3, <1>4, <1>6, <1>7, <1>8, ReturnedPaid

(* A nack on a live channel returns one message. *)
LEMMA NackPaid ==
    ASSUME QueueInv, NEW h \in Handler, Nack(h), NEW t \in Task
    PROVE  Paid(t)'
<1> USE ZenonT(30)
<1> DEFINE m == hmsg[h]
<1>1. /\ hpc[h] = "nack" /\ hpc'[h] = "idle" /\ UNCHANGED <<mtask, mrc, attempts>>
      /\ \A g \in Handler : g # h => hpc'[g] = hpc[g] /\ hmsg'[g] = hmsg[g]
    BY DEF Nack, Finish, QueueInv, TypeOK
<1>2. m \in Msg \ BadMsg /\ mstate[m] # "unused" /\ mtask[m] \in Task
    BY <1>1 DEF QueueInv, HandlersOK, MessagesOK
<1>3. /\ \A k \in Msg : k # m => mstate'[k] = mstate[k]
      /\ mstate'[m] \in {mstate[m], "ready"}
    BY <1>2, SMTT(30) DEF Nack, QueueInv, TypeOK
<1>4. t \in Accepted => t \in Accepted'
    BY <1>1, <1>2, <1>3, AcceptedKept
<1>5. RetryRuns(t)' \subseteq RetryRuns(t)
  <2>1. \A g \in Handler : hpc'[g] \in {"run", "retry"} =>
            hpc[g] \in {"run", "retry"} /\ hmsg'[g] = hmsg[g]
    BY <1>1
  <2> QED
    BY <1>1, <2>1, RetryFrame
<1>6. ASSUME NEW r \in QueuedRuns(t)'
      PROVE  r \in QueuedRuns(t) \/ (hlive[h] /\ mtask[m] = t /\ r \in {m} \X (0 .. MaxRetry))
  <2>1. PICK k \in Msg \ BadMsg, i \in 0 .. MaxRetry :
            r = <<k, i>> /\ mstate'[k] = "ready" /\ mtask'[k] = t /\ mrc'[k] <= i
    BY SMTT(30) DEF QueuedRuns, UsedMsg
  <2>2. CASE k = m /\ hlive[h]
    BY <1>1, <2>1, <2>2, ZenonT(30)
  <2>3. CASE k # m \/ ~hlive[h]
    <3>1. mstate'[k] = mstate[k]
      BY <1>3, <2>1, <2>3 DEF Nack
    <3> QED
      BY <1>1, <2>1, <3>1, InRuns
  <2> QED
    BY <2>2, <2>3
<1>7. Paid(t) /\ TypeOK /\ FiniteWork
    BY DEF QueueInv, RunsPaid, Paid
<1>8. CASE hlive[h] /\ mtask[m] = t
  <2>1. requeues'[t] = requeues[t] + 1
    BY <1>8, SMTT(30) DEF Nack, QueueInv, TypeOK
  <2>2. {m} \in SUBSET UsedMsg /\ Cardinality({m}) = 1
    BY <1>2, FS_Singleton DEF UsedMsg
  <2>3. requeues'[t] = requeues[t] + Cardinality({m})
    BY <2>1, <2>2
  <2>4. QueuedRuns(t)' \subseteq QueuedRuns(t) \cup ({m} \X (0 .. MaxRetry))
    BY <1>6
  <2> QED
    BY <1>1, <1>4, <1>5, <2>2, <2>3, <2>4, ReturnedPaid
<1>9. CASE ~(hlive[h] /\ mtask[m] = t)
  <2>1. requeues'[t] = requeues[t]
    BY <1>2, <1>9, ZenonT(30) DEF Nack, QueueInv, TypeOK
  <2> QED
    BY <1>1, <1>4, <1>5, <1>6, <1>7, <1>9, <2>1, PaidFrame
<1> QED
    BY <1>8, <1>9

(* The other steps of a goroutine, and the rejection of a bad message, add *)
(* no run.                                                                 *)
LEMMA OtherPaid ==
    ASSUME QueueInv, NEW t \in Task,
           \/ \E h \in Handler : \/ HandleOk(h) \/ HandleFail(h) \/ RepublishIntoVoid(h)
                                 \/ RepublishRefused(h) \/ Ack(h)
           \/ \E n \in Node, m \in Msg : RejectInvalid(n, m)
           \/ UNCHANGED <<taskState, mrc, attempts, requeues>>
    PROVE  Paid(t)'
<1> USE ZenonT(30)
<1>0. Paid(t) /\ TypeOK /\ FiniteWork
    BY DEF QueueInv, RunsPaid, Paid
<1>1. SUFFICES /\ UNCHANGED <<mtask, mrc, attempts, requeues>>
               /\ \A m \in Msg \ BadMsg : /\ mstate'[m] = "ready" => mstate[m] = "ready"
                                          /\ mstate[m] # "unused" => mstate'[m] # "unused"
               /\ \A h \in Handler : hpc'[h] \in {"run", "retry"} =>
                      hpc[h] \in {"run", "retry"} /\ hmsg'[h] = hmsg[h]
  <2>1. QueuedRuns(t)' \subseteq QueuedRuns(t)
    BY <1>1, QueuedFrame
  <2>2. RetryRuns(t)' \subseteq RetryRuns(t)
    BY <1>1, RetryFrame
  <2>3. t \in Accepted => t \in Accepted'
    BY <1>1, AcceptedKept
  <2> QED
    BY <1>0, <1>1, <2>1, <2>2, <2>3, PaidFrame
<1>2. ASSUME NEW h \in Handler,
             HandleOk(h) \/ HandleFail(h) \/ RepublishIntoVoid(h) \/ RepublishRefused(h)
      PROVE  /\ UNCHANGED <<mstate, mtask, mrc, attempts, requeues, hmsg>>
             /\ \A g \in Handler : hpc'[g] \in {"run", "retry"} => hpc[g] \in {"run", "retry"}
    BY <1>2, ZenonT(30) DEF HandleOk, HandleFail, RepublishIntoVoid, RepublishRefused, Goto,
                          broker, history, QueueInv, TypeOK
<1>3. ASSUME NEW h \in Handler, Ack(h)
      PROVE  /\ UNCHANGED <<mtask, mrc, attempts, requeues>>
             /\ \A m \in Msg : mstate'[m] \in {mstate[m], "acked"}
             /\ \A g \in Handler : hpc'[g] \in {"run", "retry"} =>
                    hpc[g] \in {"run", "retry"} /\ hmsg'[g] = hmsg[g]
    BY <1>3, ZenonT(30) DEF Ack, Finish, history, QueueInv, TypeOK
<1>4. ASSUME NEW n \in Node, NEW m \in Msg, RejectInvalid(n, m)
      PROVE  /\ UNCHANGED <<mtask, mrc, attempts, requeues, hpc, hmsg>>
             /\ \A k \in Msg \ BadMsg : mstate'[k] = mstate[k]
    BY <1>4 DEF RejectInvalid, handlers, history, QueueInv, TypeOK
<1>5. CASE UNCHANGED <<taskState, mrc, attempts, requeues>>
    BY <1>5 DEF taskState
<1> QED
    BY <1>2, <1>3, <1>4, <1>5, ZenonT(30)

(* The steps of a process that concern its loops leave the account alone. *)
LEMMA LoopBudgetFrame ==
    ASSUME NEW n \in Node,
           BeginPass(n) \/ Reconnect(n) \/ OpenFails(n) \/ StartConsumer(n) \/ NoticeLoss(n)
             \/ NoticePubClose(n) \/ Drain(n) \/ New(n) \/ ClosePubChannel(n) \/ Shutdown(n)
    PROVE  UNCHANGED <<taskState, mrc, attempts, requeues>>
<1>1. UNCHANGED <<mrc, attempts, requeues>>
  <2> USE ZenonT(30) DEF broker, history
  <2>1. CASE BeginPass(n) \/ Reconnect(n) \/ OpenFails(n) \/ StartConsumer(n) \/ NoticeLoss(n)
    BY <2>1 DEF BeginPass, Reconnect, OpenFails, StartConsumer, NoticeLoss
  <2>2. CASE NoticePubClose(n) \/ Drain(n) \/ New(n) \/ ClosePubChannel(n) \/ Shutdown(n)
    BY <2>2 DEF NoticePubClose, Drain, New, ClosePubChannel, Shutdown
  <2> QED
    BY <2>1, <2>2
<1> QED
    BY <1>1, LoopFrame, ZenonT(30)

(* Every step keeps RunsPaid. *)
LEMMA NextPaid == ASSUME QueueInv, [Next]_vars PROVE RunsPaid'
<1> USE ZenonT(30)
<1> SUFFICES ASSUME NEW t \in Task PROVE Paid(t)'
    BY DEF RunsPaid, Paid
<1>1. ASSUME NEW n \in Node, NEW u \in Task, NEW m \in Msg, Publish(n, u, m) PROVE Paid(t)'
    BY <1>1, PublishPaid
<1>2. ASSUME NEW n \in Node, NEW m \in Msg, NEW h \in Handler, Deliver(n, m, h) PROVE Paid(t)'
    BY <1>2, DeliverPaid
<1>3. ASSUME NEW n \in Node, NEW m \in Msg, RejectInvalid(n, m) PROVE Paid(t)'
    BY <1>3, OtherPaid
<1>4. ASSUME NEW h \in Handler, GoroutineStep(h) PROVE Paid(t)'
  <2>1. CASE HandleOk(h) \/ HandleFail(h) \/ RepublishIntoVoid(h) \/ RepublishRefused(h) \/ Ack(h)
    BY <2>1, OtherPaid
  <2>2. ASSUME NEW m \in Msg, Republish(h, m) PROVE Paid(t)'
    BY <2>2, RepublishPaid
  <2>3. CASE Nack(h)
    BY <2>3, NackPaid
  <2> QED
    BY <1>4, <2>1, <2>2, <2>3 DEF GoroutineStep
<1>5. ASSUME NEW n \in Node,
             BeginPass(n) \/ Reconnect(n) \/ OpenFails(n) \/ StartConsumer(n) \/ NoticeLoss(n)
               \/ NoticePubClose(n) \/ Drain(n) \/ New(n) \/ ClosePubChannel(n) \/ Shutdown(n)
      PROVE  Paid(t)'
    BY <1>5, LoopBudgetFrame, OtherPaid
<1>6. ASSUME NEW n \in Node, ChannelGone(n) PROVE Paid(t)'
    BY <1>6, ChannelGonePaid
<1>7. CASE UNCHANGED vars
    BY <1>7, OtherPaid DEF vars, broker, handlers, history, taskState
<1> QED
    BY <1>1, <1>2, <1>3, <1>4, <1>5, <1>6, <1>7 DEF Next, ChannelGone
-----------------------------------------------------------------------------
(* One message and one goroutine more leave finitely many. *)
LEMMA FiniteFrame ==
    ASSUME FiniteWork, NEW x, NEW y,
           UsedMsg' \subseteq UsedMsg \cup {x}, BusyHandler' \subseteq BusyHandler \cup {y}
    PROVE  FiniteWork'
<1>1. IsFiniteSet(UsedMsg \cup {x}) /\ IsFiniteSet(BusyHandler \cup {y})
    BY FS_AddElement, ZenonT(30) DEF FiniteWork
<1>2. IsFiniteSet(UsedMsg') /\ IsFiniteSet(BusyHandler')
    BY <1>1, FS_Subset, ZenonT(30)
<1> QED
    BY <1>2, ZenonT(30) DEF FiniteWork

(* Every step keeps FiniteWork. *)
LEMMA NextFinite == ASSUME QueueInv, [Next]_vars PROVE FiniteWork'
<1> USE ZenonT(30)
<1>0. FiniteWork /\ TypeOK
    BY DEF QueueInv
<1>1. SUFFICES \E x, y : /\ \A m \in Msg : m = x \/ mstate[m] # "unused" \/ mstate'[m] = "unused"
                         /\ \A h \in Handler : h = y \/ hpc[h] # "idle" \/ hpc'[h] = "idle"
  <2>1. PICK x, y : /\ \A m \in Msg : m = x \/ mstate[m] # "unused" \/ mstate'[m] = "unused"
                    /\ \A h \in Handler : h = y \/ hpc[h] # "idle" \/ hpc'[h] = "idle"
    BY <1>1
  <2>2. UsedMsg' \subseteq UsedMsg \cup {x} /\ BusyHandler' \subseteq BusyHandler \cup {y}
    BY <2>1 DEF UsedMsg, BusyHandler
  <2> QED
    BY <1>0, <2>2, FiniteFrame
<1> DEFINE Msgs(x) == \A m \in Msg : m = x \/ mstate[m] # "unused" \/ mstate'[m] = "unused"
           Goroutines(y) == \A h \in Handler : h = y \/ hpc[h] # "idle" \/ hpc'[h] = "idle"
<1>2. ASSUME NEW n \in Node, NEW u \in Task, NEW m \in Msg, Publish(n, u, m)
      PROVE  Msgs(m) /\ Goroutines(None)
    BY <1>0, <1>2 DEF Publish, Enqueue, handlers, TypeOK
<1>3. ASSUME NEW n \in Node, NEW m \in Msg, NEW h \in Handler, Deliver(n, m, h)
      PROVE  Msgs(m) /\ Goroutines(h)
    BY <1>0, <1>3 DEF Deliver, TypeOK
<1>4. ASSUME NEW n \in Node, NEW m \in Msg, RejectInvalid(n, m)
      PROVE  Msgs(m) /\ Goroutines(None)
    BY <1>0, <1>4 DEF RejectInvalid, handlers, TypeOK
<1>5. ASSUME NEW h \in Handler, GoroutineStep(h)
      PROVE  \E x : Msgs(x) /\ Goroutines(h)
  <2>1. CASE HandleOk(h) \/ HandleFail(h) \/ RepublishIntoVoid(h) \/ RepublishRefused(h)
    <3>1. UNCHANGED mstate /\ \A g \in Handler : g # h => hpc'[g] = hpc[g]
      BY <1>0, <2>1 DEF HandleOk, HandleFail, RepublishIntoVoid, RepublishRefused, Goto,
                        broker, TypeOK
    <3> QED
      BY <3>1
  <2>2. ASSUME NEW m \in Msg, Republish(h, m) PROVE Msgs(m) /\ Goroutines(h)
    BY <1>0, <2>2 DEF Republish, Enqueue, Goto, TypeOK
  <2>3. CASE Ack(h) \/ Nack(h)
    <3>1. hmsg[h] \in Msg /\ mstate[hmsg[h]] # "unused"
      BY <2>3 DEF Ack, Nack, QueueInv, HandlersOK
    <3>2. Msgs(hmsg[h]) /\ Goroutines(h)
      BY <1>0, <2>3, <3>1, SMTT(30) DEF Ack, Nack, Finish, TypeOK
    <3> QED
      BY <3>2
  <2> QED
    BY <1>5, <2>1, <2>2, <2>3 DEF GoroutineStep
<1>6. ASSUME NEW n \in Node,
             BeginPass(n) \/ Reconnect(n) \/ OpenFails(n) \/ StartConsumer(n) \/ NoticeLoss(n)
               \/ NoticePubClose(n) \/ Drain(n) \/ New(n) \/ ClosePubChannel(n) \/ Shutdown(n)
      PROVE  Msgs(None) /\ Goroutines(None)
  <2>1. UNCHANGED <<mstate, hpc>>
    BY <1>6, LoopFrame DEF taskState
  <2> QED
    BY <2>1
<1>7. ASSUME NEW n \in Node, ChannelGone(n) PROVE Msgs(None) /\ Goroutines(None)
  <2>1. \A m \in Msg : mstate'[m] = "unused" <=> mstate[m] = "unused"
    BY <1>7, ChannelGoneFacts
  <2>2. \A h \in Handler : hpc'[h] # "idle" => hpc'[h] = hpc[h]
    BY <1>0, <1>7, ChannelGoneFrame
  <2> QED
    BY <2>1, <2>2
<1>8. ASSUME UNCHANGED vars PROVE Msgs(None) /\ Goroutines(None)
    BY <1>8 DEF vars, broker, handlers
<1> HIDE DEF Msgs, Goroutines
<1>9. \E x, y : Msgs(x) /\ Goroutines(y)
    BY <1>2, <1>3, <1>4, <1>5, <1>6, <1>7, <1>8 DEF Next, ChannelGone
<1> QED
    BY <1>9 DEF Msgs, Goroutines

(* Every behaviour of the queue satisfies the inductive invariant. *)
THEOREM Invariance == Spec => []QueueInv
<1>1. QueueInv /\ [Next]_vars => QueueInv'
    BY NextType, NextMessages, NextHandlers, NextOwned, NextDown, NextPending, NextFinite, NextPaid,
       ZenonT(30)
    DEF QueueInv
<1> QED
    BY InitQueueInv, <1>1, PTL DEF Spec

(* Every variable keeps its type and no message has a retry count above 2. *)
THEOREM TypeCorrect == Spec => []TypeOK
<1>1. QueueInv => TypeOK
    BY DEF QueueInv
<1> QED
    BY Invariance, <1>1, PTL

(***************************************************************************)
(* For every number of processes, tasks, messages, goroutines and faults:  *)
(* a task the broker accepted is resolved, or the broker still holds a     *)
(* message of it, or a retry of it went to a publishing channel that the   *)
(* broker alone had closed.                                                *)
(***************************************************************************)
THEOREM NoLoss == Spec => []NoTaskLost
<1>1. QueueInv => NoTaskLost
    BY DEF QueueInv, PendingOrSettled, NoTaskLost, Queued, Pending
<1> QED
    BY Invariance, <1>1, PTL

(* A message is unacked exactly while one goroutine can answer for it. *)
THEOREM LiveOwner == Spec => []OneLiveOwner
<1>1. ASSUME QueueInv PROVE OneLiveOwner
  <2> SUFFICES ASSUME NEW m \in Msg
               PROVE  IF mstate[m] = "unacked" THEN \E h \in Handler : Owners(m) = {h}
                      ELSE Owners(m) = {}
    BY DEF OneLiveOwner
  <2>1. CASE mstate[m] = "unacked"
    <3>1. PICK h \in Owners(m) : TRUE
      BY <1>1, <2>1 DEF QueueInv, UnackedOwned
    <3>2. Owners(m) = {h} /\ h \in Handler
      BY <1>1, <3>1 DEF QueueInv, UnackedOwned, Owners
    <3> QED
      BY <2>1, <3>2
  <2>2. CASE mstate[m] # "unacked"
    BY ZenonT(30), <1>1, <2>2 DEF QueueInv, HandlersOK, Owners
  <2> QED
    BY ZenonT(30), <2>1, <2>2
<1> QED
    BY Invariance, <1>1, PTL

(***************************************************************************)
(* For every number of processes, goroutines, messages and faults: a task  *)
(* is run at most MaxRetry + 1 times for its publish and for each return   *)
(* of one of its messages to the queue.                                    *)
(***************************************************************************)
THEOREM Budget == Spec => []AttemptsBounded
<1>1. ASSUME QueueInv PROVE AttemptsBounded
  <2> SUFFICES ASSUME NEW t \in Task
               PROVE  attempts[t] <= (MaxRetry + 1) * (1 + requeues[t])
    BY DEF AttemptsBounded
  <2>1. Cardinality(QueuedRuns(t)) \in Nat /\ Cardinality(RetryRuns(t)) \in Nat
    BY <1>1, RunsFinite, ZenonT(30) DEF QueueInv
  <2>2. attempts[t] \in Nat /\ requeues[t] \in Nat
    BY <1>1, ZenonT(30) DEF QueueInv, TypeOK
  <2>3. attempts[t] + Cardinality(QueuedRuns(t)) + Cardinality(RetryRuns(t))
            <= (MaxRetry + 1) * (1 + requeues[t])
    BY <1>1, ZenonT(30) DEF QueueInv, RunsPaid
  <2> QED
    BY <2>1, <2>2, <2>3, SMTT(30) DEF MaxRetry
<1> QED
    BY Invariance, <1>1, PTL
-----------------------------------------------------------------------------
(***************************************************************************)
(* TaskQueue implements AtLeastOnce, step by step, under its inductive     *)
(* invariant.                                                              *)
(***************************************************************************)

(* The step simulation: under the invariant every step of the queue is a   *)
(* step of AtLeastOnce or leaves its state alone.                          *)
LEMMA StepSimulation ==
    ASSUME QueueInv, QueueInv', [Next]_vars PROVE [AQ!ANext]_(AQ!avars)
<1> DEFINE Q == {t \in Task : Queued(t)}
           same == Accepted' = Accepted /\ Q' = Q /\ Settled' = Settled
<1> USE ZenonT(30), BadMsgAssumption
<1>a. TypeOK /\ MessagesOK /\ HandlersOK
    BY DEF QueueInv
<1>0. \A t \in Task : t \in Accepted => t \in Settled \/ t \in Q
    BY SMTT(30) DEF PendingOrSettled, Queued, Pending, QueueInv
<1>1. \A t \in Task : (t \in Accepted)' => (t \in Settled)' \/ (t \in Q)'
    BY SMTT(30) DEF PendingOrSettled, Queued, Pending, QueueInv
<1>2. SUFFICES same \/ \E t \in Task : AQ!Accept(t) \/ AQ!Resolve(t) \/ AQ!Retire(t)
                                          \/ AQ!Redeliver(t)
    BY DEF AQ!ANext, AQ!avars
<1>3. ASSUME NEW n \in Node, NEW t \in Task, NEW m \in Msg, Publish(n, t, m)
      PROVE  AQ!Accept(t)
  <2>1. m \notin BadMsg /\ mstate[m] = "unused" /\ t \notin Accepted
    BY <1>a, <1>3 DEF Publish, Enqueue, MessagesOK, TypeOK
  <2>2. /\ \A k \in Msg : k # m => mstate'[k] = mstate[k] /\ mtask'[k] = mtask[k]
        /\ mstate'[m] = "ready" /\ mtask'[m] = t /\ Settled' = Settled
    BY <1>a, <1>3, SMTT(30) DEF Publish, Enqueue, history, Settled, Resolved, TypeOK
  <2>3. Accepted' = Accepted \cup {t}
    BY <2>1, <2>2, SMTT(30) DEF Accepted
  <2>4. Q' = Q \cup {t}
    BY <2>1, <2>2, SMTT(30) DEF Queued
  <2> QED
    BY <2>1, <2>2, <2>3, <2>4 DEF AQ!Accept
<1>4. ASSUME NEW n \in Node, NEW m \in Msg, NEW h \in Handler, Deliver(n, m, h) PROVE same
  <2>1. /\ \A k \in Msg : k # m => mstate'[k] = mstate[k]
        /\ mstate[m] = "ready" /\ mstate'[m] = "unacked" /\ mtask' = mtask
        /\ Settled' = Settled
    BY <1>a, <1>4, SMTT(30) DEF Deliver, Settled, Resolved, TypeOK
  <2> QED
    BY <2>1, SMTT(30) DEF Accepted, Queued
<1>5. ASSUME NEW n \in Node, NEW m \in Msg, RejectInvalid(n, m) PROVE same
  <2>1. /\ \A k \in Msg \ BadMsg : mstate'[k] = mstate[k]
        /\ mtask' = mtask /\ Settled' = Settled
    BY <1>a, <1>5, SMTT(30) DEF RejectInvalid, history, Settled, Resolved, TypeOK
  <2> QED
    BY <2>1, SMTT(30) DEF Accepted, Queued
<1>6. ASSUME NEW h \in Handler, HandleOk(h) \/ HandleFail(h)
      PROVE  same \/ \E t \in Task : AQ!Resolve(t)
  <2> DEFINE t == mtask[hmsg[h]]
  <2>1. t \in Task /\ t \in Accepted
    BY <1>a, <1>6 DEF HandleOk, HandleFail, HandlersOK, MessagesOK, Accepted, TypeOK
  <2>2. Accepted' = Accepted /\ Q' = Q
    BY <1>6, SMTT(30) DEF HandleOk, HandleFail, broker, Accepted, Queued
  <2>3. Settled' = Settled \/ Settled' = Settled \cup {t}
    BY <1>a, <1>6, SMTT(30) DEF HandleOk, HandleFail, Settled, Resolved, TypeOK
  <2> QED
    BY <2>1, <2>2, <2>3 DEF AQ!Resolve
<1>7. ASSUME NEW h \in Handler, NEW m \in Msg, Republish(h, m)
      PROVE  same \/ \E t \in Task : AQ!Redeliver(t)
  <2> DEFINE t == mtask[hmsg[h]]
  <2>1. t \in Task /\ t \in Accepted
    BY <1>a, <1>7 DEF Republish, HandlersOK, MessagesOK, Accepted, TypeOK
  <2>2. /\ m \notin BadMsg /\ mstate[m] = "unused"
        /\ \A k \in Msg : k # m => mstate'[k] = mstate[k] /\ mtask'[k] = mtask[k]
        /\ mstate'[m] = "ready" /\ mtask'[m] = t /\ Settled' = Settled
    BY <1>a, <1>7, SMTT(30) DEF Republish, Enqueue, history, Settled, Resolved, MessagesOK, TypeOK
  <2>3. Accepted' = Accepted
    BY <2>1, <2>2, SMTT(30) DEF Accepted
  <2>4. Q' = Q \cup {t}
    BY <2>1, <2>2, SMTT(30) DEF Queued
  <2>5. CASE t \in Q
    BY <2>2, <2>3, <2>4, <2>5, SMTT(30)
  <2>6. CASE t \notin Q
    BY <1>0, <2>1, <2>2, <2>3, <2>4, <2>6 DEF AQ!Redeliver
  <2> QED
    BY <2>5, <2>6
<1>8. ASSUME NEW h \in Handler, RepublishIntoVoid(h) \/ RepublishRefused(h)
      PROVE  same \/ \E t \in Task : AQ!Resolve(t)
  <2> DEFINE t == mtask[hmsg[h]]
  <2>1. t \in Task /\ t \in Accepted
    BY <1>a, <1>8 DEF RepublishIntoVoid, RepublishRefused, HandlersOK, MessagesOK, Accepted, TypeOK
  <2>2. Accepted' = Accepted /\ Q' = Q
    BY <1>8, SMTT(30) DEF RepublishIntoVoid, RepublishRefused, broker, Accepted, Queued
  <2>3. Settled' = Settled \/ Settled' = Settled \cup {t}
    BY <1>a, <1>8, SMTT(30) DEF RepublishIntoVoid, RepublishRefused, history, Settled, Resolved, TypeOK
  <2> QED
    BY <2>1, <2>2, <2>3 DEF AQ!Resolve
<1>9. ASSUME NEW h \in Handler, Ack(h) PROVE same \/ \E t \in Task : AQ!Retire(t)
  <2> DEFINE t == mtask[hmsg[h]]
  <2>1. t \in Task /\ hmsg[h] \in Msg \ BadMsg /\ t \in Accepted
    BY <1>a, <1>9 DEF Ack, HandlersOK, MessagesOK, Accepted, TypeOK
  <2>2. /\ \A k \in Msg : k # hmsg[h] => mstate'[k] = mstate[k]
        /\ mstate'[hmsg[h]] \in {mstate[hmsg[h]], "acked"}
        /\ mtask' = mtask /\ Settled' = Settled
    BY <1>a, <1>9, <2>1, SMTT(30) DEF Ack, history, Settled, Resolved, TypeOK
  <2>3. mstate[hmsg[h]] # "unused"
    BY <1>a, <1>9 DEF Ack, HandlersOK, TypeOK
  <2>4. Accepted' = Accepted
    BY <2>1, <2>2, <2>3 DEF Accepted
  <2>5. Q' = Q \/ (Q' = Q \ {t} /\ t \notin Q')
    BY <2>1, <2>2, SMTT(30) DEF Queued
  <2>6. CASE Q' = Q
    BY <2>2, <2>4, <2>6
  <2>7. CASE Q' = Q \ {t} /\ t \notin Q'
    BY <1>1, <2>1, <2>2, <2>4, <2>7 DEF AQ!Retire
  <2> QED
    BY <2>5, <2>6, <2>7
<1>10. ASSUME NEW h \in Handler, Nack(h) PROVE same
  <2>1. /\ hmsg[h] \in Msg
        /\ \A k \in Msg : k # hmsg[h] => mstate'[k] = mstate[k]
        /\ mstate'[hmsg[h]] = mstate[hmsg[h]]
              \/ (mstate[hmsg[h]] = "unacked" /\ mstate'[hmsg[h]] = "ready")
        /\ mtask' = mtask /\ Settled' = Settled
    BY <1>a, <1>10, SMTT(30) DEF Nack, HandlersOK, Settled, Resolved, TypeOK
  <2> QED
    BY <2>1, SMTT(30) DEF Accepted, Queued
<1>11. ASSUME NEW n \in Node,
              BeginPass(n) \/ Reconnect(n) \/ OpenFails(n) \/ StartConsumer(n) \/ NoticeLoss(n)
                \/ NoticePubClose(n) \/ Drain(n) \/ New(n) \/ ClosePubChannel(n) \/ Shutdown(n)
       PROVE  same
  <2>1. UNCHANGED taskState
    BY <1>11, LoopFrame
  <2> QED
    BY <2>1, SMTT(30) DEF taskState, Accepted, Queued, Settled, Resolved
<1>12. ASSUME NEW n \in Node, ChannelGone(n) PROVE same
  <2>1. mtask' = mtask /\ Settled' = Settled
    BY <1>a, <1>12, ChannelGoneFrame DEF Settled, Resolved
  <2>2. \A m \in Msg : mstate'[m] = mstate[m] \/ (mstate[m] = "unacked" /\ mstate'[m] = "ready")
    BY <1>12, ChannelGoneFacts
  <2> QED
    BY <2>1, <2>2, SMTT(30) DEF Accepted, Queued
<1>13. CASE UNCHANGED vars
    BY <1>13, SMTT(30) DEF vars, broker, history, Accepted, Queued, Settled, Resolved
<1> HIDE DEF same
<1> QED
    BY <1>3, <1>4, <1>5, <1>6, <1>7, <1>8, <1>9, <1>10, <1>11, <1>12, <1>13
    DEF Next, GoroutineStep, ChannelGone

(* The AMQP queue implements the at-least-once queue. *)
THEOREM Implements == Spec => ImplementsAtLeastOnce
<1>1. Init => AQ!AInit
    BY DEF Init, AQ!AInit, Accepted, Queued, Settled, Resolved
<1>2. QueueInv /\ QueueInv' /\ [Next]_vars => [AQ!ANext]_(AQ!avars)
    BY StepSimulation
<1> QED
    BY Invariance, <1>1, <1>2, PTL DEF Spec, ImplementsAtLeastOnce, AQ!ASpec
=============================================================================
