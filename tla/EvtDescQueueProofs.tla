------------------------- MODULE EvtDescQueueProofs -------------------------
(***************************************************************************)
(* The ring of EvtDescQueue is correct for every capacity, every set of    *)
(* threads and every number of calls: it keeps the types, its sanity       *)
(* checks never fire, and it implements BoundedFifo.                       *)
(***************************************************************************)
EXTENDS EvtDescQueue, Integers, SequenceTheorems, TLAPS

(* Two counters less than a ring apart address different slots. *)
LEMMA SlotsDiffer ==
    ASSUME NEW n \in Nat \ {0}, NEW a \in Nat, NEW b \in Nat, a < b, b < a + n
    PROVE  a % n # b % n
<1>1. a = n * (a \div n) + (a % n) /\ b = n * (b \div n) + (b % n)
  OBVIOUS
<1> DEFINE k == (b \div n) - (a \div n)
<1>2. k \in Int /\ a % n \in Nat /\ b % n \in Nat /\ (a \div n) \in Int /\ (b \div n) \in Int
  OBVIOUS
<1>3. ASSUME a % n = b % n PROVE FALSE
  <2>1. n * (b \div n) = n * (a \div n) + n * k
    BY <1>2
  <2>2. b - a = n * k
    BY <2>1, <1>3, <1>1, <1>2
  <2>3. n * k > 0 /\ n * k < n
    BY <2>2
  <2> HIDE DEF k
  <2>4. k >= 1 => n * k >= n
    BY <1>2
  <2>5. k <= 0 => n * k <= 0
    BY <1>2
  <2> QED
    BY <2>3, <2>4, <2>5, <1>2
<1> QED
  BY <1>3

(* A counter addresses a slot of the ring. *)
LEMMA SlotInRing == ASSUME NEW n \in Nat PROVE Slot(n) \in 0 .. Capacity - 1
  BY CapacityAssumption DEF Slot

-----------------------------------------------------------------------------
(* Exactly the threads between their lock and their unlock hold the mutex, and they are one. *)
MutexInv ==
    /\ \A t \in Threads : InCritical(t) <=> t \in Mutex
    /\ \A t, u \in Mutex : t = u

CountersInv ==
    /\ ProcedEvtNum <= QueuedEvtNum
    /\ QueuedEvtNum - ProcedEvtNum <= Capacity

(* What a thread established before the step it is about to take. *)
StageInv ==
    \A t \in Threads :
        /\ pc[t] # "idle" => request[t] \in Requests
        /\ pc[t] = "enqueue" => request[t].op = "enqueue"
        /\ pc[t] \in {"dequeue", "dequeueCount"} => request[t].op = "dequeue"
        /\ pc[t] = "isEmpty" => request[t].op = "isEmpty"
        /\ pc[t] = "enqueueCount" =>
              /\ request[t].op = "enqueue"
              /\ local[t].queued - local[t].proced < Capacity
              /\ QueuedEvtDescs[Slot(local[t].queued)] = request[t].desc
        /\ pc[t] = "dequeueCount" =>
              /\ local[t].proced < local[t].queued
              /\ buf[t] = QueuedEvtDescs[Slot(local[t].proced)]

IInv == TypeOK /\ MutexInv /\ CountersInv /\ SanityChecks /\ StageInv

USE CapacityAssumption, MaxCallsAssumption

(* The initial states satisfy the invariant. *)
LEMMA InitIInv == Init => IInv
  BY DEF Init, initOne, IInv, TypeOK, MutexInv, CountersInv, SanityChecks, StageInv, InCritical,
         Labels, Outcomes, NoCall, NoOutcome

(* A request is one of the three operations, and none of them is no call. *)
LEMMA RequestOps ==
    ASSUME NEW r \in Requests
    PROVE  /\ r.op \in {"enqueue", "dequeue", "isEmpty"}
           /\ r.op = "enqueue" => r.desc \in EvtDescs
           /\ r # NoCall
  BY DEF Requests, NoCall

(* Every step keeps every variable in its type. *)
LEMMA NextTypeOK == TypeOK /\ StageInv /\ [Next]_vars => TypeOK'
<1> SUFFICES ASSUME TypeOK, StageInv, [Next]_vars PROVE TypeOK'
  OBVIOUS
<1> USE DEF TypeOK, Goto, Settle, counters, Labels, Code
<1>0. CASE UNCHANGED vars
  BY <1>0 DEF vars
<1>1. ASSUME NEW t \in Threads, Call(t) PROVE TypeOK'
  BY <1>1 DEF Call, NoOutcome, Outcomes
<1>2. ASSUME NEW t \in Threads, Lock(t) PROVE TypeOK'
  <2>1. request[t].op \in Labels
    BY <1>2, RequestOps DEF Lock, StageInv
  <2> QED
    BY <1>2, <2>1 DEF Lock
<1>3. ASSUME NEW t \in Threads, enqueueFull(t) PROVE TypeOK'
  BY <1>3 DEF enqueueFull, Outcomes
<1>4. ASSUME NEW t \in Threads, enqueueCopy(t) PROVE TypeOK'
  <2>1. request[t].desc \in EvtDescs
    BY <1>4, RequestOps DEF enqueueCopy, StageInv
  <2> QED
    BY <1>4, <2>1 DEF enqueueCopy
<1>5. ASSUME NEW t \in Threads, enqueueCount(t) PROVE TypeOK'
  BY <1>5 DEF enqueueCount, Outcomes
<1>6. ASSUME NEW t \in Threads, dequeueEmpty(t) PROVE TypeOK'
  BY <1>6 DEF dequeueEmpty, Outcomes
<1>7. ASSUME NEW t \in Threads, dequeueCopy(t) PROVE TypeOK'
  BY <1>7, SlotInRing DEF dequeueCopy
<1>8. ASSUME NEW t \in Threads, dequeueCount(t) PROVE TypeOK'
  BY <1>8 DEF dequeueCount, Outcomes
<1>9. ASSUME NEW t \in Threads, isEmpty(t) PROVE TypeOK'
  BY <1>9 DEF isEmpty, Outcomes
<1>10. ASSUME NEW t \in Threads, Unlock(t) PROVE TypeOK'
  BY <1>10 DEF Unlock
<1> QED
  BY <1>0, <1>1, <1>2, <1>3, <1>4, <1>5, <1>6, <1>7, <1>8, <1>9, <1>10 DEF Next, Step

(* The mutex is held by the one thread that is in its critical section, if there is one. *)
LEMMA NextMutexInv == TypeOK /\ MutexInv /\ StageInv /\ [Next]_vars => MutexInv'
<1> SUFFICES ASSUME TypeOK, MutexInv, StageInv, [Next]_vars PROVE MutexInv'
  OBVIOUS
<1> USE DEF TypeOK, MutexInv, InCritical, Goto, Settle
<1>0. CASE UNCHANGED vars
  BY <1>0 DEF vars
<1>1. ASSUME NEW t \in Threads, Call(t) PROVE MutexInv'
  BY <1>1 DEF Call
<1>2. ASSUME NEW t \in Threads, Lock(t) PROVE MutexInv'
  <2>1. request[t].op \notin {"idle", "lock"}
    BY <1>2, RequestOps DEF Lock, StageInv
  <2> QED
    BY <1>2, <2>1 DEF Lock, MutexIsFree
<1>3. ASSUME NEW t \in Threads, enqueueFull(t) PROVE MutexInv'
  BY <1>3 DEF enqueueFull
<1>4. ASSUME NEW t \in Threads, enqueueCopy(t) PROVE MutexInv'
  BY <1>4 DEF enqueueCopy
<1>5. ASSUME NEW t \in Threads, enqueueCount(t) PROVE MutexInv'
  BY <1>5 DEF enqueueCount
<1>6. ASSUME NEW t \in Threads, dequeueEmpty(t) PROVE MutexInv'
  BY <1>6 DEF dequeueEmpty
<1>7. ASSUME NEW t \in Threads, dequeueCopy(t) PROVE MutexInv'
  BY <1>7 DEF dequeueCopy
<1>8. ASSUME NEW t \in Threads, dequeueCount(t) PROVE MutexInv'
  BY <1>8 DEF dequeueCount
<1>9. ASSUME NEW t \in Threads, isEmpty(t) PROVE MutexInv'
  BY <1>9 DEF isEmpty
<1>10. ASSUME NEW t \in Threads, Unlock(t) PROVE MutexInv'
  BY <1>10 DEF Unlock
<1> QED
  BY <1>0, <1>1, <1>2, <1>3, <1>4, <1>5, <1>6, <1>7, <1>8, <1>9, <1>10 DEF Next, Step

(* While a thread is in its critical section every other one is outside of its own. *)
LEMMA OthersOutside ==
    ASSUME MutexInv, NEW t \in Threads, InCritical(t), NEW u \in Threads, u # t
    PROVE  ~InCritical(u)
  BY DEF MutexInv

(* The counters and what the threads know of them, together: no step takes a thread's knowledge
   away, because only the holder of the mutex writes. *)
LEMMA NextKnowledge == IInv /\ [Next]_vars => CountersInv' /\ SanityChecks' /\ StageInv'
<1> SUFFICES ASSUME IInv, [Next]_vars PROVE CountersInv' /\ SanityChecks' /\ StageInv'
  OBVIOUS
<1> USE DEF IInv, TypeOK, MutexInv, CountersInv, SanityChecks, StageInv, InCritical, Goto, Settle, counters
<1>0. CASE UNCHANGED vars
  BY <1>0 DEF vars
<1>1. ASSUME NEW t \in Threads, Call(t) PROVE CountersInv' /\ SanityChecks' /\ StageInv'
  BY <1>1 DEF Call
<1>2. ASSUME NEW t \in Threads, Lock(t) PROVE CountersInv' /\ SanityChecks' /\ StageInv'
  <2>1. request[t].op \in {"enqueue", "dequeue", "isEmpty"}
    BY <1>2, RequestOps DEF Lock
  <2> QED
    BY <1>2, <2>1 DEF Lock, MutexIsFree
<1>3. ASSUME NEW t \in Threads, enqueueFull(t) PROVE CountersInv' /\ SanityChecks' /\ StageInv'
  BY <1>3 DEF enqueueFull
<1>4. ASSUME NEW t \in Threads, enqueueCopy(t) PROVE CountersInv' /\ SanityChecks' /\ StageInv'
  <2>1. Slot(local[t].queued) \in 0 .. Capacity - 1 /\ request[t].desc \in EvtDescs
    BY <1>4, SlotInRing, RequestOps DEF enqueueCopy
  <2> QED
    BY <1>4, <2>1 DEF enqueueCopy, IsFull, QueuingEvtNum
<1>5. ASSUME NEW t \in Threads, enqueueCount(t) PROVE CountersInv' /\ SanityChecks' /\ StageInv'
  <2>1. \A u \in Threads : u # t => pc'[u] \in {"idle", "lock"} /\ pc'[u] = pc[u]
    <3>1. TAKE u \in Threads
    <3>2. HAVE u # t
    <3>3. pc[u] \in {"idle", "lock"}
      BY <1>5, <3>2, OthersOutside DEF enqueueCount
    <3> QED
      BY <1>5, <3>2, <3>3 DEF enqueueCount
  <2>2. CountersInv'
    BY <1>5 DEF enqueueCount
  <2>3. pc'[t] = "unlock"
    BY <1>5 DEF enqueueCount
  <2>4. UNCHANGED <<request, local, buf, QueuedEvtDescs>>
    BY <1>5 DEF enqueueCount
  <2>5. SanityChecks'
    BY <2>1, <2>3 DEF SanityChecks
  <2>6. StageInv'
    <3> SUFFICES ASSUME NEW u \in Threads, pc'[u] # "idle" PROVE request'[u] \in Requests
      BY <2>1, <2>3 DEF StageInv
    <3>1. CASE u = t
      BY <1>5, <3>1, <2>4 DEF StageInv, enqueueCount
    <3>2. CASE u # t
      BY <3>2, <2>1, <2>4 DEF StageInv
    <3> QED
      BY <3>1, <3>2
  <2> QED
    BY <2>2, <2>5, <2>6
<1>6. ASSUME NEW t \in Threads, dequeueEmpty(t) PROVE CountersInv' /\ SanityChecks' /\ StageInv'
  BY <1>6 DEF dequeueEmpty
<1>7. ASSUME NEW t \in Threads, dequeueCopy(t) PROVE CountersInv' /\ SanityChecks' /\ StageInv'
  BY <1>7 DEF dequeueCopy, QueuingEvtNum
<1>8. ASSUME NEW t \in Threads, dequeueCount(t) PROVE CountersInv' /\ SanityChecks' /\ StageInv'
  <2>1. \A u \in Threads : u # t => pc'[u] \in {"idle", "lock"} /\ pc'[u] = pc[u]
    <3>1. TAKE u \in Threads
    <3>2. HAVE u # t
    <3>3. pc[u] \in {"idle", "lock"}
      BY <1>8, <3>2, OthersOutside DEF dequeueCount
    <3> QED
      BY <1>8, <3>2, <3>3 DEF dequeueCount
  <2>2. CountersInv'
    BY <1>8 DEF dequeueCount
  <2>3. pc'[t] = "unlock"
    BY <1>8 DEF dequeueCount
  <2>4. UNCHANGED <<request, local, buf, QueuedEvtDescs>>
    BY <1>8 DEF dequeueCount
  <2>5. SanityChecks'
    BY <2>1, <2>3 DEF SanityChecks
  <2>6. StageInv'
    <3> SUFFICES ASSUME NEW u \in Threads, pc'[u] # "idle" PROVE request'[u] \in Requests
      BY <2>1, <2>3 DEF StageInv
    <3>1. CASE u = t
      BY <1>8, <3>1, <2>4 DEF StageInv, dequeueCount
    <3>2. CASE u # t
      BY <3>2, <2>1, <2>4 DEF StageInv
    <3> QED
      BY <3>1, <3>2
  <2> QED
    BY <2>2, <2>5, <2>6
<1>9. ASSUME NEW t \in Threads, isEmpty(t) PROVE CountersInv' /\ SanityChecks' /\ StageInv'
  BY <1>9 DEF isEmpty
<1>10. ASSUME NEW t \in Threads, Unlock(t) PROVE CountersInv' /\ SanityChecks' /\ StageInv'
  BY <1>10 DEF Unlock
<1> QED
  BY <1>0, <1>1, <1>2, <1>3, <1>4, <1>5, <1>6, <1>7, <1>8, <1>9, <1>10 DEF Next, Step

(* The inductive invariant holds in every reachable state. *)
THEOREM Inductive == Spec => []IInv
<1>1. IInv /\ [Next]_vars => IInv'
  BY NextTypeOK, NextMutexInv, NextKnowledge DEF IInv
<1> QED
  BY InitIInv, <1>1, PTL DEF Spec

(* Type correctness of the ring, for every capacity and every set of threads. *)
THEOREM TypeCorrect == Spec => []TypeOK
<1>1. IInv => TypeOK
  BY DEF IInv
<1> QED
  BY Inductive, <1>1, PTL

(* The sanity checks of enqueueElementLast and dequeueElementFirst never fire. *)
THEOREM SanityChecksHold == Spec => []SanityChecks
<1>1. IInv => SanityChecks
  BY DEF IInv
<1> QED
  BY Inductive, <1>1, PTL

-----------------------------------------------------------------------------
(* Refinement.  Fifo changes only when a counter does; the slot an enqueue fills lies outside of
   the live part of the ring until QueuedEvtNum grows over it. *)
LEMMA FifoIsSeq ==
    ASSUME IInv
    PROVE  /\ Fifo \in Seq(EvtDescs \cup {Blank})
           /\ Len(Fifo) = QueuedEvtNum - ProcedEvtNum
           /\ \A i \in 1 .. Len(Fifo) : Fifo[i] = QueuedEvtDescs[Slot(ProcedEvtNum + i - 1)]
<1> USE DEF IInv, TypeOK, CountersInv
<1>1. QueuedEvtNum - ProcedEvtNum \in Nat
  OBVIOUS
<1>2. \A i \in 1 .. QueuedEvtNum - ProcedEvtNum :
          QueuedEvtDescs[Slot(ProcedEvtNum + i - 1)] \in EvtDescs \cup {Blank}
  BY SlotInRing
<1> QED
  BY <1>1, <1>2 DEF Fifo

(* A descriptor that is copied in is not queued until it is counted. *)
LEMMA CopyLeavesFifo ==
    ASSUME IInv, NEW t \in Threads, enqueueCopy(t)
    PROVE  Fifo' = Fifo
<1> USE DEF IInv, TypeOK, CountersInv
<1>1. local[t].queued = QueuedEvtNum /\ QueuedEvtNum - ProcedEvtNum < Capacity /\ UNCHANGED counters
  BY DEF enqueueCopy, IsFull, QueuingEvtNum, SanityChecks
<1>2. ASSUME NEW i \in 1 .. QueuedEvtNum - ProcedEvtNum
      PROVE  QueuedEvtDescs'[Slot(ProcedEvtNum + i - 1)] = QueuedEvtDescs[Slot(ProcedEvtNum + i - 1)]
  <2>1. Slot(ProcedEvtNum + i - 1) # Slot(QueuedEvtNum)
    <3> DEFINE a == ProcedEvtNum + i - 1
    <3>1. a \in Nat /\ QueuedEvtNum \in Nat /\ a < QueuedEvtNum /\ QueuedEvtNum < a + Capacity
      BY <1>1
    <3>2. a % Capacity # QueuedEvtNum % Capacity
      BY ONLY <3>1, SlotsDiffer, CapacityAssumption
    <3> QED
      BY <3>2 DEF Slot
  <2>2. Slot(ProcedEvtNum + i - 1) \in 0 .. Capacity - 1
    BY SlotInRing
  <2> QED
    BY <1>1, <2>1, <2>2 DEF enqueueCopy
<1> QED
  BY <1>1, <1>2 DEF Fifo, counters

(* Counting the copied descriptor appends it. *)
LEMMA CountAppends ==
    ASSUME IInv, NEW t \in Threads, enqueueCount(t)
    PROVE  Fifo' = Append(Fifo, request[t].desc) /\ Len(Fifo) # Capacity
<1> USE DEF IInv, TypeOK, CountersInv
<1>1. /\ QueuedEvtDescs[Slot(QueuedEvtNum)] = request[t].desc
      /\ QueuedEvtNum - ProcedEvtNum < Capacity
  BY DEF enqueueCount, SanityChecks, StageInv
<1>2. /\ QueuedEvtNum' = QueuedEvtNum + 1
      /\ UNCHANGED <<ProcedEvtNum, QueuedEvtDescs>>
  BY DEF enqueueCount
<1> DEFINE n == QueuedEvtNum - ProcedEvtNum
<1>3. n \in Nat /\ QueuedEvtNum' - ProcedEvtNum' = n + 1
  BY <1>2
<1>4. ProcedEvtNum + (n + 1) - 1 = QueuedEvtNum
  OBVIOUS
<1>5. Fifo' = [i \in 1 .. n + 1 |-> QueuedEvtDescs[Slot(ProcedEvtNum + i - 1)]]
  BY <1>2, <1>3 DEF Fifo, Slot
<1>6. Len(Fifo) = n /\ \A i \in 1 .. n : Fifo[i] = QueuedEvtDescs[Slot(ProcedEvtNum + i - 1)]
  BY FifoIsSeq
<1>7. Append(Fifo, request[t].desc) = [i \in 1 .. n + 1 |-> IF i = n + 1 THEN request[t].desc ELSE Fifo[i]]
  BY <1>6, <1>3, FifoIsSeq DEF Append
<1> HIDE DEF n
<1>8. ASSUME NEW i \in 1 .. n + 1
      PROVE  QueuedEvtDescs[Slot(ProcedEvtNum + i - 1)] = IF i = n + 1 THEN request[t].desc ELSE Fifo[i]
  BY <1>1, <1>3, <1>4, <1>6
<1>9. Fifo' = Append(Fifo, request[t].desc)
  BY <1>5, <1>7, <1>8
<1> QED
  BY <1>9, <1>6, <1>1 DEF n

(* Counting a dequeue removes the oldest descriptor, which is the one that was copied out. *)
LEMMA CountTakesHead ==
    ASSUME IInv, NEW t \in Threads, dequeueCount(t)
    PROVE  Fifo # <<>> /\ buf[t] = Head(Fifo) /\ Fifo' = Tail(Fifo)
<1> USE DEF IInv, TypeOK, CountersInv
<1>1. /\ ProcedEvtNum < QueuedEvtNum
      /\ buf[t] = QueuedEvtDescs[Slot(ProcedEvtNum)]
  BY DEF dequeueCount, SanityChecks, StageInv
<1>2. /\ ProcedEvtNum' = ProcedEvtNum + 1
      /\ UNCHANGED <<QueuedEvtNum, QueuedEvtDescs>>
  BY DEF dequeueCount
<1> DEFINE n == QueuedEvtNum - ProcedEvtNum
<1>3. n \in Nat \ {0} /\ QueuedEvtNum' - ProcedEvtNum' = n - 1
  BY <1>1, <1>2
<1>4. Fifo' = [i \in 1 .. n - 1 |-> QueuedEvtDescs[Slot((ProcedEvtNum + 1) + i - 1)]]
  BY <1>2, <1>3 DEF Fifo, Slot
<1>5. Len(Fifo) = n /\ \A i \in 1 .. n : Fifo[i] = QueuedEvtDescs[Slot(ProcedEvtNum + i - 1)]
  BY FifoIsSeq
<1>6. Fifo # <<>> /\ Head(Fifo) = Fifo[1]
  BY <1>5, <1>3, FifoIsSeq
<1>7. Tail(Fifo) = [i \in 1 .. n - 1 |-> Fifo[i + 1]]
  <2>1. Fifo \in Seq(EvtDescs \cup {Blank}) /\ Fifo # <<>> /\ Len(Fifo) = n
    BY <1>5, <1>6, FifoIsSeq
  <2>2. /\ Tail(Fifo) \in Seq(EvtDescs \cup {Blank})
        /\ Len(Tail(Fifo)) = n - 1
        /\ \A i \in 1 .. n - 1 : Tail(Fifo)[i] = Fifo[i + 1]
    <3> HIDE DEF n
    <3> QED
      BY <2>1, HeadTailProperties
  <2>3. Tail(Fifo) \in [1 .. n - 1 -> EvtDescs \cup {Blank}]
    BY <2>2, LenProperties
  <2> QED
    BY <2>2, <2>3
<1>8. ASSUME NEW i \in 1 .. n - 1
      PROVE  Fifo[i + 1] = QueuedEvtDescs[Slot((ProcedEvtNum + 1) + i - 1)]
  <2>1. i + 1 \in 1 .. n /\ ProcedEvtNum + (i + 1) - 1 = (ProcedEvtNum + 1) + i - 1
    BY <1>3
  <2> QED
    BY <2>1, <1>5
<1>9. Fifo[1] = QueuedEvtDescs[Slot(ProcedEvtNum)]
  <2>1. 1 \in 1 .. n /\ ProcedEvtNum + 1 - 1 = ProcedEvtNum
    BY <1>3
  <2> QED
    BY <2>1, <1>5
<1> QED
  BY <1>1, <1>4, <1>6, <1>7, <1>8, <1>9

(* An initial state of the ring is an empty queue that nobody has called. *)
LEMMA InitRefines == Init => Abstract!Init
<1> SUFFICES ASSUME Init PROVE Abstract!Init
  OBVIOUS
<1>1. Fifo = <<>>
  BY DEF Init, initOne, Fifo
<1> QED
  BY <1>1 DEF Init, Abstract!Init, Pending, NoCall, NoOutcome, Abstract!NoCall, Abstract!NoOutcome

(* Every step of the ring is a step of the bounded FIFO or leaves it alone: a request takes effect
   when it is settled, which is when its counter moves or when the answer is known. *)
LEMMA StepRefines == IInv /\ [Next]_vars => [Abstract!Next]_(Abstract!avars)
<1> SUFFICES ASSUME IInv, [Next]_vars PROVE [Abstract!Next]_(Abstract!avars)
  OBVIOUS
<1> USE DEF IInv, TypeOK, Pending, Abstract!avars, Goto, Settle, counters
<1> DEFINE Stutter == UNCHANGED <<Fifo, Pending, ret, calls>>
<1>0. CASE UNCHANGED vars
  BY <1>0 DEF vars, Fifo, Slot
<1>1. ASSUME NEW t \in Threads, Call(t) PROVE Abstract!Request(t)
  <2>1. Fifo' = Fifo
    BY <1>1 DEF Call, Fifo, Slot
  <2>2. PICK r \in Requests : request' = [request EXCEPT ![t] = r]
    BY <1>1 DEF Call
  <2>3. Pending' = [Pending EXCEPT ![t] = r]
    BY <1>1, <2>2 DEF Call
  <2>4. Pending[t] = NoCall
    BY <1>1 DEF Call
  <2> QED
    BY <1>1, <2>1, <2>3, <2>4 DEF Call, Abstract!Request, Requests, Abstract!Requests, NoCall,
       Abstract!NoCall, NoOutcome, Abstract!NoOutcome
<1>2. ASSUME NEW t \in Threads, Lock(t) PROVE Stutter
  <2>1. request[t].op \in {"enqueue", "dequeue", "isEmpty"}
    BY <1>2, RequestOps DEF Lock, StageInv
  <2> QED
    BY <1>2, <2>1 DEF Lock, Fifo, Slot
<1>3. ASSUME NEW t \in Threads, enqueueFull(t) PROVE Abstract!Enqueue(t)
  <2>1. Fifo' = Fifo
    BY <1>3 DEF enqueueFull, Fifo, Slot
  <2>2. Len(Fifo) = Capacity
    BY <1>3, FifoIsSeq DEF enqueueFull, IsFull, QueuingEvtNum, SanityChecks
  <2>3. Pending[t] = request[t] /\ request[t] # NoCall /\ request[t].op = "enqueue"
    BY <1>3, RequestOps DEF enqueueFull, StageInv
  <2>4. Pending' = [Pending EXCEPT ![t] = NoCall]
    BY <1>3 DEF enqueueFull
  <2> QED
    BY <1>3, <2>1, <2>2, <2>3, <2>4 DEF enqueueFull, Abstract!Enqueue, Abstract!Answer, Code,
       Abstract!Code, NoCall, Abstract!NoCall
<1>4. ASSUME NEW t \in Threads, enqueueCopy(t) PROVE Stutter
  BY <1>4, CopyLeavesFifo DEF enqueueCopy
<1>5. ASSUME NEW t \in Threads, enqueueCount(t) PROVE Abstract!Enqueue(t)
  <2>1. Fifo' = Append(Fifo, request[t].desc) /\ Len(Fifo) # Capacity
    BY <1>5, CountAppends
  <2>3. Pending[t] = request[t] /\ request[t] # NoCall /\ request[t].op = "enqueue"
    BY <1>5, RequestOps DEF enqueueCount, StageInv
  <2>4. Pending' = [Pending EXCEPT ![t] = NoCall]
    BY <1>5 DEF enqueueCount
  <2> QED
    BY <1>5, <2>1, <2>3, <2>4 DEF enqueueCount, Abstract!Enqueue, Abstract!Answer, Code,
       Abstract!Code, NoCall, Abstract!NoCall
<1>6. ASSUME NEW t \in Threads, dequeueEmpty(t) PROVE Abstract!Dequeue(t)
  <2>1. Fifo' = Fifo
    BY <1>6 DEF dequeueEmpty, Fifo, Slot
  <2>2. Fifo = <<>>
    BY <1>6, FifoIsSeq DEF dequeueEmpty, QueuingEvtNum, SanityChecks
  <2>3. Pending[t] = request[t] /\ request[t] # NoCall /\ request[t].op = "dequeue"
    BY <1>6, RequestOps DEF dequeueEmpty, StageInv
  <2>4. Pending' = [Pending EXCEPT ![t] = NoCall]
    BY <1>6 DEF dequeueEmpty
  <2> QED
    BY <1>6, <2>1, <2>2, <2>3, <2>4 DEF dequeueEmpty, Abstract!Dequeue, Abstract!Answer, Code,
       Abstract!Code, NoCall, Abstract!NoCall
<1>7. ASSUME NEW t \in Threads, dequeueCopy(t) PROVE Stutter
  BY <1>7 DEF dequeueCopy, Fifo, Slot
<1>8. ASSUME NEW t \in Threads, dequeueCount(t) PROVE Abstract!Dequeue(t)
  <2>1. Fifo # <<>> /\ buf[t] = Head(Fifo) /\ Fifo' = Tail(Fifo)
    BY <1>8, CountTakesHead
  <2>3. Pending[t] = request[t] /\ request[t] # NoCall /\ request[t].op = "dequeue"
    BY <1>8, RequestOps DEF dequeueCount, StageInv
  <2>4. Pending' = [Pending EXCEPT ![t] = NoCall]
    BY <1>8 DEF dequeueCount
  <2> QED
    BY <1>8, <2>1, <2>3, <2>4 DEF dequeueCount, Abstract!Dequeue, Abstract!Answer, Code,
       Abstract!Code, NoCall, Abstract!NoCall
<1>9. ASSUME NEW t \in Threads, isEmpty(t) PROVE Abstract!IsEmpty(t)
  <2>1. Fifo' = Fifo
    BY <1>9 DEF isEmpty, Fifo, Slot
  <2>2. (local[t].queued = local[t].proced) <=> (Fifo = <<>>)
    BY <1>9, FifoIsSeq DEF isEmpty, SanityChecks
  <2>3. Pending[t] = request[t] /\ request[t] # NoCall /\ request[t].op = "isEmpty"
    BY <1>9, RequestOps DEF isEmpty, StageInv
  <2>4. Pending' = [Pending EXCEPT ![t] = NoCall]
    BY <1>9 DEF isEmpty
  <2> QED
    BY <1>9, <2>1, <2>2, <2>3, <2>4 DEF isEmpty, Abstract!IsEmpty, Abstract!Answer, Code,
       Abstract!Code, NoCall, Abstract!NoCall
<1>10. ASSUME NEW t \in Threads, Unlock(t) PROVE Stutter
  BY <1>10 DEF Unlock, Fifo, Slot
<1> QED
  BY <1>0, <1>1, <1>2, <1>3, <1>4, <1>5, <1>6, <1>7, <1>8, <1>9, <1>10 DEF Next, Step, Abstract!Next

(* The ring implements the bounded FIFO, for every capacity, every set of threads and descriptors
   and every number of calls. *)
THEOREM RingImplementsFifo == Spec => ImplementsFifo
  BY InitRefines, StepRefines, Inductive, PTL DEF Spec, ImplementsFifo, Abstract!Spec
=============================================================================
