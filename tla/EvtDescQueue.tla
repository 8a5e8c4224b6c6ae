---------------------------- MODULE EvtDescQueue ----------------------------
(***************************************************************************)
(* Source/_IOC_EvtDescQueue.c: the ring of event descriptors that every    *)
(* link keeps, with two counters that only grow (QueuedEvtNum and          *)
(* ProcedEvtNum) and one Mutex.  An operation locks, reads both counters   *)
(* into locals, compares, copies a descriptor in or out of slot            *)
(* counter % Capacity, increments the counter and unlocks; each of these   *)
(* is a step here, so that the Mutex and the order copy-then-count carry   *)
(* the result.  The counters are unbounded: the header argues that ULONG_T *)
(* never overflows in practice; MaxCalls bounds them.                      *)
(***************************************************************************)
EXTENDS Naturals, Sequences

CONSTANTS Threads, EvtDescs,
          Blank,      \* what a slot holds that memset cleared
          Capacity,   \* _CONLES_EVENT_MAX_QUEUING_EVTDESC
          MaxCalls    \* bound: how many calls the threads make in all

ASSUME BlankAssumption == Blank \notin EvtDescs
ASSUME CapacityAssumption == Capacity \in Nat \ {0}
ASSUME MaxCallsAssumption == MaxCalls \in Nat

VARIABLES Mutex,           \* the set of threads that hold the queue's mutex
          QueuedEvtNum, ProcedEvtNum,
          QueuedEvtDescs,  \* the ring
          pc,
          request,         \* request[t]: the call t is in
          local,           \* local[t]: the counters as t read them
          buf,             \* buf[t]: the descriptor a dequeue copied out
          ret,             \* ret[t]: the value t's last call returns
          calls

vars == <<Mutex, QueuedEvtNum, ProcedEvtNum, QueuedEvtDescs, pc, request, local, buf, ret, calls>>
counters == <<QueuedEvtNum, ProcedEvtNum>>

NoCall == [op |-> "none"]
Requests == [op : {"enqueue"}, desc : EvtDescs] \cup [op : {"dequeue", "isEmpty"}]
NoOutcome == [code |-> "none"]
Code(c) == [code |-> c]
Slot(n) == n % Capacity

-----------------------------------------------------------------------------
initOne ==
    /\ Mutex = {}
    /\ QueuedEvtNum = 0 /\ ProcedEvtNum = 0
    /\ QueuedEvtDescs = [i \in 0 .. Capacity - 1 |-> Blank]

Init ==
    /\ initOne
    /\ pc = [t \in Threads |-> "idle"]
    /\ request = [t \in Threads |-> NoCall]
    /\ local = [t \in Threads |-> [queued |-> 0, proced |-> 0]]
    /\ buf = [t \in Threads |-> Blank]
    /\ ret = [t \in Threads |-> NoOutcome]
    /\ calls = 0

Goto(t, label) == pc' = [pc EXCEPT ![t] = label]

(* A caller enters enqueueElementLast, dequeueElementFirst or isEmpty. *)
Call(t) ==
    /\ pc[t] = "idle" /\ calls < MaxCalls
    /\ \E r \in Requests : request' = [request EXCEPT ![t] = r]
    /\ calls' = calls + 1
    /\ ret' = [ret EXCEPT ![t] = NoOutcome]
    /\ Goto(t, "lock")
    /\ UNCHANGED <<Mutex, counters, QueuedEvtDescs, local, buf>>

MutexIsFree_NoWait == TRUE   \* mutant: the caller goes on without waiting for the holder
MutexIsFree == Mutex = {}

(* pthread_mutex_lock, then the two counters are read into locals. *)
Lock(t) ==
    /\ pc[t] = "lock" /\ MutexIsFree
    /\ Mutex' = Mutex \cup {t}
    /\ local' = [local EXCEPT ![t] = [queued |-> QueuedEvtNum, proced |-> ProcedEvtNum]]
    /\ Goto(t, request[t].op)
    /\ UNCHANGED <<counters, QueuedEvtDescs, request, buf, ret, calls>>

(* The call's outcome is settled; what is left is to unlock and return it. *)
Settle(t, outcome) ==
    /\ ret' = [ret EXCEPT ![t] = outcome]
    /\ Goto(t, "unlock")

QueuingEvtNum(t) == local[t].queued - local[t].proced

IsFull(t) == QueuingEvtNum(t) = Capacity

enqueueFull(t) ==
    /\ pc[t] = "enqueue" /\ IsFull(t)
    /\ Settle(t, Code("TOO_MANY_QUEUING_EVTDESC"))
    /\ UNCHANGED <<Mutex, counters, QueuedEvtDescs, request, local, buf, calls>>

enqueueCopy(t) ==
    /\ pc[t] = "enqueue" /\ ~IsFull(t)
    /\ QueuedEvtDescs' = [QueuedEvtDescs EXCEPT ![Slot(local[t].queued)] = request[t].desc]
    /\ Goto(t, "enqueueCount")
    /\ UNCHANGED <<Mutex, counters, request, local, buf, ret, calls>>

enqueueCount(t) ==
    /\ pc[t] = "enqueueCount"
    /\ QueuedEvtNum' = QueuedEvtNum + 1
    /\ Settle(t, Code("SUCCESS"))
    /\ UNCHANGED <<Mutex, ProcedEvtNum, QueuedEvtDescs, request, local, buf, calls>>

dequeueEmpty(t) ==
    /\ pc[t] = "dequeue" /\ QueuingEvtNum(t) = 0
    /\ Settle(t, Code("EVTDESC_QUEUE_EMPTY"))
    /\ UNCHANGED <<Mutex, counters, QueuedEvtDescs, request, local, buf, calls>>

dequeueCopy_Newest(t) ==   \* mutant: the slot to read is computed from the wrong counter
    /\ pc[t] = "dequeue" /\ QueuingEvtNum(t) # 0
    /\ buf' = [buf EXCEPT ![t] = QueuedEvtDescs[Slot(local[t].queued - 1)]]
    /\ Goto(t, "dequeueCount")
    /\ UNCHANGED <<Mutex, counters, QueuedEvtDescs, request, local, ret, calls>>

dequeueCopy(t) ==
    /\ pc[t] = "dequeue" /\ QueuingEvtNum(t) # 0
    /\ buf' = [buf EXCEPT ![t] = QueuedEvtDescs[Slot(local[t].proced)]]
    /\ Goto(t, "dequeueCount")
    /\ UNCHANGED <<Mutex, counters, QueuedEvtDescs, request, local, ret, calls>>

dequeueCount(t) ==
    /\ pc[t] = "dequeueCount"
    /\ ProcedEvtNum' = ProcedEvtNum + 1
    /\ Settle(t, [code |-> "SUCCESS", desc |-> buf[t]])
    /\ UNCHANGED <<Mutex, QueuedEvtNum, QueuedEvtDescs, request, local, buf, calls>>

isEmpty(t) ==
    /\ pc[t] = "isEmpty"
    /\ Settle(t, Code(IF local[t].queued = local[t].proced THEN "YES" ELSE "NO"))
    /\ UNCHANGED <<Mutex, counters, QueuedEvtDescs, request, local, buf, calls>>

Unlock(t) ==
    /\ pc[t] = "unlock"
    /\ Mutex' = Mutex \ {t}
    /\ Goto(t, "idle")
    /\ UNCHANGED <<counters, QueuedEvtDescs, request, local, buf, ret, calls>>

Step(t) ==
    \/ Call(t) \/ Lock(t)
    \/ enqueueFull(t) \/ enqueueCopy(t) \/ enqueueCount(t)
    \/ dequeueEmpty(t) \/ dequeueCopy(t) \/ dequeueCount(t)
    \/ isEmpty(t) \/ Unlock(t)

Next == \E t \in Threads : Step(t)

Spec == Init /\ [][Next]_vars

-----------------------------------------------------------------------------
Labels == {"idle", "lock", "enqueue", "enqueueCount", "dequeue", "dequeueCount", "isEmpty", "unlock"}
Outcomes == [code : {"none", "SUCCESS", "TOO_MANY_QUEUING_EVTDESC", "EVTDESC_QUEUE_EMPTY", "YES", "NO"}]
            \cup [code : {"SUCCESS"}, desc : EvtDescs \cup {Blank}]

(* Every variable has its type: the ring has Capacity slots, and the counters count. *)
TypeOK ==
    /\ Mutex \in SUBSET Threads
    /\ QueuedEvtNum \in Nat /\ ProcedEvtNum \in Nat
    /\ QueuedEvtDescs \in [0 .. Capacity - 1 -> EvtDescs \cup {Blank}]
    /\ pc \in [Threads -> Labels]
    /\ request \in [Threads -> Requests \cup {NoCall}]
    /\ local \in [Threads -> [queued : Nat, proced : Nat]]
    /\ buf \in [Threads -> EvtDescs \cup {Blank}]
    /\ ret \in [Threads -> Outcomes]
    /\ calls \in Nat

InCritical(t) == pc[t] \notin {"idle", "lock"}

(* The sanity checks of _IOC_EvtDescQueue.c:41, 42, 51, 78 and 79 never fire: what an
   operation read under the lock is a distance between 0 and Capacity, and it is still
   what the counters say when the operation acts on it, whatever the other threads do. *)
SanityChecks ==
    \A t \in Threads : pc[t] \in {"enqueue", "enqueueCount", "dequeue", "dequeueCount", "isEmpty"} =>
        /\ local[t] = [queued |-> QueuedEvtNum, proced |-> ProcedEvtNum]
        /\ local[t].proced <= local[t].queued
        /\ local[t].queued - local[t].proced <= Capacity

(* The abstract queue this ring stands for: the descriptors between the two counters, oldest
   first.  A request has taken effect once its outcome is settled. *)
Fifo == [i \in 1 .. QueuedEvtNum - ProcedEvtNum |-> QueuedEvtDescs[Slot(ProcedEvtNum + i - 1)]]
Pending == [t \in Threads |-> IF pc[t] \in {"idle", "unlock"} THEN NoCall ELSE request[t]]
Abstract == INSTANCE BoundedFifo WITH fifo <- Fifo, call <- Pending

(* The ring implements a bounded FIFO: no descriptor is lost, duplicated, overwritten or
   reordered, TOO_MANY is answered exactly on a full queue and EMPTY exactly on an empty one. *)
ImplementsFifo == Abstract!Spec
=============================================================================
