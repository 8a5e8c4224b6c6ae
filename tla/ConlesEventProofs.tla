-------------------------- MODULE ConlesEventProofs --------------------------
(***************************************************************************)
(* Proofs about ConlesEvent, for every number of threads, consumers and    *)
(* calls and every queue depth and subscriber limit.                       *)
(*                                                                         *)
(* The argument: whoever is between getLinkObjLocked and putLinkObj is the *)
(* only holder of the link's Mutex; the two counters differ by the events  *)
(* queued or being called back, but for the one event that a poster has    *)
(* enqueued and not yet counted; hence a synchronous post that finds the   *)
(* counters equal finds nothing queued and EvtProcThread out of callbacks, *)
(* and keeps it so, because nobody else can post while it holds the Mutex. *)
(*                                                                         *)
(* The second part is about single events.  An event is known (unprocessed *)
(* or waited for by forceProcEvt) from its acceptance on only.  Events are *)
(* called back in the order of their acceptance, which is the order they   *)
(* are counted in: an event that was counted when the counter stood at n   *)
(* is among the first n to be called back, so that it is done when the     *)
(* other counter has reached n (PostInv).                                  *)
(*                                                                         *)
(* The third part: posting implements EventChannel.  The event in hand and *)
(* the queue after it are the channel's queue, and every step of a thread  *)
(* moves that thread's own post, or an event through the channel, or none. *)
(* ChanInv adds what a synchronous post calls back for, and that its event *)
(* is processed when it succeeds.                                          *)
(***************************************************************************)
EXTENDS ConlesEvent, FiniteSetTheorems, SequenceTheorems, WellFoundedInduction, TLAPS

HeldLabels == ApiLabels \ {"idle", "lock", "force", "wakeup", "readQueued", "readCallbaced"}
PostLabels == {"post", "enqueue", "waitSpace", "fastCount", "fastSignal", "slowSignal", "slowCount",
               "sync", "syncWait", "syncCb"}
SyncLabels == {"sync", "syncWait", "syncCb"}
UncountedLabels == {"fastCount", "slowSignal", "slowCount"}

(* Whoever is inside an API call that locks, or calls back in a synchronous post, holds the Mutex alone. *)
Holds(t) == pc[t] \in HeldLabels \/ (t \in Users /\ Dispatching(t))
LinkMutexOK == \A t \in Threads : Holds(t) => LinkMutex = {t}

(* A call is where its arguments make sense, and only application threads post synchronously. *)
OpOK == \A t \in Threads :
    /\ pc[t] = "lock" => op[t] \in PostOps \cup SubOps
    /\ pc[t] \in PostLabels => op[t] \in PostOps
    /\ pc[t] \in {"sub", "unsub", "insert", "remove"} => op[t] \in SubOps
    /\ pc[t] # "idle" => calls[t] > 0
    /\ pc[t] \in SyncLabels => t \in Users

(* Where a thread that calls back can be, and what EvtProcThread calls it calls from a callback. *)
CbOK ==
    /\ \A t \in Users : Dispatching(t) => pc[t] \in {"syncCb", "lock"}
    /\ \A t \in Users : pc[t] = "syncCb" => Dispatching(t)
    /\ pc[EvtProc] # "idle" => cb[EvtProc].at = "body"
    /\ loop = "dispatch" <=> Dispatching(EvtProc)
    /\ \A t \in Threads : Dispatching(t) => cb[t].evt \in Events

(* Every event enqueued is queued, being called back or counted as called back. *)
Uncounted == IF \E t \in Threads : pc[t] \in UncountedLabels THEN 1 ELSE 0
BeingCalledBack == IF loop \in {"dispatch", "count"} THEN 1 ELSE 0
CountersOK == QueuedEvtNum + Uncounted = CallbacedEvtNum + BeingCalledBack + Len(EvtDescQueue)

(* While a synchronous post calls back, nothing is queued and EvtProcThread is out of callbacks. *)
SyncOK == \A t \in Users : Dispatching(t) => EvtDescQueue = <<>> /\ loop \notin {"dispatch", "count"}

IInv == TypeOK /\ LinkMutexOK /\ OpOK /\ CbOK /\ CountersOK /\ SyncOK
        /\ LinkStateTruthful /\ SuberListOK /\ DeliveryOrder

-----------------------------------------------------------------------------
(* The assumptions on the constants, under one name. *)
LEMMA ConstantsOK ==
    /\ EvtProc \notin Users /\ EvtProc \in Threads /\ Users \subseteq Threads
    /\ UserOps \subseteq Ops /\ CallbackOps \subseteq PostOps \cup SubOps
    /\ Capacity \in Nat \ {0} /\ MaxSuber \in Nat \ {0} /\ MaxCalls \in Nat
    /\ UnSubed \notin Consumers
BY ThreadsAssumption, OpsAssumption, SizesAssumption, UnSubedAssumption DEF Threads

(* The subscriber list of a link has finitely many slots. *)
LEMMA SlotsFinite == IsFiniteSet(Slots)
<1>1. 1 \in Int /\ MaxSuber \in Int
  BY SizesAssumption
<1>2. IsFiniteSet(1 .. MaxSuber)
  BY ONLY <1>1, FS_Interval
<1> QED BY <1>2 DEF Slots

(* The event of a thread that is posting has its type. *)
LEMMA EventType ==
    ASSUME TypeOK, NEW t \in Threads, op[t] \in PostOps, calls[t] > 0
    PROVE  Event(t) \in Events
<1>1. calls[t] \in 1 .. MaxCalls
  BY ConstantsOK DEF TypeOK
<1>2. op[t].evt \in EvtIDs
  BY DEF PostOps
<1> QED BY <1>1, <1>2 DEF Event, Events

(* A step of callbackProcEvtOverSuberList keeps the record of the run in its type. *)
LEMMA CbType ==
    ASSUME TypeOK, NEW t \in Threads
    PROVE  /\ \A r \in CbRuns : [cb EXCEPT ![t] = r] \in [Threads -> CbRuns]
           /\ \A at \in {"none", "collect", "enter", "next", "body"} :
                /\ [cb EXCEPT ![t].at = at] \in [Threads -> CbRuns]
                /\ \A todo \in SUBSET (Slots \X Consumers) :
                      [cb EXCEPT ![t].at = at, ![t].todo = todo] \in [Threads -> CbRuns]
<1>1. cb \in [Threads -> CbRuns] /\ cb[t] \in CbRuns
  BY DEF TypeOK
<1>2. ASSUME NEW at \in {"none", "collect", "enter", "next", "body"}, NEW todo \in SUBSET (Slots \X Consumers)
      PROVE  [cb[t] EXCEPT !.at = at, !.todo = todo] \in CbRuns
  <2> DEFINE T == SUBSET (Slots \X Consumers)  E == Events \cup {NoEvent}
  <2>1. cb[t] \in [at : {"none", "collect", "enter", "next", "body"}, evt : E, todo : T] /\ todo \in T
    BY <1>1 DEF CbRuns
  <2>2. CbRuns = [at : {"none", "collect", "enter", "next", "body"}, evt : E, todo : T]
    BY DEF CbRuns
  <2> HIDE DEF T, E
  <2> QED BY <2>1, <2>2
<1>3. ASSUME NEW at \in {"none", "collect", "enter", "next", "body"} PROVE [cb[t] EXCEPT !.at = at] \in CbRuns
  BY <1>1 DEF CbRuns
<1> QED BY <1>1, <1>2, <1>3

(* What is unprocessed is a set of events. *)
LEMMA UnprocessedType == ASSUME TypeOK, CbOK PROVE Unprocessed \subseteq Events
<1>1. ASSUME NEW i \in DOMAIN due PROVE due[i] \in Events
  BY <1>1 DEF TypeOK
<1>2. ASSUME NEW t \in Threads, Dispatching(t) PROVE cb[t].evt \in Events
  BY <1>2 DEF CbOK
<1> QED BY <1>1, <1>2 DEF Unprocessed

(* A change of one flag keeps the link's state in its type. *)
LEMMA TransferType ==
    ASSUME TypeOK, NEW flag \in {"IsInCbProc", "IsInSub", "IsInUnsub"}, NEW value \in BOOLEAN,
           Transfer(flag, value)
    PROVE  State' \in [IsInCbProc : BOOLEAN, IsInSub : BOOLEAN, IsInUnsub : BOOLEAN, Main : MainStates]
BY DEF TypeOK, Transfer, MainStates

(* Returning from a call keeps what the call leaves behind in its type. *)
LEMMA ReturnType ==
    ASSUME TypeOK, NEW t \in Threads, Return(t)
    PROVE  /\ pc' \in [Threads -> ApiLabels] /\ op' \in [Threads -> Ops \cup {NoOp}]
           /\ result' \in [Threads -> Results]
           /\ seen' \in [Threads -> Nat] /\ pending' \in [Threads -> SUBSET Events]
<1>1. pc' \in [Threads -> ApiLabels] /\ result' \in [Threads -> Results]
  BY DEF TypeOK, Return, Goto, ApiLabels, Results
<1>2. op' \in [Threads -> Ops \cup {NoOp}] /\ seen' \in [Threads -> Nat]
  BY DEF TypeOK, Return
<1>3. pending' \in [Threads -> SUBSET Events]
  <2>1. pending \in [Threads -> SUBSET Events] /\ pending' = [pending EXCEPT ![t] = {}]
    BY DEF TypeOK, Return
  <2>2. {} \in SUBSET Events
    OBVIOUS
  <2> QED BY <2>1, <2>2
<1> QED BY <1>1, <1>2, <1>3

(* No event is called back by two threads: CallbackExclusion follows from the invariant. *)
LEMMA Exclusion == IInv => CallbackExclusion
<1> SUFFICES ASSUME IInv, NEW t \in Threads, NEW u \in Threads, Dispatching(t), Dispatching(u)
             PROVE  t = u
  BY DEF CallbackExclusion
<1>1. CASE t = EvtProc
  BY <1>1, ConstantsOK DEF IInv, CbOK, SyncOK, Threads
<1>2. CASE u = EvtProc
  BY <1>2, ConstantsOK DEF IInv, CbOK, SyncOK, Threads
<1>3. CASE t \in Users /\ u \in Users
  BY <1>3, ConstantsOK DEF IInv, LinkMutexOK, Holds
<1> QED BY <1>1, <1>2, <1>3 DEF Threads

(* The initial states satisfy the invariant. *)
LEMMA InitIInv == Init => IInv
<1> SUFFICES ASSUME Init PROVE IInv
  OBVIOUS
<1>1. TypeOK
  BY ConstantsOK DEF Init, TypeOK, NoOp, NoCb, NoEvent, CbRuns, ApiLabels, Results, MainStates
<1>2. LinkMutexOK /\ OpOK /\ CbOK /\ SyncOK
  BY ConstantsOK DEF Init, LinkMutexOK, Holds, HeldLabels, OpOK, PostLabels, SyncLabels, CbOK, SyncOK,
     Dispatching, NoCb
<1>3. CountersOK
  BY DEF Init, CountersOK, Uncounted, UncountedLabels, BeingCalledBack
<1>4. LinkStateTruthful
  BY DEF Init, LinkStateTruthful, InCallbacks, InSub, InUnsub, NoCb
<1>5. SuberListOK
  <2>1. {i \in Slots : Subers[i] # UnSubed} = {}
    BY DEF Init
  <2> QED BY <2>1, FS_EmptySet DEF Init, SuberListOK
<1>6. DeliveryOrder
  BY DEF Init, DeliveryOrder, InHand, Collecting, NoCb
<1> QED BY <1>1, <1>2, <1>3, <1>4, <1>5, <1>6 DEF IInv

-----------------------------------------------------------------------------
(* Every step keeps every variable in its type. *)
LEMMA NextTypeOK ==
    ASSUME IInv, NEW t \in Threads, CallApi(t) \/ ApiStep(t) \/ Dispatch(t) \/ EvtProcThread
    PROVE  TypeOK'
<1> USE DEF callVars, queueVars, suberVars, Goto
<1>0. TypeOK /\ OpOK /\ CbOK /\ DeliveryOrder
  BY DEF IInv
<1>1. CASE CallApi(t)
  <2>1. PICK o \in UserOps \cup CallbackOps :
           /\ op' = [op EXCEPT ![t] = o]
           /\ pc' = [pc EXCEPT ![t] = IF o.api \in {"force", "wakeup"} THEN o.api ELSE "lock"]
           /\ pending' = [pending EXCEPT ![t] = IF o.api = "force" THEN PostedAndUnprocessed ELSE {}]
    BY <1>1 DEF CallApi
  <2>2. o \in Ops
    BY <2>1, ConstantsOK DEF Ops
  <2>3. op' \in [Threads -> Ops \cup {NoOp}] /\ pc' \in [Threads -> ApiLabels]
    BY <1>0, <2>1, <2>2 DEF TypeOK, ApiLabels
  <2>4. pending' \in [Threads -> SUBSET Events]
    <3>1. PostedAndUnprocessed \subseteq Events
      BY <1>0, UnprocessedType DEF PostedAndUnprocessed
    <3> QED BY <1>0, <2>1, <3>1 DEF TypeOK
  <2>5. calls' \in [Threads -> 0 .. MaxCalls] /\ result' \in [Threads -> Results]
    BY <1>0, <1>1, ConstantsOK DEF TypeOK, CallApi, Results
  <2> QED BY <1>0, <1>1, <2>3, <2>4, <2>5 DEF TypeOK, CallApi
<1>2. CASE getLinkObjLocked(t)
  <2>1. op[t].api \in {"post", "sub", "unsub"}
    BY <1>0, <1>2 DEF OpOK, getLinkObjLocked, PostOps, SubOps
  <2>2. pc' \in [Threads -> ApiLabels]
    BY <1>0, <1>2, <2>1 DEF TypeOK, getLinkObjLocked, ApiLabels
  <2> QED BY <1>0, <1>2, <2>2 DEF TypeOK, getLinkObjLocked
<1>3. CASE asyncEnqueue(t)
  <2>1. Event(t) \in Events
    BY <1>0, <1>3, EventType DEF OpOK, asyncEnqueue, PostLabels
  <2>2. due' \in Seq(Events) /\ EvtDescQueue' \in Seq(Events)
    BY <1>0, <1>3, <2>1 DEF TypeOK, asyncEnqueue
  <2>3. Len(EvtDescQueue') <= Capacity
    BY <1>0, <1>3, <2>1, ConstantsOK DEF TypeOK, asyncEnqueue, IsFull
  <2> QED BY <1>0, <1>3, <2>2, <2>3 DEF TypeOK, asyncEnqueue, ApiLabels
<1>4. CASE syncDispatch(t)
  <2>1. Event(t) \in Events
    BY <1>0, <1>4, EventType DEF OpOK, syncDispatch, PostLabels
  <2>2. due' \in Seq(Events)
    BY <1>0, <1>4, <2>1 DEF TypeOK, syncDispatch
  <2>3. cb' \in [Threads -> CbRuns]
    BY <1>0, <1>4, <2>1, CbType DEF syncDispatch, CbRuns
  <2> QED BY <1>0, <1>4, <2>2, <2>3 DEF TypeOK, syncDispatch, ApiLabels
<1>5. CASE insertSuber(t)
  <2>1. op[t].who \in Consumers
    BY <1>0, <1>5 DEF OpOK, insertSuber, SubOps
  <2>2. Subers' \in [Slots -> Consumers \cup {UnSubed}]
    BY <1>0, <1>5, <2>1 DEF TypeOK, insertSuber, insertRefused
  <2>3. SuberNum' \in Nat
    BY <1>0, <1>5 DEF TypeOK, insertSuber, insertRefused
  <2>4. result' \in [Threads -> Results]
    BY <1>0, <1>5 DEF TypeOK, insertSuber, insertRefused, Results
  <2> QED BY <1>0, <1>5, <2>2, <2>3, <2>4 DEF TypeOK, insertSuber, ApiLabels
<1>6. CASE removeSuber(t)
  <2>1. Subers' \in [Slots -> Consumers \cup {UnSubed}]
    BY <1>0, <1>6 DEF TypeOK, removeSuber
  <2>2. SuberNum' \in Nat
    <3>1. IsSubed(op[t].who) => SuberNum > 0
      <4> SUFFICES ASSUME NEW i \in Slots, Subers[i] = op[t].who PROVE SuberNum > 0
        BY DEF IsSubed
      <4>1. Subers[i] # UnSubed
        BY <1>0, <1>6, ConstantsOK DEF OpOK, removeSuber, SubOps
      <4>2. IsFiniteSet({j \in Slots : Subers[j] # UnSubed})
        BY ONLY SlotsFinite, FS_Subset
      <4> QED BY <4>1, <4>2, FS_EmptySet, FS_CardinalityType DEF IInv, SuberListOK
    <3> QED BY <1>0, <1>6, <3>1 DEF TypeOK, removeSuber
  <2>3. result' \in [Threads -> Results]
    BY <1>0, <1>6 DEF TypeOK, removeSuber, Results
  <2> QED BY <1>0, <1>6, <2>1, <2>2, <2>3 DEF TypeOK, removeSuber, ApiLabels
<1>7. CASE enterSubOrUnsub(t) \/ leaveSubOrUnsub(t)
  BY <1>0, <1>7, TransferType DEF TypeOK, enterSubOrUnsub, leaveSubOrUnsub, ApiLabels
<1>8. CASE collectSubers(t)
  <2>1. due' \in Seq(Events)
    <3>1. due # <<>>
      BY <1>0, <1>8 DEF DeliveryOrder, InHand, Collecting, collectSubers, TypeOK
    <3> QED BY <1>0, <1>8, <3>1 DEF TypeOK, collectSubers
  <2>2. MatchingConsumers(cb[t].evt) \in SUBSET (Slots \X Consumers)
    BY <1>0 DEF MatchingConsumers, Matches, TypeOK
  <2>3. cb' \in [Threads -> CbRuns]
    BY <1>0, <1>8, <2>2, CbType DEF collectSubers
  <2> QED BY <1>0, <1>8, <2>1, <2>3 DEF TypeOK, collectSubers
<1>9. CASE enterCbProcEvt(t)
  <2>0. cb' = [cb EXCEPT ![t].at = "next"]
    BY <1>9 DEF enterCbProcEvt
  <2>1. cb' \in [Threads -> CbRuns]
    BY <1>0, <2>0, CbType
  <2> QED BY <1>0, <1>9, <2>1, TransferType DEF TypeOK, enterCbProcEvt
<1>10. CASE callCbProcEvt(t)
  <2>0. cb' = [cb EXCEPT ![t].at = "body"]
    BY <1>10 DEF callCbProcEvt
  <2>1. cb' \in [Threads -> CbRuns]
    BY <1>0, <2>0, CbType
  <2> QED BY <1>0, <1>10, <2>1 DEF TypeOK, callCbProcEvt
<1>11. CASE returnCbProcEvt(t)
  <2>1. cb[t].todo \ {First(cb[t].todo)} \in SUBSET (Slots \X Consumers)
    BY <1>0 DEF TypeOK, CbRuns
  <2>2. cb' \in [Threads -> CbRuns]
    BY <1>0, <1>11, <2>1, CbType DEF returnCbProcEvt
  <2> QED BY <1>0, <1>11, <2>2 DEF TypeOK, returnCbProcEvt
<1>12. CASE leaveCbProcEvt(t)
  <2>1. cb' \in [Threads -> CbRuns]
    BY <1>0, <1>12 DEF TypeOK, leaveCbProcEvt, CbRuns, NoCb
  <2>2. pc' \in [Threads -> ApiLabels] /\ result' \in [Threads -> Results]
    BY <1>0, <1>12 DEF TypeOK, leaveCbProcEvt, Finish, ApiLabels, Results
  <2> QED BY <1>0, <1>12, <2>1, <2>2, TransferType DEF TypeOK, leaveCbProcEvt
<1>13. CASE dequeueElementFirst
  <2>1. CASE EvtDescQueue = <<>>
    BY <1>0, <1>13, <2>1 DEF TypeOK, dequeueElementFirst
  <2>2. CASE EvtDescQueue # <<>>
    <3>1. Head(EvtDescQueue) \in Events /\ Tail(EvtDescQueue) \in Seq(Events)
          /\ Len(Tail(EvtDescQueue)) <= Capacity
      BY <1>0, <2>2, ConstantsOK, HeadTailProperties DEF TypeOK
    <3>2. cb' \in [Threads -> CbRuns]
      <4>1. [at |-> "collect", evt |-> Head(EvtDescQueue), todo |-> {}] \in CbRuns
        BY <3>1 DEF CbRuns
      <4>2. cb' = [cb EXCEPT ![EvtProc] = [at |-> "collect", evt |-> Head(EvtDescQueue), todo |-> {}]]
        BY <1>13, <2>2 DEF dequeueElementFirst
      <4>3. EvtProc \in Threads
        BY ConstantsOK
      <4> QED BY <1>0, <4>1, <4>2, <4>3, CbType
    <3> QED BY <1>0, <1>13, <2>2, <3>1, <3>2 DEF TypeOK, dequeueElementFirst
  <2> QED BY <2>1, <2>2
<1>14. CASE waitLinkObjNewEvtDesc \/ waitTimedOut \/ countCallbaced
  BY <1>0, <1>14 DEF TypeOK, waitLinkObjNewEvtDesc, waitTimedOut, countCallbaced
<1>15. CASE countQueued(t)
  <2>1. pc' \in [Threads -> ApiLabels] /\ result' \in [Threads -> Results]
    BY <1>0, <1>15 DEF TypeOK, countQueued, Finish, ApiLabels, Results
  <2> QED BY <1>0, <1>15, <2>1 DEF TypeOK, countQueued
<1>16. CASE putLinkObj(t)
  BY <1>0, <1>16, ReturnType DEF TypeOK, putLinkObj
<1>17. CASE forceSignal(t)
  <2>1. loop' \in {"wait", "waiting", "dequeue", "dispatch", "count"}
    BY <1>0, <1>17 DEF TypeOK, forceSignal, wakeupLinkObjThread
  <2>2. CASE pc[t] = "force"
    BY <1>0, <1>17, <2>1, <2>2 DEF TypeOK, forceSignal, ApiLabels
  <2>3. CASE pc[t] = "wakeup"
    BY <1>0, <1>17, <2>1, <2>3, ReturnType DEF TypeOK, forceSignal
  <2> QED BY <1>17, <2>2, <2>3 DEF forceSignal
<1>18. CASE forceReadQueued(t)
  BY <1>0, <1>18 DEF TypeOK, forceReadQueued, ApiLabels
<1>21. CASE forceReadCallbaced(t)
  <2>1. CASE seen[t] = CallbacedEvtNum
    BY <1>0, <1>21, <2>1, ReturnType DEF TypeOK, forceReadCallbaced
  <2>2. CASE seen[t] # CallbacedEvtNum
    BY <1>0, <1>21, <2>2 DEF TypeOK, forceReadCallbaced, ApiLabels
  <2> QED BY <2>1, <2>2
<1>19. CASE postRefused(t)
  <2>1. pc' \in [Threads -> ApiLabels] /\ result' \in [Threads -> Results]
    BY <1>0, <1>19 DEF TypeOK, postRefused, Finish, ApiLabels, Results
  <2> QED BY <1>0, <1>19, <2>1 DEF TypeOK, postRefused
<1>20. CASE postAdmitted(t)
  <2>1. pc' \in [Threads -> ApiLabels] /\ result' \in [Threads -> Results]
    BY <1>0, <1>20 DEF TypeOK, postAdmitted, Finish, ApiLabels, Results
  <2> QED BY <1>0, <1>20, <2>1 DEF TypeOK, postAdmitted
<1>22. CASE asyncFull(t)
  <2>1. pc' \in [Threads -> ApiLabels] /\ result' \in [Threads -> Results]
    BY <1>0, <1>22 DEF TypeOK, asyncFull, Finish, ApiLabels, Results
  <2> QED BY <1>0, <1>22, <2>1 DEF TypeOK, asyncFull
<1>23. CASE asyncTimeout(t)
  <2>1. pc' \in [Threads -> ApiLabels] /\ result' \in [Threads -> Results]
    BY <1>0, <1>23 DEF TypeOK, asyncTimeout, Finish, ApiLabels, Results
  <2> QED BY <1>0, <1>23, <2>1 DEF TypeOK, asyncTimeout
<1>24. CASE signalQueued(t)
  <2>1. pc' \in [Threads -> ApiLabels] /\ result' \in [Threads -> Results]
    BY <1>0, <1>24 DEF TypeOK, signalQueued, Finish, ApiLabels, Results
  <2>2. loop' \in {"wait", "waiting", "dequeue", "dispatch", "count"}
    BY <1>0, <1>24 DEF TypeOK, signalQueued, wakeupLinkObjThread
  <2> QED BY <1>0, <1>24, <2>1, <2>2 DEF TypeOK, signalQueued
<1>25. CASE syncBusy(t)
  <2>1. pc' \in [Threads -> ApiLabels] /\ result' \in [Threads -> Results]
    BY <1>0, <1>25 DEF TypeOK, syncBusy, Finish, ApiLabels, Results
  <2> QED BY <1>0, <1>25, <2>1 DEF TypeOK, syncBusy
<1>26. CASE syncWait(t)
  <2>1. pc' \in [Threads -> ApiLabels] /\ result' \in [Threads -> Results]
    BY <1>0, <1>26 DEF TypeOK, syncWait, Finish, ApiLabels, Results
  <2>2. loop' \in {"wait", "waiting", "dequeue", "dispatch", "count"}
    BY <1>0, <1>26 DEF TypeOK, syncWait, wakeupLinkObjThread
  <2> QED BY <1>0, <1>26, <2>1, <2>2 DEF TypeOK, syncWait
<1> QED BY <1>1, <1>2, <1>3, <1>4, <1>5, <1>6, <1>7, <1>8, <1>9, <1>10, <1>11, <1>12, <1>13, <1>14,
           <1>15, <1>16, <1>17, <1>18, <1>19, <1>20, <1>21, <1>22, <1>23, <1>24, <1>25, <1>26
        DEF ApiStep, Post, SubOrUnsub, ForceOrWakeup, Dispatch, EvtProcThread

(* Whoever held the link's mutex still does, or has let go of it. *)
LEMMA NextLinkMutexOK ==
    ASSUME IInv, NEW t \in Threads, CallApi(t) \/ ApiStep(t) \/ Dispatch(t) \/ EvtProcThread
    PROVE  LinkMutexOK'
<1> USE DEF Goto, Holds, Dispatching, HeldLabels
<1>0. /\ LinkMutexOK /\ CbOK /\ EvtProc \notin Users
      /\ pc \in [Threads -> ApiLabels] /\ cb \in [Threads -> CbRuns]
  BY ConstantsOK DEF IInv, TypeOK
<1>1. CASE CallApi(t)
  <2>1. LinkMutex' = LinkMutex /\ cb' = cb /\ \E l \in {"lock", "force", "wakeup"} : pc' = [pc EXCEPT ![t] = l]
    BY <1>1 DEF CallApi
  <2> QED BY <1>0, <2>1 DEF LinkMutexOK
<1>2. CASE getLinkObjLocked(t)
  BY <1>0, <1>2 DEF LinkMutexOK, getLinkObjLocked
<1>3. CASE putLinkObj(t)
  BY <1>0, <1>3 DEF LinkMutexOK, CbOK, putLinkObj, Return, ApiLabels
<1>4. CASE ForceOrWakeup(t)
  <2>1. LinkMutex' = LinkMutex /\ cb' = cb
    BY <1>4 DEF ForceOrWakeup, forceSignal, forceReadQueued, forceReadCallbaced
  <2>2. \E l \in {"idle", "force", "readQueued", "readCallbaced"} : pc' = [pc EXCEPT ![t] = l]
    BY <1>4 DEF ForceOrWakeup, forceSignal, forceReadQueued, forceReadCallbaced, Return
  <2> QED BY <1>0, <2>1, <2>2 DEF LinkMutexOK
<1>5. CASE Post(t)
  <2>1. LinkMutex' = LinkMutex /\ pc[t] \in HeldLabels
    BY <1>0, <1>5 DEF Post, postRefused, postAdmitted, asyncEnqueue, asyncFull, asyncTimeout, countQueued,
       signalQueued, syncDispatch, syncBusy, syncWait, ApiLabels
  <2>2. \A u \in Threads \ {t} : cb'[u] = cb[u] /\ pc'[u] = pc[u]
    BY <1>0, <1>5 DEF Post, postRefused, postAdmitted, asyncEnqueue, asyncFull, asyncTimeout, countQueued,
       signalQueued, syncDispatch, syncBusy, syncWait, Finish
  <2> QED BY <1>0, <2>1, <2>2 DEF LinkMutexOK
<1>6. CASE SubOrUnsub(t)
  <2>1. LinkMutex' = LinkMutex /\ cb' = cb /\ pc[t] \in HeldLabels
    BY <1>6 DEF SubOrUnsub, enterSubOrUnsub, insertSuber, removeSuber, leaveSubOrUnsub, ApiLabels
  <2>2. \A u \in Threads \ {t} : pc'[u] = pc[u]
    BY <1>0, <1>6 DEF SubOrUnsub, enterSubOrUnsub, insertSuber, removeSuber, leaveSubOrUnsub
  <2> QED BY <1>0, <2>1, <2>2 DEF LinkMutexOK
<1>7. CASE Dispatch(t)
  <2>1. LinkMutex' = LinkMutex /\ Dispatching(t)
    BY <1>7 DEF Dispatch, collectSubers, enterCbProcEvt, callCbProcEvt, returnCbProcEvt, leaveCbProcEvt
  <2>2. \A u \in Threads \ {t} : cb'[u] = cb[u] /\ pc'[u] = pc[u]
    BY <1>0, <1>7 DEF Dispatch, collectSubers, enterCbProcEvt, callCbProcEvt, returnCbProcEvt, leaveCbProcEvt, Finish
  <2>3. t = EvtProc => pc' = pc
    BY <1>7 DEF Dispatch, collectSubers, enterCbProcEvt, callCbProcEvt, returnCbProcEvt, leaveCbProcEvt
  <2> QED BY <1>0, <2>1, <2>2, <2>3 DEF LinkMutexOK, Threads
<1>8. CASE EvtProcThread
  <2>1. LinkMutex' = LinkMutex /\ pc' = pc /\ \A u \in Users : cb'[u] = cb[u]
    BY <1>0, <1>8 DEF EvtProcThread, waitLinkObjNewEvtDesc, waitTimedOut, dequeueElementFirst, countCallbaced, Threads
  <2> QED BY <1>0, <2>1 DEF LinkMutexOK
<1> QED BY <1>1, <1>2, <1>3, <1>4, <1>5, <1>6, <1>7, <1>8 DEF ApiStep

(* EvtProcThread never posts synchronously: it posts from a callback, and there it is forbidden. *)
LEMMA EvtProcPostsForbidden ==
    ASSUME IInv, pc[EvtProc] = "post"
    PROVE  State.Main = "BusyCbProcEvt"
<1>1. cb[EvtProc].at = "body" /\ EvtProc \in Threads
  BY ConstantsOK DEF IInv, CbOK
<1>2. InCallbacks
  BY <1>1 DEF InCallbacks
<1> QED BY <1>2 DEF IInv, LinkStateTruthful

(* A call stays where its arguments make sense. *)
LEMMA NextOpOK ==
    ASSUME IInv, NEW t \in Threads, CallApi(t) \/ ApiStep(t) \/ Dispatch(t) \/ EvtProcThread
    PROVE  OpOK'
<1> USE DEF Goto, PostLabels, SyncLabels, callVars
<1>0. /\ OpOK /\ CbOK /\ EvtProc \notin Users /\ Threads = Users \cup {EvtProc}
      /\ pc \in [Threads -> ApiLabels] /\ op \in [Threads -> Ops \cup {NoOp}]
      /\ calls \in [Threads -> 0 .. MaxCalls]
  BY ConstantsOK DEF IInv, TypeOK, Threads
<1>1. CASE CallApi(t)
  <2>1. PICK o \in UserOps \cup CallbackOps :
           /\ op' = [op EXCEPT ![t] = o]
           /\ pc' = [pc EXCEPT ![t] = IF o.api \in {"force", "wakeup"} THEN o.api ELSE "lock"]
    BY <1>1 DEF CallApi
  <2>2. o \in Ops /\ calls' = [calls EXCEPT ![t] = @ + 1]
    BY <1>1, <2>1, ConstantsOK DEF Ops, CallApi
  <2>3. pc'[t] = "lock" => op'[t] \in PostOps \cup SubOps
    BY <1>0, <2>1, <2>2 DEF Ops
  <2>4. pc'[t] \in {"lock", "force", "wakeup"} /\ calls'[t] > 0
    BY <1>0, <2>1, <2>2, ConstantsOK
  <2>5. \A u \in Threads \ {t} : pc'[u] = pc[u] /\ op'[u] = op[u] /\ calls'[u] = calls[u]
    BY <1>0, <2>1, <2>2
  <2> QED BY <1>0, <2>3, <2>4, <2>5 DEF OpOK
<1>2. CASE getLinkObjLocked(t)
  <2>1. op[t] \in PostOps \cup SubOps
    BY <1>0, <1>2 DEF OpOK, getLinkObjLocked
  <2>2. op[t].api = "post" => op[t] \in PostOps
    BY <2>1 DEF SubOps
  <2>3. op[t].api \in {"sub", "unsub"} => op[t] \in SubOps
    BY <2>1 DEF PostOps
  <2>4. op[t].api \in {"post", "sub", "unsub"}
    BY <2>1 DEF PostOps, SubOps
  <2> QED BY <1>0, <1>2, <2>2, <2>3, <2>4 DEF OpOK, getLinkObjLocked
<1>3. CASE putLinkObj(t)
  BY <1>0, <1>3 DEF OpOK, putLinkObj, Return
<1>4. CASE ForceOrWakeup(t)
  <2>1. calls' = calls /\ pc[t] # "idle" /\ \A u \in Threads \ {t} : op'[u] = op[u]
    BY <1>0, <1>4 DEF ForceOrWakeup, forceSignal, forceReadQueued, forceReadCallbaced, Return
  <2>2. \E l \in {"idle", "force", "readQueued", "readCallbaced"} : pc' = [pc EXCEPT ![t] = l]
    BY <1>4 DEF ForceOrWakeup, forceSignal, forceReadQueued, forceReadCallbaced, Return
  <2> QED BY <1>0, <2>1, <2>2 DEF OpOK
<1>5. CASE postAdmitted(t)
  <2>1. op[t].sync => t \in Users
    BY <1>0, <1>5, EvtProcPostsForbidden DEF postAdmitted, Forbidden
  <2> QED BY <1>0, <1>5, <2>1 DEF OpOK, postAdmitted
<1>6. CASE postRefused(t) \/ asyncEnqueue(t) \/ asyncFull(t) \/ asyncTimeout(t) \/ countQueued(t) \/ signalQueued(t)
  <2>1. op' = op /\ calls' = calls /\ pc[t] \in PostLabels
    BY <1>6 DEF postRefused, asyncEnqueue, asyncFull, asyncTimeout, countQueued, signalQueued
  <2>2. \E l \in {"unlock", "waitSpace", "fastCount", "fastSignal", "slowSignal", "slowCount"} :
           pc' = [pc EXCEPT ![t] = l]
    BY <1>6 DEF postRefused, asyncEnqueue, asyncFull, asyncTimeout, countQueued, signalQueued, Finish
  <2> QED BY <1>0, <2>1, <2>2 DEF OpOK
<1>7. CASE syncDispatch(t) \/ syncBusy(t) \/ syncWait(t)
  <2>1. op' = op /\ calls' = calls /\ pc[t] \in {"sync", "syncWait"}
    BY <1>7 DEF syncDispatch, syncBusy, syncWait
  <2>2. pc' = pc \/ \E l \in {"unlock", "syncWait", "syncCb"} : pc' = [pc EXCEPT ![t] = l]
    BY <1>7 DEF syncDispatch, syncBusy, syncWait, Finish
  <2> QED BY <1>0, <2>1, <2>2 DEF OpOK
<1>8. CASE SubOrUnsub(t)
  <2>1. op' = op /\ calls' = calls /\ pc[t] # "idle"
    BY <1>8 DEF SubOrUnsub, enterSubOrUnsub, insertSuber, removeSuber, leaveSubOrUnsub
  <2>2. \/ pc[t] \in {"sub", "unsub"} /\ \E l \in {"insert", "remove"} : pc' = [pc EXCEPT ![t] = l]
        \/ \E l \in {"leaveSub", "leaveUnsub", "unlock"} : pc' = [pc EXCEPT ![t] = l]
    BY <1>8 DEF SubOrUnsub, enterSubOrUnsub, insertSuber, removeSuber, leaveSubOrUnsub
  <2> QED BY <1>0, <2>1, <2>2 DEF OpOK
<1>9. CASE Dispatch(t)
  <2>1. op' = op /\ calls' = calls
    BY <1>9 DEF Dispatch, collectSubers, enterCbProcEvt, callCbProcEvt, returnCbProcEvt, leaveCbProcEvt
  <2>2. pc' = pc \/ (t \in Users /\ Dispatching(t) /\ pc' = [pc EXCEPT ![t] = "unlock"])
    BY <1>0, <1>9 DEF Dispatch, collectSubers, enterCbProcEvt, callCbProcEvt, returnCbProcEvt, leaveCbProcEvt,
       Finish, Dispatching
  <2> QED BY <1>0, <2>1, <2>2 DEF OpOK, CbOK
<1>10. CASE EvtProcThread
  BY <1>0, <1>10 DEF OpOK, EvtProcThread, waitLinkObjNewEvtDesc, waitTimedOut, dequeueElementFirst, countCallbaced
<1> QED BY <1>1, <1>2, <1>3, <1>4, <1>5, <1>6, <1>7, <1>8, <1>9, <1>10 DEF ApiStep, Post

(* Where the threads that call back are, and what they call back, fits together after every step. *)
LEMMA NextCbOK ==
    ASSUME IInv, NEW t \in Threads, CallApi(t) \/ ApiStep(t) \/ Dispatch(t) \/ EvtProcThread
    PROVE  CbOK'
<1> USE DEF Goto, Dispatching
<1>0. /\ CbOK /\ OpOK /\ EvtProc \notin Users /\ Threads = Users \cup {EvtProc}
      /\ pc \in [Threads -> ApiLabels] /\ cb \in [Threads -> CbRuns]
  BY ConstantsOK DEF IInv, TypeOK, Threads
<1>1. CASE CallApi(t)
  <2>1. PICK o \in UserOps \cup CallbackOps :
           /\ MayCall(t, o)
           /\ pc' = [pc EXCEPT ![t] = IF o.api \in {"force", "wakeup"} THEN o.api ELSE "lock"]
    BY <1>1 DEF CallApi
  <2>2. CASE t \in Users /\ cb[t].at = "none"
    BY <1>0, <1>1, <2>1, <2>2 DEF CbOK, CallApi, callVars
  <2>3. CASE cb[t].at = "body" /\ pc[t] \in {"idle", "syncCb"} /\ o \in CallbackOps
    <3>1. o.api \notin {"force", "wakeup"}
      BY <2>3, ConstantsOK DEF PostOps, SubOps
    <3> QED BY <1>0, <1>1, <2>1, <2>3, <3>1 DEF CbOK, CallApi
  <2> QED BY <2>1, <2>2, <2>3 DEF MayCall
<1>2. CASE getLinkObjLocked(t)
  <2>1. ~(t \in Users /\ Dispatching(t))
    BY <1>2 DEF IInv, LinkMutexOK, Holds, getLinkObjLocked
  <2>2. op[t].api # "syncCb"
    BY <1>0, <1>2 DEF OpOK, getLinkObjLocked, PostOps, SubOps
  <2> QED BY <1>0, <1>2, <2>1, <2>2 DEF CbOK, getLinkObjLocked
<1>3. CASE putLinkObj(t) \/ ForceOrWakeup(t)
  <2>1. cb' = cb /\ pc[t] \notin {"idle", "syncCb", "lock"}
    BY <1>3 DEF putLinkObj, ForceOrWakeup, forceSignal, forceReadQueued, forceReadCallbaced
  <2>2. \E l \in {"idle", "force", "readQueued", "readCallbaced"} : pc' = [pc EXCEPT ![t] = l]
    BY <1>3 DEF putLinkObj, ForceOrWakeup, forceSignal, forceReadQueued, forceReadCallbaced, Return
  <2>3. loop' = "dispatch" <=> loop = "dispatch"
    BY <1>3 DEF putLinkObj, ForceOrWakeup, forceSignal, forceReadQueued, forceReadCallbaced, wakeupLinkObjThread
  <2> QED BY <1>0, <2>1, <2>2, <2>3 DEF CbOK
<1>4. CASE syncDispatch(t)
  <2>1. Event(t) \in Events /\ t \in Users
    BY <1>0, <1>4, EventType DEF IInv, OpOK, syncDispatch, PostLabels, SyncLabels
  <2> QED BY <1>0, <1>4, <2>1 DEF CbOK, syncDispatch
<1>5. CASE Post(t) /\ ~syncDispatch(t)
  <2> USE <1>5 DEF Post, postRefused, postAdmitted, asyncEnqueue, asyncFull, asyncTimeout, countQueued,
        signalQueued, syncBusy, syncWait
  <2>1. cb' = cb /\ pc[t] \notin {"idle", "syncCb", "lock"}
    OBVIOUS
  <2>2. pc' = pc \/ \E l \in PostLabels \cup {"unlock"} : l # "syncCb" /\ pc' = [pc EXCEPT ![t] = l]
    BY DEF Finish, PostLabels
  <2>3. loop' = "dispatch" <=> loop = "dispatch"
    BY DEF wakeupLinkObjThread
  <2> QED BY ONLY <1>0, <2>1, <2>2, <2>3 DEF CbOK, PostLabels, Dispatching
<1>6. CASE SubOrUnsub(t)
  <2>1. cb' = cb /\ loop' = loop /\ pc[t] \notin {"idle", "syncCb", "lock"}
    BY <1>6 DEF SubOrUnsub, enterSubOrUnsub, insertSuber, removeSuber, leaveSubOrUnsub
  <2>2. \E l \in {"insert", "remove", "leaveSub", "leaveUnsub", "unlock"} : pc' = [pc EXCEPT ![t] = l]
    BY <1>6 DEF SubOrUnsub, enterSubOrUnsub, insertSuber, removeSuber, leaveSubOrUnsub
  <2> QED BY <1>0, <2>1, <2>2 DEF CbOK
<1>7. CASE leaveCbProcEvt(t)
  <2>1. CASE t = EvtProc
    <3>1. pc[EvtProc] = "idle" /\ pc' = pc /\ loop' = "count"
      BY <1>0, <1>7, <2>1 DEF CbOK, leaveCbProcEvt
    <3>2. cb' = [cb EXCEPT ![EvtProc] = NoCb] /\ NoCb.at = "none"
      BY <1>7, <2>1 DEF leaveCbProcEvt, NoCb
    <3> QED BY <1>0, <3>1, <3>2 DEF CbOK
  <2>2. CASE t # EvtProc
    <3>1. pc' = [pc EXCEPT ![t] = "unlock"] /\ loop' = loop
      BY <1>7, <2>2 DEF leaveCbProcEvt, Finish
    <3>2. cb' = [cb EXCEPT ![t] = NoCb] /\ NoCb.at = "none"
      BY <1>7 DEF leaveCbProcEvt, NoCb
    <3> QED BY <1>0, <2>2, <3>1, <3>2 DEF CbOK
  <2> QED BY <2>1, <2>2
<1>8. CASE Dispatch(t) /\ ~leaveCbProcEvt(t)
  <2> USE <1>8 DEF Dispatch, collectSubers, enterCbProcEvt, callCbProcEvt, returnCbProcEvt
  <2>1. pc' = pc /\ loop' = loop /\ Dispatching(t)
    OBVIOUS
  <2>2. cb'[t].at \in {"enter", "next", "body"} /\ cb'[t].evt = cb[t].evt
    <3>1. \E at \in {"enter", "next", "body"} : \/ \E todo : cb' = [cb EXCEPT ![t].at = at, ![t].todo = todo]
                                                \/ cb' = [cb EXCEPT ![t].at = at]
      OBVIOUS
    <3> QED BY ONLY <1>0, <3>1 DEF CbRuns
  <2>3. \A u \in Threads \ {t} : cb'[u] = cb[u]
    BY <1>0
  <2>4. pc[t] = "idle" \/ t \in Users
    BY <1>0 DEF CbOK, OpOK, SyncLabels
  <2> QED BY ONLY <1>0, <2>1, <2>2, <2>3, <2>4 DEF CbOK, Dispatching
<1>9. CASE dequeueElementFirst
  <2>1. CASE EvtDescQueue = <<>>
    BY <1>0, <1>9, <2>1 DEF CbOK, dequeueElementFirst
  <2>2. CASE EvtDescQueue # <<>>
    <3>1. Head(EvtDescQueue) \in Events
      BY <2>2, HeadTailProperties DEF IInv, TypeOK
    <3>2. ~Dispatching(EvtProc) /\ pc[EvtProc] = "idle" /\ pc' = pc /\ loop' = "dispatch"
      BY <1>0, <1>9, <2>2 DEF CbOK, dequeueElementFirst
    <3>3. cb' = [cb EXCEPT ![EvtProc] = [at |-> "collect", evt |-> Head(EvtDescQueue), todo |-> {}]]
      BY <1>9, <2>2 DEF dequeueElementFirst
    <3> QED BY <1>0, <3>1, <3>2, <3>3 DEF CbOK
  <2> QED BY <2>1, <2>2
<1>10. CASE waitLinkObjNewEvtDesc \/ waitTimedOut \/ countCallbaced
  BY <1>0, <1>10 DEF CbOK, waitLinkObjNewEvtDesc, waitTimedOut, countCallbaced
<1> QED BY <1>1, <1>2, <1>3, <1>4, <1>5, <1>6, <1>7, <1>8, <1>9, <1>10 DEF ApiStep, EvtProcThread

(* Only one thread at a time has an event enqueued and not yet counted. *)
LEMMA UncountedAlone ==
    ASSUME IInv, NEW t \in Threads, pc[t] \in HeldLabels
    PROVE  Uncounted = IF pc[t] \in UncountedLabels THEN 1 ELSE 0
<1>1. LinkMutex = {t}
  BY DEF IInv, LinkMutexOK, Holds
<1>2. \A u \in Threads : pc[u] \in UncountedLabels => LinkMutex = {u}
  BY DEF IInv, LinkMutexOK, Holds, HeldLabels, UncountedLabels, ApiLabels
<1> QED BY <1>1, <1>2 DEF Uncounted

(* A step that neither enters nor leaves the part of a post that is not counted. *)
LEMMA UncountedSame ==
    ASSUME NEW t \in Threads, pc \in [Threads -> ApiLabels], NEW l, pc' = [pc EXCEPT ![t] = l],
           l \in UncountedLabels <=> pc[t] \in UncountedLabels
    PROVE  Uncounted' = Uncounted
<1>1. \A u \in Threads : pc'[u] \in UncountedLabels <=> pc[u] \in UncountedLabels
  OBVIOUS
<1> QED BY <1>1 DEF Uncounted

(* The two counters account for every event, in every step of a post and of EvtProcThread. *)
LEMMA NextCountersOK ==
    ASSUME IInv, NEW t \in Threads, CallApi(t) \/ ApiStep(t) \/ Dispatch(t) \/ EvtProcThread
    PROVE  CountersOK'
<1> USE DEF Goto, queueVars
<1>0. /\ CountersOK /\ CbOK /\ pc \in [Threads -> ApiLabels] /\ EvtDescQueue \in Seq(Events)
      /\ QueuedEvtNum \in Nat /\ CallbacedEvtNum \in Nat
      /\ Uncounted \in {0, 1} /\ BeingCalledBack \in {0, 1}
  BY DEF IInv, TypeOK, Uncounted, BeingCalledBack
<1>1. CASE asyncEnqueue(t)
  <2>1. Uncounted = 0
    BY <1>1, UncountedAlone DEF asyncEnqueue, HeldLabels, ApiLabels, UncountedLabels
  <2>2. Uncounted' = 1
    BY <1>0, <1>1 DEF asyncEnqueue, Uncounted, UncountedLabels
  <2>3. Len(EvtDescQueue') = Len(EvtDescQueue) + 1 /\ QueuedEvtNum' = QueuedEvtNum
        /\ CallbacedEvtNum' = CallbacedEvtNum /\ BeingCalledBack' = BeingCalledBack
    BY <1>0, <1>1 DEF asyncEnqueue, BeingCalledBack
  <2> QED BY <1>0, <2>1, <2>2, <2>3 DEF CountersOK
<1>2. CASE countQueued(t)
  <2>1. pc[t] \in UncountedLabels /\ pc[t] \in HeldLabels
    BY <1>2 DEF countQueued, HeldLabels, ApiLabels, UncountedLabels
  <2>2. Uncounted = 1 /\ \A u \in Threads \ {t} : pc[u] \notin UncountedLabels
    <3>1. LinkMutex = {t}
      BY <2>1 DEF IInv, LinkMutexOK, Holds
    <3>2. \A u \in Threads : pc[u] \in UncountedLabels => LinkMutex = {u}
      BY DEF IInv, LinkMutexOK, Holds, HeldLabels, UncountedLabels, ApiLabels
    <3> QED BY <2>1, <3>1, <3>2 DEF Uncounted
  <2>3. Uncounted' = 0
    <3>1. pc'[t] \in {"fastSignal", "unlock"} /\ \A u \in Threads \ {t} : pc'[u] = pc[u]
      BY <1>0, <1>2 DEF countQueued, Finish
    <3> QED BY <2>2, <3>1 DEF Uncounted, UncountedLabels
  <2>4. QueuedEvtNum' = QueuedEvtNum + 1 /\ CallbacedEvtNum' = CallbacedEvtNum
        /\ EvtDescQueue' = EvtDescQueue /\ BeingCalledBack' = BeingCalledBack
    BY <1>2 DEF countQueued, BeingCalledBack
  <2> QED BY <1>0, <2>2, <2>3, <2>4 DEF CountersOK
<1>3. CASE dequeueElementFirst
  <2>1. Uncounted' = Uncounted /\ QueuedEvtNum' = QueuedEvtNum /\ CallbacedEvtNum' = CallbacedEvtNum
    BY <1>3 DEF dequeueElementFirst, Uncounted
  <2>2. BeingCalledBack' + Len(EvtDescQueue') = BeingCalledBack + Len(EvtDescQueue)
    <3>1. CASE EvtDescQueue = <<>>
      BY <1>3, <3>1 DEF dequeueElementFirst, BeingCalledBack
    <3>2. CASE EvtDescQueue # <<>>
      <4>1. Len(Tail(EvtDescQueue)) = Len(EvtDescQueue) - 1
        BY <1>0, <3>2, HeadTailProperties
      <4>2. BeingCalledBack = 0 /\ BeingCalledBack' = 1 /\ EvtDescQueue' = Tail(EvtDescQueue)
        BY <1>3, <3>2 DEF dequeueElementFirst, BeingCalledBack
      <4> QED BY <1>0, <4>1, <4>2
    <3> QED BY <3>1, <3>2
  <2>3. BeingCalledBack' \in {0, 1} /\ EvtDescQueue' \in Seq(Events)
    BY <1>0, <1>3, HeadTailProperties DEF dequeueElementFirst, BeingCalledBack
  <2> QED BY ONLY <1>0, <2>1, <2>2, <2>3 DEF CountersOK
<1>4. CASE countCallbaced
  <2>1. Uncounted' = Uncounted /\ QueuedEvtNum' = QueuedEvtNum /\ CallbacedEvtNum' = CallbacedEvtNum + 1
        /\ EvtDescQueue' = EvtDescQueue /\ BeingCalledBack = 1 /\ BeingCalledBack' = 0
    BY <1>4 DEF countCallbaced, Uncounted, BeingCalledBack
  <2> QED BY <1>0, <2>1 DEF CountersOK
<1>5. CASE leaveCbProcEvt(t)
  <2>1. queueVars' = queueVars /\ BeingCalledBack' = BeingCalledBack
    BY <1>0, <1>5 DEF leaveCbProcEvt, BeingCalledBack, CbOK, Dispatching
  <2>2. pc' = pc \/ (pc[t] \in {"syncCb", "lock"} /\ pc' = [pc EXCEPT ![t] = "unlock"])
    BY <1>0, <1>5 DEF leaveCbProcEvt, CbOK, Finish, Threads, Dispatching
  <2>3. Uncounted' = Uncounted
    <3>1. CASE pc' = pc
      BY <3>1 DEF Uncounted
    <3>2. CASE pc' # pc
      BY <1>0, <2>2, <3>2, UncountedSame DEF UncountedLabels
    <3> QED BY <3>1, <3>2
  <2> QED BY <1>0, <2>1, <2>3 DEF CountersOK
<1>6. CASE /\ CallApi(t) \/ ApiStep(t) \/ Dispatch(t) \/ waitLinkObjNewEvtDesc \/ waitTimedOut
           /\ ~asyncEnqueue(t) /\ ~countQueued(t) /\ ~leaveCbProcEvt(t)
  <2> USE <1>6 DEF CallApi, ApiStep, getLinkObjLocked, putLinkObj, Post, postRefused, postAdmitted, asyncFull,
        asyncTimeout, signalQueued, syncDispatch, syncBusy, syncWait, SubOrUnsub, enterSubOrUnsub, insertSuber,
        removeSuber, leaveSubOrUnsub, ForceOrWakeup, forceSignal, forceReadQueued, forceReadCallbaced,
        Dispatch, collectSubers, enterCbProcEvt, callCbProcEvt, returnCbProcEvt, waitLinkObjNewEvtDesc, waitTimedOut
  <2>1. queueVars' = queueVars
    OBVIOUS
  <2>2. BeingCalledBack' = BeingCalledBack
    BY DEF BeingCalledBack, wakeupLinkObjThread
  <2>3. Uncounted' = Uncounted
    <3>1. \/ pc' = pc
          \/ \E l : pc' = [pc EXCEPT ![t] = l] /\ (l \in UncountedLabels <=> pc[t] \in UncountedLabels)
      <4>1. CASE CallApi(t)
        <5>1. pc[t] \in {"idle", "syncCb"} /\ \E l \in {"force", "wakeup", "lock"} : pc' = [pc EXCEPT ![t] = l]
          BY ONLY <4>1 DEF CallApi, MayCall, Goto
        <5> QED BY ONLY <5>1 DEF UncountedLabels
      <4>2. CASE getLinkObjLocked(t)
        <5>1. op[t].api \in {"post", "sub", "unsub"}
          BY ONLY IInv, <4>2 DEF IInv, OpOK, PostOps, SubOps, getLinkObjLocked
        <5> QED BY ONLY <4>2, <5>1 DEF UncountedLabels, getLinkObjLocked, Goto
      <4>3. CASE putLinkObj(t) \/ ForceOrWakeup(t)
        BY ONLY <4>3 DEF UncountedLabels, putLinkObj, ForceOrWakeup, forceSignal, forceReadQueued,
           forceReadCallbaced, Return, Goto
      <4>4. CASE Post(t)
        BY <4>4 DEF Finish, UncountedLabels
      <4>5. CASE SubOrUnsub(t)
        BY ONLY <4>5 DEF UncountedLabels, SubOrUnsub, enterSubOrUnsub, insertSuber, removeSuber,
           leaveSubOrUnsub, Goto
      <4>6. CASE Dispatch(t) \/ waitLinkObjNewEvtDesc \/ waitTimedOut
        BY <4>6
      <4> QED BY ONLY <1>6, <4>1, <4>2, <4>3, <4>4, <4>5, <4>6 DEF ApiStep
    <3>2. CASE pc' = pc
      BY ONLY <3>2 DEF Uncounted
    <3> QED BY ONLY <1>0, <3>1, <3>2, UncountedSame
  <2> QED BY ONLY <1>0, <2>1, <2>2, <2>3 DEF CountersOK, queueVars
<1> QED BY <1>1, <1>2, <1>3, <1>4, <1>5, <1>6 DEF ApiStep, Post, Dispatch, EvtProcThread

(* A synchronous post that finds the counters equal finds nothing queued and nobody calling back. *)
LEMMA SyncFindsNothing ==
    ASSUME IInv, NEW t \in Threads, syncDispatch(t)
    PROVE  /\ EvtDescQueue = <<>> /\ loop \notin {"dispatch", "count"}
           /\ \A u \in Threads : ~Dispatching(u)
<1>1. Uncounted = 0 /\ QueuedEvtNum = CallbacedEvtNum /\ LinkMutex = {t}
  BY UncountedAlone DEF syncDispatch, hasEvtDescInLinkObj, HeldLabels, ApiLabels, UncountedLabels, IInv,
     LinkMutexOK, Holds
<1>2. BeingCalledBack + Len(EvtDescQueue) = 0
  BY <1>1 DEF IInv, CountersOK, TypeOK, BeingCalledBack
<1>3. BeingCalledBack = 0 /\ EvtDescQueue = <<>>
  BY <1>2, EmptySeq DEF BeingCalledBack, IInv, TypeOK
<1>4. \A u \in Users : Dispatching(u) => u = t /\ pc[u] \in {"syncCb", "lock"}
  BY <1>1 DEF IInv, LinkMutexOK, Holds, CbOK, Threads
<1>5. pc[t] \notin {"syncCb", "lock"}
  BY DEF syncDispatch
<1> QED BY <1>3, <1>4, <1>5 DEF BeingCalledBack, IInv, CbOK, Threads

(* Nobody queues an event while a synchronous post calls back, and EvtProcThread takes none out. *)
LEMMA NextSyncOK ==
    ASSUME IInv, NEW t \in Threads, CallApi(t) \/ ApiStep(t) \/ Dispatch(t) \/ EvtProcThread
    PROVE  SyncOK'
<1> USE DEF Goto, queueVars, Dispatching
<1>0. /\ SyncOK /\ CbOK /\ LinkMutexOK /\ cb \in [Threads -> CbRuns] /\ EvtDescQueue \in Seq(Events)
      /\ EvtProc \notin Users /\ Threads = Users \cup {EvtProc}
  BY ConstantsOK DEF IInv, TypeOK, Threads
<1>1. CASE asyncEnqueue(t)
  <2>1. \A u \in Users : ~Dispatching(u)
    <3>1. LinkMutex = {t} /\ pc[t] \notin {"syncCb", "lock"}
      BY <1>0, <1>1 DEF LinkMutexOK, Holds, HeldLabels, ApiLabels, asyncEnqueue
    <3>2. \A u \in Users : Dispatching(u) => LinkMutex = {u} /\ pc[u] \in {"syncCb", "lock"}
      BY <1>0 DEF LinkMutexOK, Holds, CbOK
    <3> QED BY <3>1, <3>2
  <2> QED BY <1>1, <2>1 DEF SyncOK, asyncEnqueue
<1>2. CASE syncDispatch(t)
  BY <1>2, SyncFindsNothing DEF SyncOK, syncDispatch
<1>3. CASE leaveCbProcEvt(t)
  <2>1. EvtDescQueue' = EvtDescQueue /\ \A u \in Users : Dispatching(u)' => Dispatching(u)
    BY <1>0, <1>3 DEF leaveCbProcEvt, NoCb
  <2>2. loop' = loop \/ (loop = "dispatch" /\ loop' = "count")
    BY <1>0, <1>3 DEF leaveCbProcEvt, CbOK
  <2> QED BY <1>0, <2>1, <2>2 DEF SyncOK
<1>4. CASE EvtProcThread
  <2>1. \A u \in Users : cb'[u] = cb[u]
    BY <1>0, <1>4 DEF EvtProcThread, waitLinkObjNewEvtDesc, waitTimedOut, dequeueElementFirst, countCallbaced
  <2>2. EvtDescQueue = <<>> => EvtDescQueue' = <<>> /\ loop' # "dispatch" /\ loop' # "count"
    BY <1>4 DEF EvtProcThread, waitLinkObjNewEvtDesc, waitTimedOut, dequeueElementFirst, countCallbaced
  <2> QED BY <1>0, <2>1, <2>2 DEF SyncOK
<1>5. CASE /\ CallApi(t) \/ ApiStep(t) \/ Dispatch(t)
           /\ ~asyncEnqueue(t) /\ ~syncDispatch(t) /\ ~leaveCbProcEvt(t)
  <2> USE <1>5 DEF CallApi, ApiStep, getLinkObjLocked, putLinkObj, Post, postRefused, postAdmitted, asyncFull,
        asyncTimeout, countQueued, signalQueued, syncBusy, syncWait, SubOrUnsub, enterSubOrUnsub, insertSuber,
        removeSuber, leaveSubOrUnsub, ForceOrWakeup, forceSignal, forceReadQueued, forceReadCallbaced,
        Dispatch, collectSubers, enterCbProcEvt, callCbProcEvt, returnCbProcEvt
  <2>1. EvtDescQueue' = EvtDescQueue
    OBVIOUS
  <2>2. loop' = loop \/ loop' = "dequeue"
    BY DEF wakeupLinkObjThread
  <2>3. \A u \in Users : Dispatching(u)' => Dispatching(u)
    <3>1. CASE Dispatch(t)
      BY <1>0, <3>1
    <3>2. CASE ~Dispatch(t)
      BY <3>2
    <3> QED BY <3>1, <3>2
  <2> QED BY ONLY <1>0, <2>1, <2>2, <2>3 DEF SyncOK
<1> QED BY <1>1, <1>2, <1>3, <1>4, <1>5 DEF ApiStep, Post, Dispatch

-----------------------------------------------------------------------------
(* What transferLinkObjStateByBehavior does to each flag, and how Main follows from the flags. *)
LEMMA TransferEffect ==
    ASSUME TypeOK, NEW flag \in {"IsInCbProc", "IsInSub", "IsInUnsub"}, NEW value \in BOOLEAN,
           Transfer(flag, value)
    PROVE  /\ State'.IsInCbProc = IF flag = "IsInCbProc" THEN value ELSE State.IsInCbProc
           /\ State'.IsInSub = IF flag = "IsInSub" THEN value ELSE State.IsInSub
           /\ State'.IsInUnsub = IF flag = "IsInUnsub" THEN value ELSE State.IsInUnsub
           /\ State'.Main = CASE State'.IsInCbProc -> "BusyCbProcEvt"
                              [] ~State'.IsInCbProc /\ State'.IsInSub -> "BusySubEvt"
                              [] ~State'.IsInCbProc /\ ~State'.IsInSub /\ State'.IsInUnsub -> "BusyUnsubEvt"
                              [] OTHER -> "Ready"
BY DEF TypeOK, Transfer

(* Nobody else is inserting or removing while a thread is. *)
LEMMA SubAlone ==
    ASSUME IInv, NEW t \in Threads, NEW u \in Threads,
           pc[t] \in HeldLabels, pc[u] \in {"insert", "leaveSub", "remove", "leaveUnsub"}
    PROVE  u = t
BY DEF IInv, LinkMutexOK, Holds, HeldLabels, ApiLabels

(* After every step the link's state is what the threads are doing. *)
LEMMA NextLinkStateTruthful ==
    ASSUME IInv, NEW t \in Threads, CallApi(t) \/ ApiStep(t) \/ Dispatch(t) \/ EvtProcThread
    PROVE  LinkStateTruthful'
<1> USE DEF Goto, Dispatching
<1>0. /\ TypeOK /\ CbOK /\ OpOK /\ LinkStateTruthful
      /\ EvtProc \notin Users /\ Threads = Users \cup {EvtProc}
      /\ pc \in [Threads -> ApiLabels] /\ cb \in [Threads -> CbRuns]
  BY ConstantsOK DEF IInv, TypeOK, Threads
<1>1. ASSUME State' = State, InCallbacks' = InCallbacks, InSub' = InSub, InUnsub' = InUnsub
      PROVE  LinkStateTruthful'
  BY <1>0, <1>1 DEF LinkStateTruthful
<1>2. CASE enterCbProcEvt(t)
  <2>1. InCallbacks' = TRUE
    BY <1>0, <1>2 DEF enterCbProcEvt, InCallbacks, CbRuns
  <2>2. InSub' = InSub /\ InUnsub' = InUnsub
    BY <1>2 DEF enterCbProcEvt, InSub, InUnsub
  <2>3. Transfer("IsInCbProc", TRUE)
    BY <1>2 DEF enterCbProcEvt
  <2> QED BY ONLY <1>0, <2>1, <2>2, <2>3, TransferEffect DEF LinkStateTruthful
<1>3. CASE leaveCbProcEvt(t)
  <2>1. \A u \in Threads \ {t} : cb[u].at = "none"
    BY <1>3, Exclusion DEF leaveCbProcEvt, CallbackExclusion
  <2>2. InCallbacks' = FALSE
    BY <1>0, <1>3, <2>1 DEF leaveCbProcEvt, InCallbacks, NoCb
  <2>3. InSub' = InSub /\ InUnsub' = InUnsub
    <3>1. pc' = pc \/ (pc[t] \in {"syncCb", "lock"} /\ pc' = [pc EXCEPT ![t] = "unlock"])
      BY <1>0, <1>3 DEF leaveCbProcEvt, CbOK, Finish
    <3> QED BY <1>0, <3>1 DEF InSub, InUnsub
  <2>4. Transfer("IsInCbProc", FALSE)
    BY <1>3 DEF leaveCbProcEvt
  <2> QED BY ONLY <1>0, <2>2, <2>3, <2>4, TransferEffect DEF LinkStateTruthful
<1>4. CASE enterSubOrUnsub(t)
  <2>1. InCallbacks' = InCallbacks
    BY <1>4 DEF enterSubOrUnsub, InCallbacks
  <2>2. CASE pc[t] = "sub"
    <3>1. Transfer("IsInSub", TRUE) /\ pc' = [pc EXCEPT ![t] = "insert"]
      BY <1>4, <2>2 DEF enterSubOrUnsub
    <3>2. InSub' = TRUE /\ InUnsub' = InUnsub
      BY <1>0, <2>2, <3>1 DEF InSub, InUnsub
    <3> QED BY ONLY <1>0, <2>1, <3>1, <3>2, TransferEffect DEF LinkStateTruthful
  <2>3. CASE pc[t] = "unsub"
    <3>1. Transfer("IsInUnsub", TRUE) /\ pc' = [pc EXCEPT ![t] = "remove"]
      BY <1>4, <2>3 DEF enterSubOrUnsub
    <3>2. InSub' = InSub /\ InUnsub' = TRUE
      BY <1>0, <2>3, <3>1 DEF InSub, InUnsub
    <3> QED BY ONLY <1>0, <2>1, <3>1, <3>2, TransferEffect DEF LinkStateTruthful
  <2> QED BY <1>4, <2>2, <2>3 DEF enterSubOrUnsub
<1>5. CASE leaveSubOrUnsub(t)
  <2>1. InCallbacks' = InCallbacks /\ pc' = [pc EXCEPT ![t] = "unlock"]
    BY <1>5 DEF leaveSubOrUnsub, InCallbacks
  <2>2. \A u \in Threads \ {t} : pc[u] \notin {"insert", "leaveSub", "remove", "leaveUnsub"}
    BY <1>5, SubAlone DEF leaveSubOrUnsub, HeldLabels, ApiLabels
  <2>3. InSub' = FALSE /\ InUnsub' = FALSE
    BY <1>0, <2>1, <2>2 DEF InSub, InUnsub
  <2>4. CASE pc[t] = "leaveSub"
    <3>1. Transfer("IsInSub", FALSE) /\ InUnsub = FALSE
      BY <1>5, <2>2, <2>4 DEF leaveSubOrUnsub, InUnsub
    <3> QED BY ONLY <1>0, <2>1, <2>3, <3>1, TransferEffect DEF LinkStateTruthful
  <2>5. CASE pc[t] = "leaveUnsub"
    <3>1. Transfer("IsInUnsub", FALSE) /\ InSub = FALSE
      BY <1>5, <2>2, <2>5 DEF leaveSubOrUnsub, InSub
    <3> QED BY ONLY <1>0, <2>1, <2>3, <3>1, TransferEffect DEF LinkStateTruthful
  <2> QED BY <1>5, <2>4, <2>5 DEF leaveSubOrUnsub
<1>6. CASE insertSuber(t) \/ removeSuber(t)
  <2>1. State' = State /\ InCallbacks' = InCallbacks
    BY <1>6 DEF insertSuber, removeSuber, InCallbacks
  <2>2. \/ pc[t] = "insert" /\ pc' = [pc EXCEPT ![t] = "leaveSub"]
        \/ pc[t] = "remove" /\ pc' = [pc EXCEPT ![t] = "leaveUnsub"]
    BY <1>6 DEF insertSuber, removeSuber
  <2>3. InSub' = InSub /\ InUnsub' = InUnsub
    BY <1>0, <2>2 DEF InSub, InUnsub
  <2> QED BY <1>1, <2>1, <2>3
<1>7. CASE syncDispatch(t) \/ dequeueElementFirst
  <2>1. State' = State /\ InSub' = InSub /\ InUnsub' = InUnsub
    BY <1>0, <1>7 DEF syncDispatch, dequeueElementFirst, InSub, InUnsub
  <2>2. \/ cb' = cb
        \/ \E u \in Threads : \E r : cb[u].at = "none" /\ r.at = "collect" /\ cb' = [cb EXCEPT ![u] = r]
    BY <1>0, <1>7 DEF syncDispatch, dequeueElementFirst, CbOK, OpOK, SyncLabels
  <2>3. InCallbacks' = InCallbacks
    BY <1>0, <2>2 DEF InCallbacks
  <2> QED BY <1>1, <2>1, <2>3
<1>8. CASE collectSubers(t) \/ callCbProcEvt(t) \/ returnCbProcEvt(t)
  <2>1. State' = State /\ InSub' = InSub /\ InUnsub' = InUnsub
    BY <1>8 DEF collectSubers, callCbProcEvt, returnCbProcEvt, InSub, InUnsub
  <2>2. /\ cb'[t].at \in {"next", "body"} <=> cb[t].at \in {"next", "body"}
        /\ \A u \in Threads \ {t} : cb'[u] = cb[u]
    <3>1. CASE collectSubers(t)
      BY <1>0, <3>1 DEF collectSubers, CbRuns
    <3>2. CASE callCbProcEvt(t)
      BY <1>0, <3>2 DEF callCbProcEvt, CbRuns
    <3>3. CASE returnCbProcEvt(t)
      BY <1>0, <3>3 DEF returnCbProcEvt, CbRuns
    <3> QED BY <1>8, <3>1, <3>2, <3>3
  <2>3. InCallbacks' = InCallbacks
    BY <2>2 DEF InCallbacks
  <2> QED BY <1>1, <2>1, <2>3
<1>9. CASE waitLinkObjNewEvtDesc \/ waitTimedOut \/ countCallbaced
  <2>1. State' = State /\ pc' = pc /\ cb' = cb
    BY <1>9 DEF waitLinkObjNewEvtDesc, waitTimedOut, countCallbaced
  <2> QED BY <1>1, <2>1 DEF InSub, InUnsub, InCallbacks
<1>10. CASE CallApi(t) \/ getLinkObjLocked(t) \/ putLinkObj(t) \/ ForceOrWakeup(t) \/ (Post(t) /\ ~syncDispatch(t))
  <2>1. State' = State /\ cb' = cb
    BY <1>10 DEF CallApi, getLinkObjLocked, putLinkObj, ForceOrWakeup, forceSignal, forceReadQueued,
       forceReadCallbaced, Post, postRefused, postAdmitted, asyncEnqueue, asyncFull, asyncTimeout, countQueued,
       signalQueued, syncBusy, syncWait
  <2> DEFINE Inside == {"insert", "leaveSub", "remove", "leaveUnsub"}
  <2>2. pc' = pc \/ (pc[t] \notin Inside /\ \E l : l \notin Inside /\ pc' = [pc EXCEPT ![t] = l])
    <3>1. CASE CallApi(t)
      BY <3>1 DEF CallApi, MayCall
    <3>2. CASE getLinkObjLocked(t)
      BY <1>0, <3>2 DEF getLinkObjLocked, OpOK, PostOps, SubOps
    <3>3. CASE putLinkObj(t) \/ ForceOrWakeup(t)
      BY <3>3 DEF putLinkObj, ForceOrWakeup, forceSignal, forceReadQueued, forceReadCallbaced, Return
    <3>4. CASE Post(t) /\ ~syncDispatch(t)
      BY <3>4 DEF Post, postRefused, postAdmitted, asyncEnqueue, asyncFull, asyncTimeout, countQueued,
         signalQueued, syncBusy, syncWait, Finish
    <3> QED BY <1>10, <3>1, <3>2, <3>3, <3>4
  <2>3. InSub' = InSub /\ InUnsub' = InUnsub
    BY <1>0, <2>2 DEF InSub, InUnsub
  <2> QED BY <1>1, <2>1, <2>3 DEF InCallbacks
<1> QED BY <1>2, <1>3, <1>4, <1>5, <1>6, <1>7, <1>8, <1>9, <1>10
        DEF ApiStep, Post, SubOrUnsub, Dispatch, EvtProcThread

(* The list has a free slot when SuberNum is below the limit. *)
LEMMA FreeSlot ==
    ASSUME TypeOK, SuberListOK, SuberNum < MaxSuber
    PROVE  \E i \in Slots : Subers[i] = UnSubed
<1> SUFFICES ASSUME \A i \in Slots : Subers[i] # UnSubed PROVE FALSE
  OBVIOUS
<1> DEFINE Used == {i \in Slots : Subers[i] # UnSubed}
<1>1. Used = 1 .. MaxSuber
  BY DEF Slots
<1>2. Cardinality(1 .. MaxSuber) = MaxSuber
  <2>1. 1 \in Int /\ MaxSuber \in Int /\ MaxSuber >= 1
    BY ConstantsOK
  <2> QED BY ONLY <2>1, FS_Interval
<1>3. SuberNum = Cardinality(Used)
  BY DEF SuberListOK
<1> HIDE DEF Used
<1> QED BY <1>1, <1>2, <1>3, ConstantsOK

(* The set of slots in use is finite, and grows or shrinks by the slot that changes. *)
LEMMA SlotsInUse ==
    ASSUME NEW i \in Slots, SuberListOK, Subers \in [Slots -> Consumers \cup {UnSubed}]
    PROVE  /\ IsFiniteSet({j \in Slots : Subers[j] # UnSubed})
           /\ \A c \in Consumers : Subers[i] = UnSubed /\ Subers' = [Subers EXCEPT ![i] = c] =>
                 Cardinality({j \in Slots : Subers'[j] # UnSubed}) = SuberNum + 1
           /\ Subers[i] # UnSubed /\ Subers' = [Subers EXCEPT ![i] = UnSubed] =>
                 Cardinality({j \in Slots : Subers'[j] # UnSubed}) = SuberNum - 1
<1> DEFINE Used == {j \in Slots : Subers[j] # UnSubed}
<1>1. IsFiniteSet(Used) /\ SuberNum = Cardinality(Used)
  BY ONLY SlotsFinite, FS_Subset, SuberListOK DEF SuberListOK
<1>2. ASSUME NEW c \in Consumers, Subers[i] = UnSubed, Subers' = [Subers EXCEPT ![i] = c]
      PROVE  Cardinality({j \in Slots : Subers'[j] # UnSubed}) = SuberNum + 1
  <2>1. {j \in Slots : Subers'[j] # UnSubed} = Used \cup {i} /\ i \notin Used
    BY <1>2, ConstantsOK
  <2> HIDE DEF Used
  <2> QED BY <1>1, <2>1, FS_AddElement
<1>3. ASSUME Subers[i] # UnSubed, Subers' = [Subers EXCEPT ![i] = UnSubed]
      PROVE  Cardinality({j \in Slots : Subers'[j] # UnSubed}) = SuberNum - 1
  <2>1. {j \in Slots : Subers'[j] # UnSubed} = Used \ {i} /\ i \in Used
    BY <1>3, ConstantsOK
  <2> HIDE DEF Used
  <2> QED BY <1>1, <2>1, FS_RemoveElement
<1> QED BY <1>1, <1>2, <1>3

(* A set of naturals that is not empty has a least element. *)
LEMMA SmallestNat ==
    ASSUME NEW S \in SUBSET Nat, NEW k0 \in S
    PROVE  \E k \in S : \A j \in S : k <= j
<1> DEFINE R == {ss \in Nat \X Nat : ss[1] < ss[2]}
<1>1. IsWellFoundedOn(R, Nat)
  BY NatLessThanWellFounded DEF OpToRel
<1>2. PICK k \in S : \A j \in S : ~(<<j, k>> \in R)
  BY <1>1, WFMin
<1>3. ASSUME NEW j \in S PROVE k <= j
  <2>1. <<j, k>> \notin R /\ <<j, k>> \in Nat \X Nat
    BY <1>2
  <2>2. ~(j < k)
    BY <2>1
  <2> QED BY <2>2
<1> QED BY <1>2, <1>3

(* Inserting takes a free slot for a new consumer, removing frees the slot of the one found. *)
LEMMA NextSuberListOK ==
    ASSUME IInv, NEW t \in Threads, CallApi(t) \/ ApiStep(t) \/ Dispatch(t) \/ EvtProcThread
    PROVE  SuberListOK'
<1>0. TypeOK /\ OpOK /\ SuberListOK /\ Subers \in [Slots -> Consumers \cup {UnSubed}]
  BY DEF IInv, TypeOK
<1>1. ASSUME Subers' = Subers, SuberNum' = SuberNum PROVE SuberListOK'
  BY <1>0, <1>1 DEF SuberListOK
<1>2. CASE insertSuber(t)
  <2> DEFINE c == op[t].who  i == FirstSlotOf(UnSubed)
  <2>1. CASE SuberNum < MaxSuber /\ ~IsSubed(c)
    <3>1. c \in Consumers
      BY <1>0, <1>2 DEF OpOK, insertSuber, SubOps
    <3>2. i \in Slots /\ Subers[i] = UnSubed
      <4>1. \E k \in Slots : Subers[k] = UnSubed /\ \A j \in Slots : Subers[j] = UnSubed => k <= j
        <5>1. PICK k0 \in Slots : Subers[k0] = UnSubed
          BY <1>0, <2>1, FreeSlot
        <5>2. {k \in Slots : Subers[k] = UnSubed} \in SUBSET Nat /\ k0 \in {k \in Slots : Subers[k] = UnSubed}
          BY <5>1 DEF Slots
        <5> QED BY <5>2, SmallestNat
      <4> QED BY <4>1 DEF FirstSlotOf
    <3>3. Subers' = [Subers EXCEPT ![i] = c] /\ SuberNum' = SuberNum + 1
      BY <1>0, <1>2, <2>1, ConstantsOK DEF insertSuber, TypeOK
    <3>4. \A j, k \in Slots : Subers'[j] = Subers'[k] /\ Subers'[j] # UnSubed => j = k
      BY <1>0, <2>1, <3>1, <3>2, <3>3, ConstantsOK DEF SuberListOK, IsSubed
    <3> QED BY <1>0, <3>1, <3>2, <3>3, <3>4, SlotsInUse DEF SuberListOK
  <2>2. CASE ~(SuberNum < MaxSuber /\ ~IsSubed(c))
    BY <1>0, <1>1, <1>2, <2>2, ConstantsOK DEF insertSuber, insertRefused, TypeOK
  <2> QED BY <2>1, <2>2
<1>3. CASE removeSuber(t)
  <2> DEFINE c == op[t].who  i == FirstSlotOf(c)
  <2>1. CASE IsSubed(c)
    <3>1. c \in Consumers
      BY <1>0, <1>3 DEF OpOK, removeSuber, SubOps
    <3>2. i \in Slots /\ Subers[i] = c
      <4>1. PICK k \in Slots : Subers[k] = c
        BY <2>1 DEF IsSubed
      <4>2. \A j \in Slots : Subers[j] = c => k <= j
        BY <1>0, <3>1, <4>1, ConstantsOK DEF SuberListOK, Slots
      <4> QED BY <4>1, <4>2 DEF FirstSlotOf
    <3>3. Subers' = [Subers EXCEPT ![i] = UnSubed] /\ SuberNum' = SuberNum - 1
      BY <1>3, <2>1 DEF removeSuber
    <3>4. \A j, k \in Slots : Subers'[j] = Subers'[k] /\ Subers'[j] # UnSubed => j = k
      BY <1>0, <3>2, <3>3 DEF SuberListOK
    <3>5. Subers[i] # UnSubed
      BY <3>1, <3>2, ConstantsOK
    <3> QED BY <1>0, <3>2, <3>3, <3>4, <3>5, SlotsInUse DEF SuberListOK
  <2>2. CASE ~IsSubed(c)
    BY <1>1, <1>3, <2>2 DEF removeSuber
  <2> QED BY <2>1, <2>2
<1>4. CASE ~insertSuber(t) /\ ~removeSuber(t)
  <2>1. suberVars' = <<SuberMutex', Subers, SuberNum>>
    BY <1>4 DEF suberVars, CallApi, ApiStep, getLinkObjLocked, putLinkObj, Post, postRefused, postAdmitted,
       asyncEnqueue, asyncFull, asyncTimeout, countQueued, signalQueued, syncDispatch, syncBusy, syncWait,
       SubOrUnsub, enterSubOrUnsub, leaveSubOrUnsub, ForceOrWakeup, forceSignal, forceReadQueued,
       forceReadCallbaced, Dispatch, collectSubers, enterCbProcEvt, callCbProcEvt, returnCbProcEvt,
       leaveCbProcEvt, EvtProcThread, waitLinkObjNewEvtDesc, waitTimedOut, dequeueElementFirst, countCallbaced
  <2> QED BY <1>1, <2>1 DEF suberVars
<1> QED BY <1>2, <1>3, <1>4

-----------------------------------------------------------------------------
(* While one thread has taken an event out for delivery, that event is the one in hand. *)
LEMMA InHandIs ==
    ASSUME CallbackExclusion, NEW t \in Threads, Collecting(t)
    PROVE  InHand = <<cb[t].evt>>
<1>1. \A u \in Threads : Collecting(u) => u = t
  BY DEF CallbackExclusion, Collecting, Dispatching
<1> QED BY <1>1 DEF InHand

(* Accepted events stay in the order of acceptance: posting appends, taking out and collecting move
   the oldest one along. *)
LEMMA NextDeliveryOrder ==
    ASSUME IInv, NEW t \in Threads, CallApi(t) \/ ApiStep(t) \/ Dispatch(t) \/ EvtProcThread
    PROVE  DeliveryOrder'
<1> USE DEF Goto, queueVars
<1>0. /\ DeliveryOrder /\ CallbackExclusion /\ CbOK /\ SyncOK
      /\ cb \in [Threads -> CbRuns] /\ EvtDescQueue \in Seq(Events) /\ due \in Seq(Events)
      /\ EvtProc \notin Users /\ Threads = Users \cup {EvtProc}
  BY Exclusion, ConstantsOK DEF IInv, TypeOK, Threads
<1>1. ASSUME due' = due, EvtDescQueue' = EvtDescQueue, \A u \in Threads : cb'[u] = cb[u]
      PROVE  DeliveryOrder'
  <2>1. InHand' = InHand
    BY <1>1 DEF InHand, Collecting
  <2> QED BY <1>0, <1>1, <2>1 DEF DeliveryOrder
<1>2. CASE asyncEnqueue(t)
  <2>1. InHand' = InHand
    BY <1>2 DEF asyncEnqueue, InHand, Collecting
  <2>2. InHand \in Seq(Events)
    <3>1. CASE \E u \in Threads : Collecting(u)
      <4>1. PICK u \in Threads : Collecting(u)
        BY <3>1
      <4>2. cb[u].evt \in Events /\ InHand = <<cb[u].evt>>
        BY <1>0, <4>1, InHandIs DEF CbOK, Collecting, Dispatching
      <4> QED BY <4>2
    <3>2. CASE ~\E u \in Threads : Collecting(u)
      BY <3>2 DEF InHand
    <3> QED BY <3>1, <3>2
  <2>3. Event(t) \in Events
    BY <1>2, EventType DEF IInv, OpOK, asyncEnqueue, PostLabels
  <2>4. due' = Append(due, Event(t)) /\ EvtDescQueue' = Append(EvtDescQueue, Event(t))
    BY <1>2 DEF asyncEnqueue
  <2>5. Append(InHand \o EvtDescQueue, Event(t)) = InHand \o Append(EvtDescQueue, Event(t))
    <3>1. EvtDescQueue \in Seq(Events)
      BY <1>0
    <3> QED BY ONLY <2>2, <2>3, <3>1
  <2> QED BY <1>0, <2>1, <2>4, <2>5 DEF DeliveryOrder
<1>3. CASE syncDispatch(t)
  <2>1. EvtDescQueue = <<>> /\ \A u \in Threads : ~Dispatching(u)
    BY <1>3, SyncFindsNothing
  <2>2. due = <<>>
    BY <1>0, <2>1 DEF DeliveryOrder, InHand, Collecting, Dispatching
  <2>3. \A u \in Threads : Collecting(u)' <=> u = t
    BY <1>0, <1>3, <2>1 DEF syncDispatch, Collecting, Dispatching
  <2>4. InHand' = <<Event(t)>>
    BY <1>0, <1>3, <2>3 DEF InHand, syncDispatch
  <2> QED BY <1>0, <1>3, <2>1, <2>2, <2>4 DEF DeliveryOrder, syncDispatch
<1>4. CASE collectSubers(t)
  <2>1. Collecting(t) /\ \A u \in Threads : Collecting(u) => u = t
    BY <1>0, <1>4 DEF collectSubers, Collecting, CallbackExclusion, Dispatching
  <2>2. InHand = <<cb[t].evt>> /\ cb[t].evt \in Events
    BY <1>0, <2>1, InHandIs DEF CbOK, Collecting, Dispatching
  <2>3. \A u \in Threads : ~Collecting(u)'
    BY <1>0, <1>4, <2>1 DEF collectSubers, Collecting, CbRuns
  <2>4. InHand' = <<>>
    BY <2>3 DEF InHand
  <2>5. due' = Tail(<<cb[t].evt>> \o EvtDescQueue) /\ EvtDescQueue' = EvtDescQueue
    BY <1>0, <1>4, <2>2 DEF DeliveryOrder, collectSubers
  <2>6. Tail(<<cb[t].evt>> \o EvtDescQueue) = EvtDescQueue
    BY <1>0, <2>2
  <2>7. <<>> \o EvtDescQueue = EvtDescQueue
    BY <1>0
  <2> QED BY <2>4, <2>5, <2>6, <2>7 DEF DeliveryOrder
<1>5. CASE enterCbProcEvt(t) \/ callCbProcEvt(t) \/ returnCbProcEvt(t) \/ leaveCbProcEvt(t)
  <2>1. due' = due /\ EvtDescQueue' = EvtDescQueue
    BY <1>5 DEF enterCbProcEvt, callCbProcEvt, returnCbProcEvt, leaveCbProcEvt
  <2>2. Dispatching(t) /\ ~Collecting(t) /\ ~Collecting(t)'
    <3>1. cb[t].at \in {"enter", "next", "body"}
      BY <1>5 DEF enterCbProcEvt, callCbProcEvt, returnCbProcEvt, leaveCbProcEvt
    <3>2. cb'[t].at # "collect"
      <4>1. CASE enterCbProcEvt(t)
        <5>1. cb' = [cb EXCEPT ![t].at = "next"]
          BY <4>1 DEF enterCbProcEvt
        <5>2. cb \in [Threads -> CbRuns]
          BY <1>0
        <5> QED BY ONLY <5>1, <5>2, t \in Threads DEF CbRuns
      <4>4. CASE callCbProcEvt(t)
        <5>1. cb' = [cb EXCEPT ![t].at = "body"]
          BY <4>4 DEF callCbProcEvt
        <5>2. cb \in [Threads -> CbRuns]
          BY <1>0
        <5> QED BY ONLY <5>1, <5>2, t \in Threads DEF CbRuns
      <4>2. CASE returnCbProcEvt(t)
        BY <1>0, <4>2 DEF returnCbProcEvt, CbRuns
      <4>3. CASE leaveCbProcEvt(t)
        BY <1>0, <4>3 DEF leaveCbProcEvt, NoCb
      <4> QED BY <1>5, <4>1, <4>4, <4>2, <4>3
    <3> QED BY <3>1, <3>2 DEF Dispatching, Collecting
  <2>3. \A u \in Threads \ {t} : cb'[u] = cb[u]
    BY <1>0, <1>5 DEF enterCbProcEvt, callCbProcEvt, returnCbProcEvt, leaveCbProcEvt
  <2>4. \A u \in Threads : ~Collecting(u) /\ ~Collecting(u)'
    BY <1>0, <2>2, <2>3 DEF CallbackExclusion, Collecting, Dispatching
  <2>5. InHand' = InHand
    BY <2>4 DEF InHand
  <2> QED BY <1>0, <2>1, <2>5 DEF DeliveryOrder
<1>6. CASE dequeueElementFirst
  <2>1. CASE EvtDescQueue = <<>>
    BY <1>1, <1>6, <2>1 DEF dequeueElementFirst
  <2>2. CASE EvtDescQueue # <<>>
    <3>1. \A u \in Threads : ~Collecting(u)
      BY <1>0, <1>6, <2>2 DEF SyncOK, CbOK, dequeueElementFirst, Collecting, Dispatching
    <3>2. due = <<Head(EvtDescQueue)>> \o Tail(EvtDescQueue)
      <4>1. due = EvtDescQueue
        BY <1>0, <3>1 DEF DeliveryOrder, InHand
      <4> QED BY <1>0, <2>2, <4>1
    <3>3. cb' = [cb EXCEPT ![EvtProc] = [at |-> "collect", evt |-> Head(EvtDescQueue), todo |-> {}]]
      BY <1>6, <2>2 DEF dequeueElementFirst
    <3>4. \A u \in Threads : Collecting(u)' <=> u = EvtProc
      BY <1>0, <3>1, <3>3 DEF Collecting
    <3>5. InHand' = <<Head(EvtDescQueue)>>
      BY <1>0, <3>3, <3>4 DEF InHand
    <3> QED BY <1>6, <2>2, <3>2, <3>5 DEF DeliveryOrder, dequeueElementFirst
  <2> QED BY <2>1, <2>2
<1>7. CASE /\ CallApi(t) \/ ApiStep(t) \/ waitLinkObjNewEvtDesc \/ waitTimedOut \/ countCallbaced
           /\ ~asyncEnqueue(t) /\ ~syncDispatch(t)
  <2>1. due' = due /\ EvtDescQueue' = EvtDescQueue /\ cb' = cb
    BY <1>7 DEF CallApi, ApiStep, getLinkObjLocked, putLinkObj, Post, postRefused, postAdmitted,
       asyncFull, asyncTimeout, countQueued, signalQueued, syncBusy, syncWait, SubOrUnsub, enterSubOrUnsub,
       insertSuber, removeSuber, leaveSubOrUnsub, ForceOrWakeup, forceSignal, forceReadQueued,
       forceReadCallbaced, waitLinkObjNewEvtDesc, waitTimedOut, countCallbaced
  <2> QED BY <1>1, <2>1
<1> QED BY <1>2, <1>3, <1>4, <1>5, <1>6, <1>7 DEF ApiStep, Post, Dispatch, EvtProcThread

-----------------------------------------------------------------------------
(* The invariant is inductive. *)
LEMMA NextIInv == IInv /\ [Next]_vars => IInv'
<1> SUFFICES ASSUME IInv, [Next]_vars PROVE IInv'
  OBVIOUS
<1>1. ASSUME NEW t \in Threads, CallApi(t) \/ ApiStep(t) \/ Dispatch(t) \/ EvtProcThread PROVE IInv'
  BY <1>1, NextTypeOK, NextLinkMutexOK, NextOpOK, NextCbOK, NextCountersOK, NextSyncOK,
     NextLinkStateTruthful, NextSuberListOK, NextDeliveryOrder DEF IInv
<1>2. CASE UNCHANGED vars
  <2> USE <1>2 DEF vars, callVars, queueVars, suberVars
  <2>1. TypeOK' /\ SuberListOK' /\ OpOK'
    BY DEF IInv, TypeOK, SuberListOK, OpOK
  <2>2. LinkMutexOK' /\ CbOK' /\ SyncOK'
    BY DEF IInv, LinkMutexOK, Holds, CbOK, SyncOK, Dispatching
  <2>3. CountersOK' /\ LinkStateTruthful' /\ DeliveryOrder'
    BY DEF IInv, CountersOK, Uncounted, BeingCalledBack, LinkStateTruthful, InCallbacks, InSub, InUnsub,
       DeliveryOrder, InHand, Collecting
  <2> QED BY <2>1, <2>2, <2>3 DEF IInv
<1>3. EvtProc \in Threads
  BY ConstantsOK
<1> QED BY <1>1, <1>2, <1>3 DEF Next

(* The invariant holds in every reachable state. *)
THEOREM Inductive == Spec => []IInv
BY InitIInv, NextIInv, PTL DEF Spec

(* Every variable keeps its type, and the queue its bound. *)
THEOREM TypeCorrect == Spec => []TypeOK
<1>1. IInv => TypeOK
  BY DEF IInv
<1> QED BY <1>1, Inductive, PTL

(* No consumer is called back with two events at once: EvtProcThread and a synchronous post never call
   back together. *)
THEOREM CallbacksExclude == Spec => []CallbackExclusion
BY Exclusion, Inductive, PTL

(* Accepted events are delivered in the order of acceptance, none lost, none twice, whether they were
   queued or posted synchronously. *)
THEOREM DeliveredInOrder == Spec => []DeliveryOrder
<1>1. IInv => DeliveryOrder
  BY DEF IInv
<1> QED BY <1>1, Inductive, PTL

(* The link's state tells what the threads are doing, whatever their interleaving. *)
THEOREM StateIsTruthful == Spec => []LinkStateTruthful
<1>1. IInv => LinkStateTruthful
  BY DEF IInv
<1> QED BY <1>1, Inductive, PTL

(* No consumer is in the list twice, and SuberNum counts the slots in use. *)
THEOREM SubersCounted == Spec => []SuberListOK
<1>1. IInv => SuberListOK
  BY DEF IInv
<1> QED BY <1>1, Inductive, PTL

-----------------------------------------------------------------------------
-----------------------------------------------------------------------------
(* Which events are new: a post's event is in nobody's books until the post accepts it, and never if it fails. *)
Accepts(t) == asyncEnqueue(t) \/ syncDispatch(t)
Unaccepted(t) ==
    \/ pc[t] \in {"lock", "post", "enqueue", "waitSpace", "sync", "syncWait"}
    \/ pc[t] = "unlock" /\ op[t].api = "post" /\ result[t] # "SUCCESS"
Known == Unprocessed \cup UNION {pending[t] : t \in Threads}
SubCalls == \A t \in Threads : pc[t] \in {"leaveSub", "leaveUnsub"} => op[t] \in SubOps
KnownOld == \A e \in Known : e.n <= calls[e.by]
NewUnknown == \A t \in Threads : Unaccepted(t) => \A e \in Known : e.by # t \/ e.n # calls[t]
FreshOK == SubCalls /\ KnownOld /\ NewUnknown

(* What forceProcEvt waits for: the events of P come before the n-th callback to be counted. *)
Within(P, n) ==
    /\ Dispatching(EvtProc) /\ cb[EvtProc].evt \in P => CallbacedEvtNum < n
    /\ \A i \in 1 .. Len(EvtDescQueue) : EvtDescQueue[i] \in P => CallbacedEvtNum + BeingCalledBack + i <= n
    /\ \A u \in Users : Dispatching(u) => cb[u].evt \notin P
Forcing(t) == pc[t] \in {"force", "readQueued", "readCallbaced"}
DrainOK == \A t \in Threads : /\ Forcing(t) => Within(pending[t], QueuedEvtNum)
                              /\ pc[t] = "readCallbaced" => Within(pending[t], seen[t])

(* An event that is enqueued and not yet counted is the last one, because its post still has the Mutex. *)
LastIs(e) == /\ EvtDescQueue # <<>> => EvtDescQueue[Len(EvtDescQueue)] = e
             /\ EvtDescQueue = <<>> /\ loop = "dispatch" => cb[EvtProc].evt = e
UncountedLast == \A t \in Threads : pc[t] \in UncountedLabels => LastIs(Event(t))

PostInv == FreshOK /\ UncountedLast /\ DrainOK

(* A step of one thread leaves the calls of the others alone. *)
LEMMA OthersStay ==
    ASSUME IInv, NEW t \in Threads, CallApi(t) \/ ApiStep(t) \/ Dispatch(t) \/ EvtProcThread, NEW u \in Threads, u # t
    PROVE  /\ pc'[u] = pc[u] /\ op'[u] = op[u] /\ result'[u] = result[u]
           /\ seen'[u] = seen[u] /\ calls'[u] = calls[u] /\ pending'[u] = pending[u]
<1>1. CASE CallApi(t)
  <2>1. \E l, o, p : /\ pc' = [pc EXCEPT ![t] = l] /\ op' = [op EXCEPT ![t] = o] /\ pending' = [pending EXCEPT ![t] = p]
                     /\ result' = [result EXCEPT ![t] = "none"] /\ seen' = seen /\ calls' = [calls EXCEPT ![t] = @ + 1]
    BY <1>1 DEF CallApi, Goto
  <2> QED
    BY <2>1 DEF IInv, TypeOK
<1>2. CASE Dispatch(t) \/ EvtProcThread
  <2>1. callVars' = callVars /\ (pc' = pc \/ pc' = [pc EXCEPT ![t] = "unlock"])
        /\ (result' = result \/ result' = [result EXCEPT ![t] = "SUCCESS"])
    BY <1>2 DEF Dispatch, EvtProcThread, collectSubers, enterCbProcEvt, callCbProcEvt, returnCbProcEvt, leaveCbProcEvt,
       waitLinkObjNewEvtDesc, waitTimedOut, dequeueElementFirst, countCallbaced, Finish, Goto, callVars
  <2> QED
    BY <2>1 DEF IInv, TypeOK, callVars
<1>3. CASE Post(t)
  <2>1. callVars' = callVars /\ (pc' = pc \/ \E l : pc' = [pc EXCEPT ![t] = l])
        /\ (result' = result \/ \E r : result' = [result EXCEPT ![t] = r])
    BY <1>3 DEF Post, postRefused, postAdmitted, asyncEnqueue, asyncFull, asyncTimeout, countQueued, signalQueued,
       syncDispatch, syncBusy, syncWait, Finish, Goto, callVars
  <2> QED
    BY <2>1 DEF IInv, TypeOK, callVars
<1>4. CASE SubOrUnsub(t) \/ getLinkObjLocked(t)
  <2>1. callVars' = callVars /\ (\E l : pc' = [pc EXCEPT ![t] = l])
        /\ (result' = result \/ \E r : result' = [result EXCEPT ![t] = r])
    BY <1>4 DEF SubOrUnsub, getLinkObjLocked, enterSubOrUnsub, insertSuber, insertRefused, removeSuber, leaveSubOrUnsub,
       Goto, callVars
  <2> QED
    BY <2>1 DEF IInv, TypeOK, callVars
<1>5. CASE putLinkObj(t) \/ ForceOrWakeup(t)
  <2>1. calls' = calls /\ (\E l : pc' = [pc EXCEPT ![t] = l])
        /\ (op' = op \/ op' = [op EXCEPT ![t] = NoOp]) /\ (result' = result \/ result' = [result EXCEPT ![t] = "none"])
        /\ (seen' = seen \/ \E n : seen' = [seen EXCEPT ![t] = n]) /\ (pending' = pending \/ pending' = [pending EXCEPT ![t] = {}])
    BY <1>5 DEF putLinkObj, ForceOrWakeup, forceSignal, forceReadQueued, forceReadCallbaced, Return, Goto, callVars
  <2> QED
    BY <2>1 DEF IInv, TypeOK
<1> QED
  BY <1>1, <1>2, <1>3, <1>4, <1>5 DEF ApiStep

(* What is known and what forceProcEvt waits for changes with the call of forceProcEvt and with its return only. *)
LEMMA OwnCall ==
    ASSUME IInv, SubCalls, NEW t \in Threads, CallApi(t) \/ ApiStep(t) \/ Dispatch(t) \/ EvtProcThread, ~CallApi(t)
    PROVE  /\ calls' = calls /\ (pending'[t] = pending[t] \/ (pending'[t] = {} /\ pc'[t] = "idle"))
           /\ Unaccepted(t)' => Unaccepted(t) /\ ~Accepts(t)
           /\ pc'[t] \in UncountedLabels => op'[t] = op[t] /\ (asyncEnqueue(t) \/ pc[t] \in UncountedLabels)
           /\ pc'[t] \in {"leaveSub", "leaveUnsub"} => op'[t] \in SubOps
           /\ Forcing(t)' => Forcing(t)
           /\ pc'[t] = "readCallbaced" =>
                 \/ pc[t] = "readCallbaced" /\ seen'[t] = seen[t]
                 \/ pc[t] = "readQueued" /\ seen'[t] = QueuedEvtNum
           /\ pc[t] = "readCallbaced" /\ pc'[t] = "idle" => seen[t] = CallbacedEvtNum
<1>1. /\ pc \in [Threads -> ApiLabels] /\ result \in [Threads -> Results] /\ op \in [Threads -> Ops \cup {NoOp}]
      /\ seen \in [Threads -> Nat] /\ pending \in [Threads -> SUBSET Events]
  BY DEF IInv, TypeOK
<1>2. CASE Dispatch(t) \/ EvtProcThread
  <2>1. callVars' = callVars
        /\ \/ pc' = pc /\ result' = result
           \/ pc' = [pc EXCEPT ![t] = "unlock"] /\ result' = [result EXCEPT ![t] = "SUCCESS"]
    BY <1>2 DEF Dispatch, EvtProcThread, collectSubers, enterCbProcEvt, callCbProcEvt, returnCbProcEvt, leaveCbProcEvt,
       waitLinkObjNewEvtDesc, waitTimedOut, dequeueElementFirst, countCallbaced, Finish, Goto, callVars
  <2>2. ASSUME Accepts(t)
        PROVE  FALSE
    <3>1. pc'[t] \in {"fastCount", "slowSignal", "syncCb"} /\ pc[t] \in {"enqueue", "waitSpace", "sync", "syncWait"}
      BY <1>1, <2>2 DEF Accepts, asyncEnqueue, syncDispatch, Goto
    <3> QED
      BY <1>1, <2>1, <3>1
  <2> QED
    BY <1>1, <2>1, <2>2 DEF Unaccepted, UncountedLabels, Forcing, callVars, SubCalls
<1>3. CASE Post(t) /\ ~Accepts(t)
  <2>1. callVars' = callVars
        /\ \/ pc' = pc /\ result' = result
           \/ /\ pc[t] \in {"post", "enqueue", "waitSpace", "sync", "syncWait"} /\ result' = result
              /\ \E l \in {"enqueue", "waitSpace", "sync", "syncWait"} : pc' = [pc EXCEPT ![t] = l]
           \/ /\ pc[t] \in {"post", "enqueue", "waitSpace", "sync", "syncWait"}
              /\ pc' = [pc EXCEPT ![t] = "unlock"]
           \/ /\ pc[t] \in {"fastCount", "slowSignal"} /\ result' = result
              /\ \E l \in {"fastSignal", "slowCount"} : pc' = [pc EXCEPT ![t] = l] /\ (l = "slowCount" => pc[t] = "slowSignal")
           \/ pc' = [pc EXCEPT ![t] = "unlock"] /\ result' = [result EXCEPT ![t] = "SUCCESS"]
    BY <1>3 DEF Post, Accepts, postRefused, postAdmitted, asyncFull, asyncTimeout, countQueued, signalQueued,
       syncBusy, syncWait, Finish, Goto, callVars
  <2>2. pc[t] \in PostLabels
    BY <1>3 DEF Post, Accepts, postRefused, postAdmitted, asyncFull, asyncTimeout, countQueued, signalQueued, syncBusy, syncWait, PostLabels
  <2> QED
    BY <1>1, <1>3, <2>1, <2>2 DEF Unaccepted, UncountedLabels, Forcing, callVars, PostLabels
<1>4. CASE Accepts(t)
  <2>1. /\ callVars' = callVars /\ pc[t] \in {"enqueue", "waitSpace", "sync", "syncWait"}
        /\ \E l \in {"fastCount", "slowSignal", "syncCb"} : pc' = [pc EXCEPT ![t] = l]
        /\ syncDispatch(t) => pc' = [pc EXCEPT ![t] = "syncCb"]
    BY <1>4 DEF Accepts, asyncEnqueue, syncDispatch, Goto, callVars
  <2>2. /\ calls' = calls /\ pending' = pending /\ op' = op
        /\ pc'[t] \in {"fastCount", "slowSignal", "syncCb"} /\ (syncDispatch(t) => pc'[t] = "syncCb")
    BY <1>1, <2>1 DEF callVars
  <2>3. ~Unaccepted(t)' /\ ~Forcing(t)'
    BY <2>2 DEF Unaccepted, Forcing
  <2> QED
    BY <1>4, <2>1, <2>2, <2>3 DEF Accepts, UncountedLabels
<1>5. CASE SubOrUnsub(t)
  <2>1. callVars' = callVars /\ op[t] \in SubOps
    BY <1>5 DEF SubOrUnsub, enterSubOrUnsub, insertSuber, insertRefused, removeSuber, leaveSubOrUnsub, callVars, IInv, OpOK, SubCalls
  <2>2. pc[t] \notin {"enqueue", "waitSpace", "sync", "syncWait"}
        /\ \E l \in {"insert", "remove", "leaveSub", "leaveUnsub", "unlock"} : pc' = [pc EXCEPT ![t] = l]
    BY <1>5 DEF SubOrUnsub, enterSubOrUnsub, insertSuber, removeSuber, leaveSubOrUnsub, Goto
  <2>3. ~Accepts(t) /\ op[t].api # "post"
    BY <2>1, <2>2 DEF Accepts, asyncEnqueue, syncDispatch, SubOps
  <2> QED
    BY <1>1, <2>1, <2>2, <2>3 DEF Unaccepted, UncountedLabels, Forcing, callVars
<1>6. CASE getLinkObjLocked(t)
  <2>1. callVars' = callVars /\ pc[t] = "lock" /\ pc' = [pc EXCEPT ![t] = op[t].api] /\ op[t].api \in {"post", "sub", "unsub"}
    BY <1>6 DEF getLinkObjLocked, Goto, callVars, IInv, OpOK, PostOps, SubOps
  <2>2. ~Accepts(t)
    BY <2>1 DEF Accepts, asyncEnqueue, syncDispatch
  <2> QED
    BY <1>1, <2>1, <2>2 DEF Unaccepted, UncountedLabels, Forcing, callVars
<1>7. CASE putLinkObj(t)
  <2>1. calls' = calls /\ pc' = [pc EXCEPT ![t] = "idle"] /\ pending' = [pending EXCEPT ![t] = {}] /\ pc[t] = "unlock"
    BY <1>7 DEF putLinkObj, Return, Goto
  <2> QED
    BY <1>1, <2>1 DEF Unaccepted, UncountedLabels, Forcing
<1>8. CASE ForceOrWakeup(t)
  <2>1. /\ calls' = calls /\ pc[t] \in {"force", "wakeup", "readQueued", "readCallbaced"}
        /\ \/ pc' = [pc EXCEPT ![t] = "idle"] /\ pending' = [pending EXCEPT ![t] = {}]
              /\ (pc[t] = "readCallbaced" => seen[t] = CallbacedEvtNum)
           \/ pc' = [pc EXCEPT ![t] = "readQueued"] /\ pc[t] = "force" /\ pending' = pending
           \/ pc' = [pc EXCEPT ![t] = "force"] /\ pc[t] = "readCallbaced" /\ pending' = pending
           \/ /\ pc' = [pc EXCEPT ![t] = "readCallbaced"] /\ pc[t] = "readQueued" /\ pending' = pending
              /\ seen' = [seen EXCEPT ![t] = QueuedEvtNum]
    BY <1>8 DEF ForceOrWakeup, forceSignal, forceReadQueued, forceReadCallbaced, Return, Goto
  <2> QED
    BY <1>1, <2>1 DEF Unaccepted, UncountedLabels, Forcing
<1> QED
  BY <1>2, <1>3, <1>4, <1>5, <1>6, <1>7, <1>8 DEF ApiStep, Post, Accepts

(* A run of callbacks keeps its event to the end. *)
LEMMA SameEvent ==
    ASSUME IInv, NEW t \in Threads, Dispatch(t)
    PROVE  /\ \A u \in Threads : u # t => cb'[u] = cb[u]
           /\ cb[t].at # "none" /\ (cb'[t].at = "none" \/ cb'[t].evt = cb[t].evt)
<1>1. cb \in [Threads -> CbRuns]
  BY DEF IInv, TypeOK
<1>2. CASE leaveCbProcEvt(t)
  <2>1. cb' = [cb EXCEPT ![t] = NoCb] /\ cb[t].at = "next"
    BY <1>2 DEF leaveCbProcEvt
  <2> QED
    BY <1>1, <2>1 DEF NoCb
<1>3. CASE ~leaveCbProcEvt(t)
  <2>1. /\ cb[t].at \in {"collect", "enter", "next", "body"}
        /\ \/ \E at : cb' = [cb EXCEPT ![t].at = at]
           \/ \E at, todo : cb' = [cb EXCEPT ![t].at = at, ![t].todo = todo]
    BY <1>3 DEF Dispatch, collectSubers, enterCbProcEvt, callCbProcEvt, returnCbProcEvt
  <2> QED
    BY ONLY <1>1, <2>1, t \in Threads DEF CbRuns
<1> QED
  BY <1>2, <1>3

(* The first event due is the one in hand, or the first in the queue. *)
LEMMA DueIs ==
    ASSUME IInv
    PROVE  \A i \in DOMAIN due : \/ \E t \in Threads : Collecting(t) /\ due[i] = cb[t].evt
                                 \/ \E j \in 1 .. Len(EvtDescQueue) : due[i] = EvtDescQueue[j]
<1>1. EvtDescQueue \in Seq(Events) /\ DeliveryOrder /\ CallbackExclusion /\ CbOK
  BY Exclusion DEF IInv, TypeOK
<1>2. CASE \E t \in Threads : Collecting(t)
  <2>1. PICK t \in Threads : Collecting(t)
    BY <1>2
  <2>2. due = <<cb[t].evt>> \o EvtDescQueue /\ cb[t].evt \in Events
    BY <1>1, <2>1, InHandIs DEF DeliveryOrder, CbOK, Collecting, Dispatching
  <2>3. \A i \in DOMAIN due : due[i] = cb[t].evt \/ (i - 1 \in 1 .. Len(EvtDescQueue) /\ due[i] = EvtDescQueue[i - 1])
    BY <1>1, <2>2
  <2> QED
    BY <2>1, <2>3
<1>3. CASE ~\E t \in Threads : Collecting(t)
  <2>1. due = EvtDescQueue
    BY <1>1, <1>3 DEF DeliveryOrder, InHand
  <2> QED
    BY <1>1, <2>1
<1> QED
  BY <1>2, <1>3

(* Only a post that accepts its event makes one unprocessed. *)
LEMMA NextUnprocessed ==
    ASSUME IInv, NEW t \in Threads, CallApi(t) \/ ApiStep(t) \/ Dispatch(t) \/ EvtProcThread, NEW e \in Unprocessed'
    PROVE  e \in Unprocessed \/ (Accepts(t) /\ e = Event(t))
<1>1. /\ due \in Seq(Events) /\ cb \in [Threads -> CbRuns] /\ EvtDescQueue \in Seq(Events)
  BY DEF IInv, TypeOK
<1>2. \/ \E i \in DOMAIN due' : e = due'[i]
      \/ \E u \in Threads : cb'[u].at # "none" /\ e = cb'[u].evt
  BY DEF Unprocessed, Dispatching
<1>3. /\ \A i \in DOMAIN due : due[i] \in Unprocessed
      /\ \A u \in Threads : cb[u].at # "none" => cb[u].evt \in Unprocessed
  BY DEF Unprocessed, Dispatching
<1>4. CASE asyncEnqueue(t)
  <2>1. due' = Append(due, Event(t)) /\ cb' = cb
    BY <1>4 DEF asyncEnqueue
  <2>2. \A i \in DOMAIN due' : due'[i] = Event(t) \/ (i \in DOMAIN due /\ due'[i] = due[i])
    BY <1>1, <2>1
  <2> QED
    BY <1>2, <1>3, <1>4, <2>1, <2>2 DEF Accepts
<1>5. CASE syncDispatch(t)
  <2>1. due' = Append(due, Event(t)) /\ cb' = [cb EXCEPT ![t] = [at |-> "collect", evt |-> Event(t), todo |-> {}]]
    BY <1>5 DEF syncDispatch
  <2>2. \A i \in DOMAIN due' : due'[i] = Event(t) \/ (i \in DOMAIN due /\ due'[i] = due[i])
    BY <1>1, <2>1
  <2>3. cb'[t].evt = Event(t) /\ \A u \in Threads : u # t => cb'[u] = cb[u]
    BY <1>1, <2>1
  <2> QED
    BY <1>2, <1>3, <1>5, <2>2, <2>3 DEF Accepts
<1>6. CASE Dispatch(t)
  <2>1. due' = due \/ (due' = Tail(due) /\ due # <<>>)
    <3>1. collectSubers(t) => due # <<>>
      BY <1>1 DEF IInv, DeliveryOrder, InHand, Collecting, collectSubers
    <3> QED
      BY <1>6, <3>1 DEF Dispatch, collectSubers, enterCbProcEvt, callCbProcEvt, returnCbProcEvt, leaveCbProcEvt
  <2>2. \A i \in DOMAIN due' : \E j \in DOMAIN due : due'[i] = due[j]
    <3>1. CASE due' = Tail(due) /\ due # <<>>
      <4>1. \A i \in DOMAIN due' : i + 1 \in DOMAIN due /\ due'[i] = due[i + 1]
        BY <1>1, <3>1
      <4> QED
        BY <4>1
    <3> QED
      BY <2>1, <3>1
  <2>3. /\ \A u \in Threads : u # t => cb'[u] = cb[u]
        /\ cb[t].at # "none" /\ (cb'[t].at = "none" \/ cb'[t].evt = cb[t].evt)
    BY <1>1, <1>6, SameEvent
  <2> QED
    BY <1>2, <1>3, <2>2, <2>3
<1>7. CASE dequeueElementFirst /\ EvtDescQueue # <<>>
  <2>1. due' = due /\ cb' = [cb EXCEPT ![EvtProc] = [at |-> "collect", evt |-> Head(EvtDescQueue), todo |-> {}]]
    BY <1>7 DEF dequeueElementFirst
  <2>2. \A u \in Threads : ~Collecting(u)
    BY <1>7, ConstantsOK DEF IInv, SyncOK, CbOK, dequeueElementFirst, Collecting, Dispatching, Threads
  <2>3. due = EvtDescQueue
    BY <1>1, <2>2 DEF IInv, DeliveryOrder, InHand
  <2>4. 1 \in DOMAIN due /\ Head(EvtDescQueue) = due[1]
    BY <1>1, <1>7, <2>3
  <2>5. cb'[EvtProc].evt = Head(EvtDescQueue) /\ \A u \in Threads : u # EvtProc => cb'[u] = cb[u]
    BY <1>1, <2>1, ConstantsOK
  <2> QED
    BY <1>2, <1>3, <2>1, <2>4, <2>5
<1>8. CASE due' = due /\ cb' = cb
  BY <1>2, <1>3, <1>8
<1>9. CASE /\ CallApi(t) \/ ApiStep(t) \/ waitLinkObjNewEvtDesc \/ waitTimedOut \/ countCallbaced
           /\ ~asyncEnqueue(t) /\ ~syncDispatch(t)
  <2>1. due' = due /\ cb' = cb
    BY <1>9 DEF CallApi, ApiStep, getLinkObjLocked, putLinkObj, Post, postRefused, postAdmitted,
       asyncFull, asyncTimeout, countQueued, signalQueued, syncBusy, syncWait, SubOrUnsub, enterSubOrUnsub,
       insertSuber, removeSuber, leaveSubOrUnsub, ForceOrWakeup, forceSignal, forceReadQueued,
       forceReadCallbaced, waitLinkObjNewEvtDesc, waitTimedOut, countCallbaced
  <2> QED
    BY <1>8, <2>1
<1>10. CASE dequeueElementFirst /\ EvtDescQueue = <<>>
  BY <1>8, <1>10 DEF dequeueElementFirst
<1> QED
  BY <1>4, <1>5, <1>6, <1>7, <1>9, <1>10 DEF EvtProcThread

(* What is known: a step adds the event it accepts, and nothing else. *)
LEMMA NextKnown ==
    ASSUME IInv, SubCalls, NEW t \in Threads, CallApi(t) \/ ApiStep(t) \/ Dispatch(t) \/ EvtProcThread, NEW e \in Known'
    PROVE  e \in Known \/ (Accepts(t) /\ e = Event(t))
<1>1. pending \in [Threads -> SUBSET Events]
  BY DEF IInv, TypeOK
<1>2. CASE e \in Unprocessed'
  BY <1>2, NextUnprocessed DEF Known
<1>3. CASE \E u \in Threads : e \in pending'[u]
  <2>1. PICK u \in Threads : e \in pending'[u]
    BY <1>3
  <2>2. CASE u # t \/ ~CallApi(t)
    BY <2>1, <2>2, OthersStay, OwnCall DEF Known
  <2>3. CASE u = t /\ CallApi(t)
    <3>1. \E p \in {PostedAndUnprocessed, {}} : pending' = [pending EXCEPT ![t] = p]
      BY <2>3 DEF CallApi
    <3>2. e \in PostedAndUnprocessed
      BY <1>1, <2>1, <2>3, <3>1
    <3> QED
      BY <3>2 DEF PostedAndUnprocessed, Known
  <2> QED
    BY <2>2, <2>3
<1> QED
  BY <1>2, <1>3 DEF Known

(* What is known are events. *)
LEMMA KnownType == ASSUME IInv PROVE Known \subseteq Events
  BY UnprocessedType DEF IInv, TypeOK, Known

(* Events are known from their acceptance on only. *)
LEMMA NextFreshOK ==
    ASSUME IInv, FreshOK, NEW t \in Threads, CallApi(t) \/ ApiStep(t) \/ Dispatch(t) \/ EvtProcThread
    PROVE  FreshOK'
<1>1. SubCalls /\ KnownOld /\ NewUnknown
  BY DEF FreshOK
<1>2. /\ calls \in [Threads -> 0 .. MaxCalls] /\ MaxCalls \in Nat /\ pc \in [Threads -> ApiLabels]
      /\ \A e \in Known : e.by \in Threads /\ e.n \in Nat
  <2>1. ASSUME NEW e \in Known
        PROVE  e.by \in Threads /\ e.n \in Nat
    <3>1. e \in [by : Threads, n : 1 .. MaxCalls, id : EvtIDs]
      BY KnownType DEF Events
    <3> QED
      BY <3>1, ConstantsOK
  <2> QED
    BY <2>1, ConstantsOK DEF IInv, TypeOK
<1>3. /\ Event(t).by = t /\ Event(t).n = calls[t] /\ (Accepts(t) => Unaccepted(t))
  BY DEF Event, Accepts, asyncEnqueue, syncDispatch, Unaccepted
<1>4. CallApi(t) => /\ calls'[t] = calls[t] + 1 /\ ~Accepts(t)
                    /\ pc'[t] \in {"lock", "force", "wakeup"}
  <2>1. ASSUME CallApi(t)
        PROVE  /\ pc[t] \in {"idle", "syncCb"} /\ calls' = [calls EXCEPT ![t] = @ + 1]
               /\ \E l \in {"lock", "force", "wakeup"} : pc' = [pc EXCEPT ![t] = l]
    BY <2>1 DEF CallApi, MayCall, Goto
  <2>2. pc[t] \in {"idle", "syncCb"} => ~Accepts(t)
    BY DEF Accepts, asyncEnqueue, syncDispatch
  <2> QED
    BY <1>2, <2>1, <2>2
<1>5. \A u \in Threads : calls'[u] = IF u = t /\ CallApi(t) THEN calls[u] + 1 ELSE calls[u]
  BY <1>1, <1>4, OthersStay, OwnCall
<1>6. SubCalls'
  BY <1>1, <1>4, OthersStay, OwnCall DEF SubCalls
<1>7. ASSUME NEW e \in Known'
      PROVE  e.n <= calls'[e.by]
  <2>1. e \in Known \/ e = Event(t)
    BY <1>1, <1>7, NextKnown
  <2>2. e.by \in Threads /\ e.n \in Nat /\ e.n <= calls[e.by]
    BY <1>1, <1>2, <1>3, <2>1 DEF KnownOld
  <2> QED
    BY <1>2, <1>5, <2>2
<1>8. ASSUME NEW u \in Threads, Unaccepted(u)', NEW e \in Known'
      PROVE  e.by # u \/ e.n # calls'[u]
  <2>1. CASE u = t /\ CallApi(t)
    <3>1. e \in Known
      BY <1>1, <1>4, <2>1, NextKnown
    <3> QED
      BY <1>1, <1>2, <1>5, <2>1, <3>1 DEF KnownOld
  <2>2. CASE u = t /\ ~CallApi(t)
    <3>1. Unaccepted(t) /\ ~Accepts(t) /\ e \in Known
      BY <1>1, <1>8, <2>2, OwnCall, NextKnown
    <3> QED
      BY <1>1, <1>5, <2>2, <3>1 DEF NewUnknown
  <2>3. CASE u # t
    <3>1. Unaccepted(u)
      BY <1>8, <2>3, OthersStay DEF Unaccepted
    <3>2. e \in Known \/ e = Event(t)
      BY <1>1, NextKnown
    <3> QED
      BY <1>1, <1>3, <1>5, <2>3, <3>1, <3>2 DEF NewUnknown
  <2> QED
    BY <2>1, <2>2, <2>3
<1> QED
  BY <1>6, <1>7, <1>8 DEF FreshOK, KnownOld, NewUnknown

-----------------------------------------------------------------------------
(* What a step does to the events in the queue, to the one in hand and to the count. *)
LEMMA QueueStep ==
    ASSUME IInv, NEW t \in Threads, CallApi(t) \/ ApiStep(t) \/ Dispatch(t) \/ EvtProcThread
    PROVE  \/ asyncEnqueue(t)
           \/ syncDispatch(t)
           \/ dequeueElementFirst /\ EvtDescQueue # <<>>
           \/ countCallbaced
           \/ /\ EvtDescQueue' = EvtDescQueue /\ CallbacedEvtNum' = CallbacedEvtNum /\ BeingCalledBack' = BeingCalledBack
              /\ loop' = "dispatch" => loop = "dispatch"
              /\ \A u \in Threads : Dispatching(u)' => Dispatching(u) /\ cb'[u].evt = cb[u].evt
<1>1. CASE Dispatch(t)
  <2>1. \A u \in Threads : Dispatching(u)' => Dispatching(u) /\ cb'[u].evt = cb[u].evt
    BY <1>1, SameEvent DEF Dispatching
  <2>2. EvtDescQueue' = EvtDescQueue /\ CallbacedEvtNum' = CallbacedEvtNum
    BY <1>1 DEF Dispatch, collectSubers, enterCbProcEvt, callCbProcEvt, returnCbProcEvt, leaveCbProcEvt, queueVars
  <2>3. loop' = loop \/ (t = EvtProc /\ Dispatching(t) /\ loop' = "count")
    BY <1>1 DEF Dispatch, collectSubers, enterCbProcEvt, callCbProcEvt, returnCbProcEvt, leaveCbProcEvt, Dispatching
  <2>4. Dispatching(EvtProc) => loop = "dispatch"
    BY DEF IInv, CbOK
  <2> QED
    BY <2>1, <2>2, <2>3, <2>4 DEF BeingCalledBack
<1>2. CASE dequeueElementFirst /\ EvtDescQueue = <<>>
  BY <1>2 DEF dequeueElementFirst, BeingCalledBack, Dispatching
<1>3. CASE /\ CallApi(t) \/ ApiStep(t) \/ waitLinkObjNewEvtDesc \/ waitTimedOut
           /\ ~asyncEnqueue(t) /\ ~syncDispatch(t)
  <2>1. /\ EvtDescQueue' = EvtDescQueue /\ CallbacedEvtNum' = CallbacedEvtNum /\ cb' = cb
        /\ loop' = loop \/ (loop \in {"wait", "waiting"} /\ loop' \in {"waiting", "dequeue"})
    BY <1>3 DEF CallApi, ApiStep, getLinkObjLocked, putLinkObj, Post, postRefused, postAdmitted,
       asyncFull, asyncTimeout, countQueued, signalQueued, syncBusy, syncWait, SubOrUnsub, enterSubOrUnsub,
       insertSuber, removeSuber, leaveSubOrUnsub, ForceOrWakeup, forceSignal, forceReadQueued,
       forceReadCallbaced, waitLinkObjNewEvtDesc, waitTimedOut, wakeupLinkObjThread, queueVars
  <2> QED
    BY <2>1 DEF BeingCalledBack, Dispatching
<1> QED
  BY <1>1, <1>2, <1>3 DEF EvtProcThread

(* Events keep their place in the order of acceptance: what comes before the n-th callback keeps doing so. *)
LEMMA NextWithin ==
    ASSUME IInv, NEW t \in Threads, CallApi(t) \/ ApiStep(t) \/ Dispatch(t) \/ EvtProcThread,
           NEW P, NEW n \in Nat, Within(P, n), Accepts(t) => Event(t) \notin P
    PROVE  Within(P, n)'
<1>1. /\ EvtDescQueue \in Seq(Events) /\ CallbacedEvtNum \in Nat /\ cb \in [Threads -> CbRuns]
      /\ EvtProc \in Threads /\ Users \subseteq Threads /\ EvtProc \notin Users
  BY ConstantsOK DEF IInv, TypeOK
<1>2. Dispatching(EvtProc) <=> loop = "dispatch"
  BY DEF IInv, CbOK
<1>3. CASE asyncEnqueue(t)
  <2>1. /\ EvtDescQueue' = Append(EvtDescQueue, Event(t)) /\ cb' = cb /\ loop' = loop /\ CallbacedEvtNum' = CallbacedEvtNum
        /\ Event(t) \notin P
    BY <1>3 DEF asyncEnqueue, Accepts
  <2>2. \A i \in 1 .. Len(EvtDescQueue') : EvtDescQueue'[i] = Event(t) \/ (i \in 1 .. Len(EvtDescQueue) /\ EvtDescQueue'[i] = EvtDescQueue[i])
    BY <1>1, <2>1
  <2> QED
    BY <2>1, <2>2 DEF Within, Dispatching, BeingCalledBack
<1>4. CASE syncDispatch(t)
  <2>1. /\ EvtDescQueue' = EvtDescQueue /\ cb' = [cb EXCEPT ![t] = [at |-> "collect", evt |-> Event(t), todo |-> {}]]
        /\ loop' = loop /\ CallbacedEvtNum' = CallbacedEvtNum /\ Event(t) \notin P /\ pc[t] \in SyncLabels
    BY <1>4 DEF syncDispatch, Accepts, SyncLabels
  <2>2. t \in Users /\ t # EvtProc
    BY <1>1, <2>1 DEF IInv, OpOK
  <2>3. cb'[t].evt = Event(t) /\ \A u \in Threads : u # t => cb'[u] = cb[u]
    BY <1>1, <2>1
  <2> QED
    BY <1>1, <2>1, <2>2, <2>3 DEF Within, Dispatching, BeingCalledBack
<1>5. CASE dequeueElementFirst /\ EvtDescQueue # <<>>
  <2>1. /\ EvtDescQueue' = Tail(EvtDescQueue) /\ CallbacedEvtNum' = CallbacedEvtNum /\ loop = "dequeue" /\ loop' = "dispatch"
        /\ cb' = [cb EXCEPT ![EvtProc] = [at |-> "collect", evt |-> Head(EvtDescQueue), todo |-> {}]]
    BY <1>5 DEF dequeueElementFirst
  <2>2. cb'[EvtProc].evt = EvtDescQueue[1] /\ \A u \in Threads : u # EvtProc => cb'[u] = cb[u]
    BY <1>1, <1>5, <2>1
  <2>3. BeingCalledBack = 0 /\ BeingCalledBack' = 1
    BY <2>1 DEF BeingCalledBack
  <2>4. 1 \in 1 .. Len(EvtDescQueue) /\ \A i \in 1 .. Len(EvtDescQueue') : i + 1 \in 1 .. Len(EvtDescQueue) /\ EvtDescQueue'[i] = EvtDescQueue[i + 1]
    BY <1>1, <1>5, <2>1
  <2>5. cb'[EvtProc].evt \in P => CallbacedEvtNum' < n
    <3>1. EvtDescQueue[1] \in P => CallbacedEvtNum + BeingCalledBack + 1 <= n
      BY <2>4 DEF Within
    <3> QED
      BY <1>1, <2>1, <2>2, <2>3, <3>1
  <2>6. \A i \in 1 .. Len(EvtDescQueue') : EvtDescQueue'[i] \in P => CallbacedEvtNum' + BeingCalledBack' + i <= n
    <3>1. \A i \in 1 .. Len(EvtDescQueue') : EvtDescQueue'[i] \in P => CallbacedEvtNum + BeingCalledBack + (i + 1) <= n
      BY <2>4 DEF Within
    <3>2. Len(EvtDescQueue') \in Nat
      BY <1>1, <1>5, <2>1
    <3> QED
      BY <1>1, <2>1, <2>3, <3>1, <3>2
  <2> QED
    BY <1>1, <2>2, <2>5, <2>6 DEF Within, Dispatching
<1>6. CASE countCallbaced
  <2>1. /\ EvtDescQueue' = EvtDescQueue /\ CallbacedEvtNum' = CallbacedEvtNum + 1 /\ cb' = cb /\ loop = "count" /\ loop' = "dequeue"
    BY <1>6 DEF countCallbaced
  <2>2. BeingCalledBack = 1 /\ BeingCalledBack' = 0 /\ ~Dispatching(EvtProc)
    BY <1>2, <2>1 DEF BeingCalledBack
  <2>3. CallbacedEvtNum' + BeingCalledBack' = CallbacedEvtNum + BeingCalledBack
    BY <1>1, <2>1, <2>2
  <2> QED
    BY <2>1, <2>2, <2>3 DEF Within, Dispatching
<1>7. CASE /\ EvtDescQueue' = EvtDescQueue /\ CallbacedEvtNum' = CallbacedEvtNum /\ BeingCalledBack' = BeingCalledBack
           /\ \A u \in Threads : Dispatching(u)' => Dispatching(u) /\ cb'[u].evt = cb[u].evt
  BY <1>1, <1>7 DEF Within
<1> QED
  BY <1>3, <1>4, <1>5, <1>6, <1>7, QueueStep

(* An event whose post has returned was counted. *)
LEMMA PostedWithin ==
    ASSUME IInv, UncountedLast
    PROVE  Within(PostedAndUnprocessed, QueuedEvtNum)
<1>1. /\ EvtDescQueue \in Seq(Events) /\ CallbacedEvtNum \in Nat /\ QueuedEvtNum \in Nat /\ Len(EvtDescQueue) \in Nat
      /\ BeingCalledBack \in {0, 1} /\ (Dispatching(EvtProc) <=> loop = "dispatch") /\ Users \subseteq Threads
      /\ QueuedEvtNum + Uncounted = CallbacedEvtNum + BeingCalledBack + Len(EvtDescQueue)
  BY ConstantsOK DEF IInv, TypeOK, BeingCalledBack, CbOK, CountersOK
<1>2. loop = "dispatch" => BeingCalledBack = 1
  BY DEF BeingCalledBack
<1>3. \A u \in Users : Dispatching(u) => cb[u].evt \notin PostedAndUnprocessed
  BY <1>1 DEF PostedAndUnprocessed
<1>4. CASE \E u \in Threads : pc[u] \in UncountedLabels
  <2>1. PICK u \in Threads : pc[u] \in UncountedLabels
    BY <1>4
  <2>2. LastIs(Event(u)) /\ Uncounted = 1 /\ Event(u) \notin PostedAndUnprocessed
    BY <1>4, <2>1 DEF UncountedLast, Uncounted, PostedAndUnprocessed, Event, UncountedLabels
  <2>3. QueuedEvtNum + 1 = CallbacedEvtNum + BeingCalledBack + Len(EvtDescQueue)
    BY <1>1, <2>2
  <2>4. ASSUME Dispatching(EvtProc), cb[EvtProc].evt \in PostedAndUnprocessed
        PROVE  CallbacedEvtNum < QueuedEvtNum
    <3>1. EvtDescQueue # <<>>
      BY <1>1, <2>2, <2>4 DEF LastIs
    <3>2. Len(EvtDescQueue) > 0 /\ BeingCalledBack = 1
      BY <1>1, <1>2, <2>4, <3>1, EmptySeq
    <3> QED
      BY <1>1, <2>3, <3>2
  <2>5. ASSUME NEW i \in 1 .. Len(EvtDescQueue), EvtDescQueue[i] \in PostedAndUnprocessed
        PROVE  CallbacedEvtNum + BeingCalledBack + i <= QueuedEvtNum
    <3>1. i # Len(EvtDescQueue)
      BY <1>1, <2>2, <2>5 DEF LastIs
    <3> QED
      BY <1>1, <2>3, <3>1
  <2> QED
    BY <1>3, <2>4, <2>5 DEF Within
<1>5. CASE ~\E u \in Threads : pc[u] \in UncountedLabels
  <2>1. QueuedEvtNum = CallbacedEvtNum + BeingCalledBack + Len(EvtDescQueue)
    BY <1>1, <1>5 DEF Uncounted
  <2> QED
    BY <1>1, <1>2, <1>3, <2>1 DEF Within
<1> QED
  BY <1>4, <1>5

(* While a post is not counted, nobody queues another event. *)
LEMMA NextUncountedLast ==
    ASSUME IInv, FreshOK, UncountedLast, NEW t \in Threads, CallApi(t) \/ ApiStep(t) \/ Dispatch(t) \/ EvtProcThread
    PROVE  UncountedLast'
<1>1. /\ EvtDescQueue \in Seq(Events) /\ cb \in [Threads -> CbRuns] /\ EvtProc \in Threads
      /\ pc \in [Threads -> ApiLabels] /\ SubCalls /\ (Dispatching(EvtProc) <=> loop = "dispatch") /\ EvtProc \notin Users
  BY ConstantsOK DEF IInv, TypeOK, FreshOK, CbOK
<1>2. SUFFICES ASSUME NEW u \in Threads, pc'[u] \in UncountedLabels
               PROVE  LastIs(Event(u))'
  BY DEF UncountedLast
<1>3. /\ Event(u)' = Event(u)
      /\ (u = t /\ asyncEnqueue(t)) \/ pc[u] \in UncountedLabels
  <2>1. CASE u = t /\ CallApi(t)
    <3>1. \E l \in {"lock", "force", "wakeup"} : pc' = [pc EXCEPT ![t] = l]
      BY <2>1 DEF CallApi, Goto
    <3> QED
      BY <1>1, <1>2, <2>1, <3>1 DEF UncountedLabels
  <2>2. CASE u = t /\ ~CallApi(t)
    BY <1>1, <1>2, <2>2, OwnCall DEF Event
  <2>3. CASE u # t
    BY <1>2, <2>3, OthersStay DEF Event
  <2> QED
    BY <2>1, <2>2, <2>3
<1>4. CASE u = t /\ asyncEnqueue(t)
  <2>1. EvtDescQueue' = Append(EvtDescQueue, Event(u)) /\ EvtDescQueue' # <<>> /\ EvtDescQueue'[Len(EvtDescQueue')] = Event(u)
    BY <1>1, <1>4 DEF asyncEnqueue
  <2> QED
    BY <1>3, <2>1 DEF LastIs
<1>5. ASSUME pc[u] \in UncountedLabels, ~(u = t /\ asyncEnqueue(t))
      PROVE  LastIs(Event(u))'
  <2>1. LastIs(Event(u)) /\ pc[u] \in HeldLabels /\ LinkMutex = {u}
    BY <1>5 DEF UncountedLast, UncountedLabels, HeldLabels, ApiLabels, IInv, LinkMutexOK, Holds
  <2>2. ~asyncEnqueue(t) /\ ~syncDispatch(t)
    <3>1. ASSUME asyncEnqueue(t) \/ syncDispatch(t)
          PROVE  FALSE
      <4>1. pc[t] \in {"enqueue", "waitSpace", "sync", "syncWait"}
        BY <3>1 DEF asyncEnqueue, syncDispatch
      <4>2. pc[t] \in HeldLabels /\ pc[t] \notin UncountedLabels
        BY <4>1 DEF HeldLabels, ApiLabels, UncountedLabels
      <4> QED
        BY <1>5, <2>1, <4>2 DEF IInv, LinkMutexOK, Holds
    <3> QED
      BY <3>1
  <2>3. CASE dequeueElementFirst /\ EvtDescQueue # <<>>
    <3>1. /\ EvtDescQueue' = Tail(EvtDescQueue)
          /\ cb' = [cb EXCEPT ![EvtProc] = [at |-> "collect", evt |-> Head(EvtDescQueue), todo |-> {}]]
      BY <2>3 DEF dequeueElementFirst
    <3>2. cb'[EvtProc].evt = EvtDescQueue[1]
      BY <1>1, <2>3, <3>1
    <3>3. /\ EvtDescQueue' # <<>> => EvtDescQueue'[Len(EvtDescQueue')] = EvtDescQueue[Len(EvtDescQueue)]
          /\ EvtDescQueue' = <<>> => Len(EvtDescQueue) = 1
      <4>1. /\ EvtDescQueue' \in Seq(Events) /\ Len(EvtDescQueue') = Len(EvtDescQueue) - 1 /\ Len(EvtDescQueue) \in Nat \ {0}
            /\ \A i \in 1 .. Len(EvtDescQueue') : EvtDescQueue'[i] = EvtDescQueue[i + 1]
        BY <1>1, <2>3, <3>1, HeadTailProperties, EmptySeq
      <4>2. EvtDescQueue' # <<>> => Len(EvtDescQueue') \in 1 .. Len(EvtDescQueue')
        BY <4>1, EmptySeq
      <4>3. EvtDescQueue' = <<>> => Len(EvtDescQueue') = 0
        BY EmptySeq
      <4> QED
        BY <4>1, <4>2, <4>3
    <3> QED
      BY <1>3, <2>1, <2>3, <3>2, <3>3 DEF LastIs
  <2>4. CASE countCallbaced
    BY <1>3, <2>1, <2>4 DEF countCallbaced, LastIs
  <2>5. CASE /\ EvtDescQueue' = EvtDescQueue /\ (loop' = "dispatch" => loop = "dispatch")
             /\ \A v \in Threads : Dispatching(v)' => Dispatching(v) /\ cb'[v].evt = cb[v].evt
    <3>1. loop' = "dispatch" => cb'[EvtProc].evt = cb[EvtProc].evt
      <4>1. CbOK'
        BY NextCbOK
      <4>2. loop' = "dispatch" => Dispatching(EvtProc)'
        BY <4>1 DEF CbOK
      <4> QED
        BY <1>1, <2>5, <4>2
    <3> QED
      BY <1>3, <2>1, <2>5, <3>1 DEF LastIs
  <2> QED
    BY <2>2, <2>3, <2>4, <2>5, QueueStep
<1> QED
  BY <1>3, <1>4, <1>5

(* What forceProcEvt waits for was counted when it was called, and the counter never goes back. *)
LEMMA NextDrainOK ==
    ASSUME IInv, PostInv, NEW t \in Threads, CallApi(t) \/ ApiStep(t) \/ Dispatch(t) \/ EvtProcThread
    PROVE  DrainOK'
<1>1. /\ QueuedEvtNum \in Nat /\ seen \in [Threads -> Nat] /\ pc \in [Threads -> ApiLabels] /\ TypeOK /\ TypeOK'
      /\ SubCalls /\ DrainOK /\ FreshOK /\ UncountedLast /\ pending \in [Threads -> SUBSET Events]
  BY NextTypeOK DEF IInv, TypeOK, PostInv, FreshOK
<1>2. QueuedEvtNum' \in Nat /\ QueuedEvtNum <= QueuedEvtNum'
  <2>1. QueuedEvtNum' = QueuedEvtNum \/ QueuedEvtNum' = QueuedEvtNum + 1
    BY DEF CallApi, ApiStep, getLinkObjLocked, putLinkObj, Post, postRefused, postAdmitted, asyncEnqueue, syncDispatch,
       asyncFull, asyncTimeout, countQueued, signalQueued, syncBusy, syncWait, SubOrUnsub, enterSubOrUnsub,
       insertSuber, removeSuber, leaveSubOrUnsub, ForceOrWakeup, forceSignal, forceReadQueued,
       forceReadCallbaced, Dispatch, collectSubers, enterCbProcEvt, callCbProcEvt, returnCbProcEvt, leaveCbProcEvt,
       EvtProcThread, waitLinkObjNewEvtDesc, waitTimedOut, dequeueElementFirst, countCallbaced, queueVars
  <2> QED
    BY <1>1, <2>1
<1>3. ASSUME NEW u \in Threads, Forcing(u), pending'[u] = pending[u]
      PROVE  /\ Within(pending[u], QueuedEvtNum) /\ (Accepts(t) => Event(t) \notin pending[u])
             /\ pc[u] = "readCallbaced" => Within(pending[u], seen[u])
  <2>1. Accepts(t) => Unaccepted(t)
    BY DEF Accepts, asyncEnqueue, syncDispatch, Unaccepted
  <2>2. \A e \in pending[u] : e \in Known
    BY DEF Known
  <2> QED
    BY <1>1, <1>3, <2>1, <2>2 DEF DrainOK, FreshOK, NewUnknown, Event
<1>4. ASSUME NEW P, NEW n \in Nat, NEW m \in Nat, n <= m, Within(P, n), Accepts(t) => Event(t) \notin P
      PROVE  Within(P, m)'
  <2>1. Within(P, n)'
    BY <1>4, NextWithin
  <2>2. CallbacedEvtNum' \in Nat /\ BeingCalledBack' \in Nat /\ Len(EvtDescQueue') \in Nat
    BY <1>1 DEF TypeOK, BeingCalledBack
  <2> QED
    BY <1>4, <2>1, <2>2 DEF Within
<1>5. ASSUME NEW u \in Threads, Forcing(u)'
      PROVE  /\ Within(pending[u], QueuedEvtNum)'
             /\ pc'[u] = "readCallbaced" => Within(pending[u], seen[u])'
  <2>1. CASE u = t /\ CallApi(t)
    <3>1. PICK o \in UserOps \cup CallbackOps :
              /\ pc' = [pc EXCEPT ![t] = IF o.api \in {"force", "wakeup"} THEN o.api ELSE "lock"]
              /\ pending' = [pending EXCEPT ![t] = IF o.api = "force" THEN PostedAndUnprocessed ELSE {}]
              /\ UNCHANGED <<queueVars, loop, cb>>
      BY <2>1 DEF CallApi, Goto
    <3>2. pc'[t] = "force" /\ pending'[t] = PostedAndUnprocessed
      BY <1>1, <1>5, <2>1, <3>1 DEF Forcing
    <3>3. Within(PostedAndUnprocessed, QueuedEvtNum)
      BY <1>1, PostedWithin
    <3> QED
      BY <2>1, <3>1, <3>2, <3>3 DEF Within, Dispatching, BeingCalledBack, queueVars
  <2>2. CASE ~(u = t /\ CallApi(t))
    <3>1. /\ Forcing(u) /\ pending'[u] = pending[u]
          /\ pc'[u] = "readCallbaced" =>
                \/ pc[u] = "readCallbaced" /\ seen'[u] = seen[u]
                \/ pc[u] = "readQueued" /\ seen'[u] = QueuedEvtNum
      BY <1>1, <1>5, <2>2, OwnCall, OthersStay DEF Forcing
    <3>2. PICK Q, n, m, k :
              /\ Q = pending[u] /\ Q = pending'[u]
              /\ n = QueuedEvtNum /\ m = QueuedEvtNum' /\ k = seen'[u]
      BY <3>1
    <3>3. n \in Nat /\ m \in Nat /\ n <= n /\ n <= m
      BY <1>1, <1>2, <3>2
    <3>4. /\ Within(Q, n) /\ (Accepts(t) => Event(t) \notin Q)
          /\ pc[u] = "readCallbaced" => Within(Q, seen[u])
      BY <1>3, <3>1, <3>2
    <3>5. Within(Q, m)' /\ Within(Q, n)'
      BY <1>4, <3>3, <3>4
    <3>6. ASSUME pc'[u] = "readCallbaced"
          PROVE  Within(Q, k)'
      <4>1. CASE pc[u] = "readQueued" /\ seen'[u] = QueuedEvtNum
        BY <3>2, <3>5, <4>1
      <4>2. CASE pc[u] = "readCallbaced" /\ seen'[u] = seen[u]
        <5>1. k = seen[u] /\ k \in Nat /\ k <= k
          BY <1>1, <3>2, <4>2
        <5> QED
          BY <1>4, <3>4, <4>2, <5>1
      <4> QED
        BY <3>1, <3>6, <4>1, <4>2
    <3> QED
      BY <3>2, <3>5, <3>6 DEF Within
  <2> QED
    BY <2>1, <2>2
<1> QED
  BY <1>5 DEF DrainOK, Forcing, Within, Dispatching, BeingCalledBack

(* Every step keeps the three parts of the invariant about single events. *)
LEMMA NextPostInv == IInv /\ PostInv /\ [Next]_vars => PostInv'
<1> SUFFICES ASSUME IInv, PostInv, [Next]_vars PROVE PostInv'
  OBVIOUS
<1>1. ASSUME NEW t \in Threads, CallApi(t) \/ ApiStep(t) \/ Dispatch(t) \/ EvtProcThread PROVE PostInv'
  BY <1>1, NextFreshOK, NextUncountedLast, NextDrainOK DEF PostInv
<1>2. CASE UNCHANGED vars
  <2>1. /\ pc' = pc /\ op' = op /\ result' = result /\ calls' = calls /\ pending' = pending /\ seen' = seen
        /\ due' = due /\ cb' = cb /\ loop' = loop /\ EvtDescQueue' = EvtDescQueue
        /\ QueuedEvtNum' = QueuedEvtNum /\ CallbacedEvtNum' = CallbacedEvtNum
    BY <1>2 DEF vars, callVars, queueVars
  <2>2. FreshOK'
    <3>1. Known' = Known
      BY <2>1 DEF Known, Unprocessed, Dispatching
    <3> QED
      BY <2>1, <3>1 DEF PostInv, FreshOK, SubCalls, KnownOld, NewUnknown, Unaccepted
  <2>3. UncountedLast'
    BY <2>1 DEF PostInv, UncountedLast, LastIs, Event
  <2>4. DrainOK'
    BY <2>1 DEF PostInv, DrainOK, Forcing, Within, Dispatching, BeingCalledBack
  <2> QED
    BY <2>2, <2>3, <2>4 DEF PostInv
<1>3. EvtProc \in Threads
  BY ConstantsOK
<1> QED
  BY <1>1, <1>2, <1>3 DEF Next

(* Initially no event is known and no call is in progress. *)
LEMMA InitPostInv == Init => PostInv
<1> SUFFICES ASSUME Init PROVE PostInv
  OBVIOUS
<1>1. Known = {}
  BY DEF Init, Known, Unprocessed, Dispatching, NoCb
<1>2. \A t \in Threads : pc[t] = "idle"
  BY DEF Init
<1> QED
  BY <1>1, <1>2 DEF PostInv, FreshOK, SubCalls, KnownOld, NewUnknown, Unaccepted, UncountedLast, UncountedLabels,
     DrainOK, Forcing

(* So it holds always, next to IInv. *)
LEMMA PostInvHolds == Spec => [](IInv /\ PostInv)
<1>1. Init => IInv /\ PostInv
  BY InitIInv, InitPostInv
<1>2. IInv /\ PostInv /\ [Next]_vars => (IInv /\ PostInv)'
  BY NextIInv, NextPostInv
<1> QED
  BY <1>1, <1>2, PTL DEF Spec

(* A post that reports an error was never accepted, so posting again delivers the event once: an event is in
   nobody's books until the moment its post accepts it, and every post that accepts ends in SUCCESS. *)
THEOREM FailedNotAccepted == Spec => []ErrorMeansNotAccepted
<1>1. IInv /\ PostInv => ErrorMeansNotAccepted
  <2> SUFFICES ASSUME PostInv, NEW t \in Threads, pc[t] = "unlock", op[t].api = "post", result[t] # "SUCCESS",
                      Event(t) \in Unprocessed
               PROVE  FALSE
    BY DEF ErrorMeansNotAccepted
  <2>1. Unaccepted(t) /\ Event(t) \in Known
    BY DEF Unaccepted, Known
  <2>2. Event(t).by = t /\ Event(t).n = calls[t]
    BY DEF Event
  <2> QED
    BY <2>1, <2>2 DEF PostInv, FreshOK, NewUnknown
<1> QED
  BY <1>1, PostInvHolds, PTL

(* When forceProcEvt returns, what had been posted before it was called has been processed: those events
   were counted then, they are the first of the counted ones, and CallbacedEvtNum has reached a value of
   QueuedEvtNum that was read later. *)
THEOREM ForceDrains == Spec => ForceProcDrains
<1>1. ASSUME IInv, PostInv, Next, NEW u \in Threads, pc[u] = "readCallbaced", pc'[u] = "idle"
      PROVE  pending[u] \cap Unprocessed = {}
  <2>1. PICK t \in Threads : CallApi(t) \/ ApiStep(t) \/ Dispatch(t) \/ EvtProcThread
    BY <1>1, ConstantsOK DEF Next
  <2>2. u = t
    BY <1>1, <2>1, OthersStay
  <2>3. ~CallApi(u)
    BY <1>1 DEF CallApi, MayCall, IInv, TypeOK
  <2>4. seen[u] = CallbacedEvtNum /\ Within(pending[u], seen[u])
    BY <1>1, <2>1, <2>2, <2>3, OwnCall DEF PostInv, FreshOK, DrainOK
  <2>5. /\ CallbacedEvtNum \in Nat /\ BeingCalledBack \in Nat /\ Len(EvtDescQueue) \in Nat
        /\ \A t1 \in Threads : t1 = EvtProc \/ t1 \in Users
    BY <1>1 DEF IInv, TypeOK, BeingCalledBack, Threads
  <2>6. ASSUME NEW v \in Threads, Dispatching(v)
        PROVE  cb[v].evt \notin pending[u]
    BY <2>4, <2>5, <2>6 DEF Within
  <2>7. ASSUME NEW j \in 1 .. Len(EvtDescQueue)
        PROVE  EvtDescQueue[j] \notin pending[u]
    BY <2>4, <2>5, <2>7 DEF Within
  <2>8. ASSUME NEW i \in DOMAIN due
        PROVE  due[i] \notin pending[u]
    BY <1>1, <2>6, <2>7, <2>8, DueIs DEF Collecting, Dispatching
  <2> QED
    BY <2>6, <2>8 DEF Unprocessed
<1>2. IInv /\ PostInv /\ [Next]_vars
          => [\A t \in Threads : pc[t] = "readCallbaced" /\ pc'[t] = "idle" => pending[t] \cap Unprocessed = {}]_vars
  BY <1>1
<1> QED
  BY <1>2, PostInvHolds, PTL DEF Spec, ForceProcDrains

-----------------------------------------------------------------------------
(* The refinement of EventChannel. *)

(* Which call a thread is in, and what a synchronous post calls its consumers back for. *)
AsyncLabels == {"enqueue", "waitSpace", "fastCount", "fastSignal", "slowSignal", "slowCount"}
CallOK == \A t \in Threads :
    /\ pc[t] = "idle" => op[t] = NoOp
    /\ pc[t] \in {"force", "wakeup", "readQueued", "readCallbaced"} => op[t].api \in {"force", "wakeup"}
    /\ pc[t] \in SyncLabels => op[t].sync
    /\ pc[t] \in AsyncLabels => ~op[t].sync
    /\ pc[t] = "syncCb" => cb[t].evt = Event(t)

(* The event of a synchronous post that is going to report success was processed. *)
SyncDone == \A t \in Threads :
    pc[t] = "unlock" /\ op[t].api = "post" /\ op[t].sync /\ result[t] = "SUCCESS" => Event(t) \notin Unprocessed

(* A synchronous poster can only be in a nested call while a consumer is called. *)
NestedOK == \A t \in Users : cb[t].at \in {"collect", "enter", "next"} => pc[t] = "syncCb"

ChanInv == IInv /\ PostInv /\ CallOK /\ SyncDone /\ NestedOK

(* The initial states have no call and no callback. *)
LEMMA InitChanInv == Init => ChanInv
<1> SUFFICES ASSUME Init PROVE CallOK /\ SyncDone /\ NestedOK
  BY InitIInv, InitPostInv DEF ChanInv
<1> QED
  BY DEF Init, CallOK, SyncDone, NestedOK, NoCb, SyncLabels, AsyncLabels, Threads

(* A step of one thread leaves the callbacks of the others alone; only EvtProcThread's own steps and those
   of callbackProcEvtOverSuberList or a synchronous post change them at all. *)
LEMMA OthersCb ==
    ASSUME IInv, NEW t \in Threads, CallApi(t) \/ ApiStep(t) \/ Dispatch(t), NEW u \in Threads, u # t
    PROVE  cb'[u] = cb[u]
<1>0. cb \in [Threads -> CbRuns]
  BY DEF IInv, TypeOK
<1>1. CASE Dispatch(t)
  BY <1>1, SameEvent
<1>2. CASE CallApi(t) \/ ApiStep(t)
  <2>1. cb' = cb \/ syncDispatch(t)
    BY <1>2 DEF CallApi, ApiStep, getLinkObjLocked, putLinkObj, Post, postRefused, postAdmitted, asyncEnqueue,
       asyncFull, asyncTimeout, countQueued, signalQueued, syncBusy, syncWait, SubOrUnsub, enterSubOrUnsub,
       insertSuber, removeSuber, leaveSubOrUnsub, ForceOrWakeup, forceSignal, forceReadQueued, forceReadCallbaced
  <2>2. CASE syncDispatch(t)
    BY <1>0, <2>2 DEF syncDispatch
  <2> QED
    BY <2>1, <2>2
<1> QED
  BY <1>1, <1>2

(* The labels of a synchronous and of an asynchronous post are never mixed, and a callback keeps its event. *)
LEMMA NextCallOK ==
    ASSUME ChanInv, NEW t \in Threads, CallApi(t) \/ ApiStep(t) \/ Dispatch(t) \/ EvtProcThread
    PROVE  CallOK'
<1>0. /\ pc \in [Threads -> ApiLabels] /\ result \in [Threads -> Results] /\ op \in [Threads -> Ops \cup {NoOp}]
      /\ calls \in [Threads -> Nat] /\ cb \in [Threads -> CbRuns] /\ CallOK /\ OpOK /\ CbOK /\ IInv
      /\ EvtProc \notin Users /\ Threads = Users \cup {EvtProc}
  BY ConstantsOK DEF ChanInv, IInv, TypeOK, Threads
<1> DEFINE
      Good(u) ==
        /\ pc[u] = "idle" => op[u] = NoOp
        /\ pc[u] \in {"force", "wakeup", "readQueued", "readCallbaced"} => op[u].api \in {"force", "wakeup"}
        /\ pc[u] \in SyncLabels => op[u].sync
        /\ pc[u] \in AsyncLabels => ~op[u].sync
        /\ pc[u] = "syncCb" => cb[u].evt = Event(u)
<1>g. \A u \in Threads : Good(u)
  BY <1>0 DEF CallOK
<1> SUFFICES \A u \in Threads : Good(u)'
  BY DEF CallOK
<1>1. ASSUME NEW u \in Threads, pc'[u] = pc[u], op'[u] = op[u], calls'[u] = calls[u],
             pc[u] = "syncCb" => cb'[u].evt = cb[u].evt
      PROVE  Good(u)'
  BY <1>1, <1>g DEF Event
<1>2. CASE EvtProcThread
  <2>1. /\ pc' = pc /\ op' = op /\ calls' = calls
        /\ cb' = cb \/ \E r : cb' = [cb EXCEPT ![EvtProc] = r]
    BY <1>2 DEF EvtProcThread, waitLinkObjNewEvtDesc, waitTimedOut, dequeueElementFirst, countCallbaced, callVars
  <2>2. \A u \in Users : cb'[u] = cb[u]
    BY <1>0, <2>1
  <2>3. pc[EvtProc] # "syncCb"
    BY <1>0 DEF OpOK, SyncLabels
  <2> QED
    BY <1>0, <1>1, <2>1, <2>2, <2>3
<1>3. ASSUME CallApi(t) \/ ApiStep(t) \/ Dispatch(t), NEW u \in Threads, u # t
      PROVE  Good(u)'
  BY <1>0, <1>1, <1>3, OthersStay, OthersCb
<1>4. ASSUME CallApi(t)
      PROVE  Good(t)'
  <2>1. PICK o \in UserOps \cup CallbackOps :
           /\ MayCall(t, o) /\ op' = [op EXCEPT ![t] = o]
           /\ pc' = [pc EXCEPT ![t] = IF o.api \in {"force", "wakeup"} THEN o.api ELSE "lock"]
    BY <1>4 DEF CallApi, Goto
  <2>2. op'[t] = o /\ pc'[t] = IF o.api \in {"force", "wakeup"} THEN o.api ELSE "lock"
    BY <1>0, <2>1
  <2> QED
    BY <2>2 DEF SyncLabels, AsyncLabels
<1>5. ASSUME Dispatch(t)
      PROVE  Good(t)'
  <2>1. op' = op /\ calls' = calls /\ (pc' = pc \/ (pc' = [pc EXCEPT ![t] = "unlock"]))
    BY <1>5 DEF Dispatch, collectSubers, enterCbProcEvt, callCbProcEvt, returnCbProcEvt, leaveCbProcEvt, Finish, Goto,
       callVars
  <2>2. CASE pc' = [pc EXCEPT ![t] = "unlock"]
    BY <1>0, <2>2 DEF SyncLabels, AsyncLabels
  <2>3. CASE pc' = pc
    <3>1. pc[t] = "syncCb" => cb'[t].at # "none"
      <4>1. CASE leaveCbProcEvt(t)
        <5>1. t = EvtProc
          BY <1>0, <2>3, <4>1 DEF leaveCbProcEvt, Finish, Goto, CbOK, Dispatching
        <5> QED
          BY <1>0, <5>1 DEF OpOK, SyncLabels
      <4>2. CASE ~leaveCbProcEvt(t)
        <5>1. /\ cb[t].at # "none"
              /\ \/ \E at \in {"enter", "next", "body"} : cb' = [cb EXCEPT ![t].at = at]
                 \/ \E at \in {"enter", "next", "body"} : \E todo : cb' = [cb EXCEPT ![t].at = at, ![t].todo = todo]
          BY <1>5, <4>2 DEF Dispatch, collectSubers, enterCbProcEvt, callCbProcEvt, returnCbProcEvt
        <5> QED
          BY ONLY <1>0, <5>1, t \in Threads DEF CbRuns
      <4> QED
        BY <4>1, <4>2
    <3>2. pc[t] = "syncCb" => cb'[t].evt = cb[t].evt
      BY <1>0, <1>5, <3>1, SameEvent
    <3> QED
      BY <1>1, <2>1, <2>3, <3>2
  <2> QED
    BY <2>1, <2>2, <2>3
<1>6. ASSUME Post(t)
      PROVE  Good(t)'
  <2>0. op' = op /\ calls' = calls /\ pc[t] \in PostLabels \ {"syncCb"}
    BY <1>6 DEF Post, postRefused, postAdmitted, asyncEnqueue, asyncFull, asyncTimeout, countQueued, signalQueued,
       syncDispatch, syncBusy, syncWait, callVars, PostLabels
  <2>1. CASE syncDispatch(t)
    <3>1. pc'[t] = "syncCb" /\ cb'[t].evt = Event(t) /\ op[t].sync
      BY <1>0, <1>g, <2>1 DEF syncDispatch, Goto, SyncLabels
    <3> QED
      BY <2>0, <3>1 DEF Event, SyncLabels, AsyncLabels
  <2>2. CASE asyncEnqueue(t)
    <3>1. pc'[t] \in AsyncLabels /\ pc[t] \in AsyncLabels
      BY <1>0, <2>2 DEF asyncEnqueue, Goto, AsyncLabels
    <3> QED
      BY <1>g, <2>0, <3>1 DEF SyncLabels, AsyncLabels
  <2>3. CASE postAdmitted(t)
    <3>0. op[t] \in PostOps
      BY <1>0, <2>3 DEF postAdmitted, OpOK, PostLabels
    <3>1. pc'[t] = CASE op[t].sync -> "sync" [] ~op[t].sync /\ op[t].block = "Timeout" -> "waitSpace" [] OTHER -> "enqueue"
      BY <1>0, <2>3 DEF postAdmitted, Goto
    <3>2. op[t].sync \in BOOLEAN
      BY <3>0 DEF PostOps
    <3>3. IF op[t].sync THEN pc'[t] = "sync" ELSE pc'[t] \in {"waitSpace", "enqueue"}
      BY <3>1, <3>2
    <3> QED
      BY <2>0, <3>2, <3>3 DEF SyncLabels, AsyncLabels
  <2>4. CASE postRefused(t) \/ asyncFull(t) \/ asyncTimeout(t) \/ countQueued(t) \/ signalQueued(t) \/ syncBusy(t) \/ syncWait(t)
    <3>1. \/ pc' = [pc EXCEPT ![t] = "unlock"]
          \/ pc[t] \in AsyncLabels /\ \E l \in AsyncLabels : pc' = [pc EXCEPT ![t] = l]
          \/ pc[t] \in {"sync", "syncWait"} /\ pc' = [pc EXCEPT ![t] = "syncWait"]
          \/ pc' = pc
      BY <2>4 DEF postRefused, asyncFull, asyncTimeout, countQueued, signalQueued, syncBusy, syncWait, Finish, Goto, AsyncLabels
    <3>2. \/ pc'[t] = "unlock"
          \/ pc[t] \in AsyncLabels /\ pc'[t] \in AsyncLabels
          \/ pc[t] \in SyncLabels /\ pc'[t] = "syncWait"
          \/ pc'[t] = pc[t]
      BY ONLY <1>0, <3>1, t \in Threads DEF SyncLabels
    <3> QED
      BY <1>g, <2>0, <3>2 DEF SyncLabels, AsyncLabels
  <2> QED
    BY <1>6, <2>1, <2>2, <2>3, <2>4 DEF Post
<1>7. ASSUME SubOrUnsub(t) \/ getLinkObjLocked(t)
      PROVE  Good(t)'
  <2>1. \E l \in {"post", "sub", "unsub", "insert", "remove", "leaveSub", "leaveUnsub", "unlock"} : pc' = [pc EXCEPT ![t] = l]
    BY <1>0, <1>7 DEF SubOrUnsub, getLinkObjLocked, enterSubOrUnsub, insertSuber, removeSuber, leaveSubOrUnsub, Goto, OpOK,
       PostOps, SubOps
  <2>2. pc'[t] \in {"post", "sub", "unsub", "insert", "remove", "leaveSub", "leaveUnsub", "unlock"}
    BY <1>0, <2>1
  <2> QED
    BY <2>2 DEF SyncLabels, AsyncLabels
<1>8. ASSUME putLinkObj(t) \/ ForceOrWakeup(t)
      PROVE  Good(t)'
  <2>1. \/ Return(t)
        \/ /\ \E l \in {"force", "readQueued", "readCallbaced"} : pc' = [pc EXCEPT ![t] = l]
           /\ op' = op /\ pc[t] \in {"force", "readQueued", "readCallbaced"}
    BY <1>8 DEF putLinkObj, ForceOrWakeup, forceSignal, forceReadQueued, forceReadCallbaced, Goto
  <2>2. CASE Return(t)
    <3>1. pc'[t] = "idle" /\ op'[t] = NoOp
      BY <1>0, <2>2 DEF Return, Goto
    <3> QED
      BY <3>1 DEF SyncLabels, AsyncLabels
  <2>3. CASE ~Return(t)
    <3>1. pc'[t] \in {"force", "readQueued", "readCallbaced"} /\ op'[t] = op[t] /\ pc[t] \in {"force", "readQueued", "readCallbaced"}
      BY <1>0, <2>1, <2>3
    <3> QED
      BY <1>g, <3>1 DEF SyncLabels, AsyncLabels
  <2> QED
    BY <2>2, <2>3
<1> HIDE DEF Good
<1> QED
  BY <1>2, <1>3, <1>4, <1>5, <1>6, <1>7, <1>8 DEF ApiStep

(* A synchronous post succeeds when its callbacks are over; nothing else was accepted meanwhile. *)
LEMMA NextSyncDone ==
    ASSUME ChanInv, NEW t \in Threads, CallApi(t) \/ ApiStep(t) \/ Dispatch(t) \/ EvtProcThread
    PROVE  SyncDone'
<1>0. /\ pc \in [Threads -> ApiLabels] /\ result \in [Threads -> Results] /\ op \in [Threads -> Ops \cup {NoOp}]
      /\ calls \in [Threads -> Nat] /\ cb \in [Threads -> CbRuns] /\ CallOK /\ OpOK /\ CbOK /\ IInv /\ SyncDone /\ SubCalls
  BY DEF ChanInv, IInv, TypeOK, PostInv, FreshOK
<1> SUFFICES ASSUME NEW u \in Threads, pc'[u] = "unlock", op'[u].api = "post", op'[u].sync, result'[u] = "SUCCESS"
             PROVE  Event(u)' \notin Unprocessed'
  BY DEF SyncDone
<1>1. CASE pc'[u] = pc[u] /\ op'[u] = op[u] /\ result'[u] = result[u] /\ calls'[u] = calls[u]
  <2>1. Event(u)' = Event(u) /\ Event(u) \notin Unprocessed
    BY <1>0, <1>1 DEF Event, SyncDone
  <2>2. Accepts(t) => t # u
    BY <1>1 DEF Accepts, asyncEnqueue, syncDispatch
  <2>3. t # u => Event(t) # Event(u)
    BY DEF Event
  <2> QED
    BY <1>0, <2>1, <2>2, <2>3, NextUnprocessed
<1>2. CASE u # t
  BY <1>0, <1>1, <1>2, OthersStay
<1>3. CASE EvtProcThread
  BY <1>1, <1>3 DEF EvtProcThread, waitLinkObjNewEvtDesc, waitTimedOut, dequeueElementFirst, countCallbaced, callVars
<1>4. CASE u = t /\ Dispatch(t)
  <2>1. CASE ~leaveCbProcEvt(t)
    BY <1>1, <1>4, <2>1 DEF Dispatch, collectSubers, enterCbProcEvt, callCbProcEvt, returnCbProcEvt, callVars
  <2>2. CASE leaveCbProcEvt(t) /\ t = EvtProc
    BY <1>1, <1>4, <2>2 DEF leaveCbProcEvt, callVars
  <2>3. CASE leaveCbProcEvt(t) /\ t # EvtProc
    <3>1. t \in Users /\ Dispatching(t) /\ ~Collecting(t) /\ \A v \in Threads : Dispatching(v) => v = t
      BY <1>0, <2>3, Exclusion DEF leaveCbProcEvt, Dispatching, Collecting, CallbackExclusion, Threads
    <3>2. EvtDescQueue = <<>> /\ InHand = <<>>
      BY <1>0, <3>1 DEF IInv, SyncOK, InHand, Collecting, Dispatching
    <3>3. due' = <<>>
      BY <1>0, <2>3, <3>2 DEF IInv, DeliveryOrder, leaveCbProcEvt
    <3>4. \A v \in Threads : ~Dispatching(v)'
      BY <1>0, <2>3, <3>1 DEF leaveCbProcEvt, Dispatching, NoCb
    <3> QED
      BY <3>3, <3>4 DEF Unprocessed
  <2> QED
    BY <1>4, <2>1, <2>2, <2>3
<1>5. CASE u = t /\ Post(t)
  <2>1. op' = op
    BY <1>5 DEF Post, postRefused, postAdmitted, asyncEnqueue, asyncFull, asyncTimeout, countQueued, signalQueued,
       syncDispatch, syncBusy, syncWait, callVars
  <2>2. CASE countQueued(t) \/ signalQueued(t)
    BY <1>0, <1>5, <2>1, <2>2 DEF countQueued, signalQueued, CallOK, AsyncLabels
  <2>3. CASE postRefused(t) \/ asyncFull(t) \/ asyncTimeout(t) \/ syncBusy(t) \/ syncWait(t)
    <3>1. \/ \E r \in Results \ {"SUCCESS"} : result' = [result EXCEPT ![t] = r]
          \/ \E l \in {"waitSpace", "syncWait"} : pc' = [pc EXCEPT ![t] = l]
          \/ pc' = pc /\ pc[t] = "syncWait"
      BY <2>3 DEF postRefused, asyncFull, asyncTimeout, syncBusy, syncWait, Finish, Goto, Results
    <3> QED
      BY <1>0, <1>5, <3>1
  <2>4. CASE postAdmitted(t) \/ asyncEnqueue(t) \/ syncDispatch(t)
    <3>1. \E l \in {"sync", "waitSpace", "enqueue", "fastCount", "slowSignal", "syncCb"} : pc' = [pc EXCEPT ![t] = l]
      BY <2>4 DEF postAdmitted, asyncEnqueue, syncDispatch, Goto
    <3> QED
      BY <1>0, <1>5, <3>1
  <2> QED
    BY <1>5, <2>2, <2>3, <2>4 DEF Post
<1>6. CASE u = t /\ SubOrUnsub(t)
  <2>1. op[t] \in SubOps /\ op' = op
    BY <1>0, <1>6 DEF SubOrUnsub, enterSubOrUnsub, insertSuber, insertRefused, removeSuber, leaveSubOrUnsub, callVars, OpOK, SubCalls
  <2> QED
    BY <1>6, <2>1 DEF SubOps
<1>7. CASE u = t /\ (getLinkObjLocked(t) \/ putLinkObj(t) \/ ForceOrWakeup(t) \/ CallApi(t))
  <2>1. \E l \in {"post", "sub", "unsub", "idle", "lock", "force", "wakeup", "readQueued", "readCallbaced"} : pc' = [pc EXCEPT ![t] = l]
    BY <1>0, <1>7 DEF getLinkObjLocked, putLinkObj, ForceOrWakeup, forceSignal, forceReadQueued, forceReadCallbaced, CallApi,
       Return, Goto, OpOK, PostOps, SubOps
  <2> QED
    BY <1>0, <1>7, <2>1
<1> QED
  BY <1>2, <1>3, <1>4, <1>5, <1>6, <1>7 DEF ApiStep

(* Between two callbacks a synchronous poster is in no other call. *)
LEMMA NextNestedOK ==
    ASSUME ChanInv, NEW t \in Threads, CallApi(t) \/ ApiStep(t) \/ Dispatch(t) \/ EvtProcThread
    PROVE  NestedOK'
<1>0. /\ pc \in [Threads -> ApiLabels] /\ cb \in [Threads -> CbRuns] /\ CbOK /\ NestedOK /\ IInv
      /\ EvtProc \notin Users /\ Users \subseteq Threads
  BY ConstantsOK DEF ChanInv, IInv, TypeOK
<1> SUFFICES ASSUME NEW u \in Users, cb'[u].at \in {"collect", "enter", "next"} PROVE pc'[u] = "syncCb"
  BY DEF NestedOK
<1>1. CASE EvtProcThread
  <2>1. pc' = pc /\ (cb' = cb \/ \E r : cb' = [cb EXCEPT ![EvtProc] = r])
    BY <1>1 DEF EvtProcThread, waitLinkObjNewEvtDesc, waitTimedOut, dequeueElementFirst, countCallbaced
  <2> QED
    BY <1>0, <2>1 DEF NestedOK
<1>2. CASE u # t /\ ~EvtProcThread
  BY <1>0, <1>2, OthersStay, OthersCb DEF NestedOK
<1>3. CASE u = t /\ Dispatch(t)
  <2>1. CASE leaveCbProcEvt(t)
    BY <1>0, <1>3, <2>1 DEF leaveCbProcEvt, NoCb
  <2>2. CASE returnCbProcEvt(t)
    BY <1>0, <1>3, <2>2 DEF returnCbProcEvt, CbOK, Dispatching
  <2>3. CASE callCbProcEvt(t)
    <3>1. cb' = [cb EXCEPT ![t].at = "body"]
      BY <2>3 DEF callCbProcEvt
    <3> QED
      BY <1>0, <1>3, <3>1 DEF CbRuns
  <2>4. CASE collectSubers(t) \/ enterCbProcEvt(t)
    BY <1>0, <1>3, <2>4 DEF collectSubers, enterCbProcEvt, NestedOK
  <2> QED
    BY <1>3, <2>1, <2>2, <2>3, <2>4 DEF Dispatch
<1>4. CASE u = t /\ CallApi(t)
  <2>1. cb' = cb /\ cb[t].at \in {"none", "body"}
    BY <1>4 DEF CallApi, MayCall
  <2> QED
    BY <1>4, <2>1
<1>5. CASE u = t /\ ApiStep(t)
  <2>1. CASE syncDispatch(t)
    BY <1>0, <1>5, <2>1 DEF syncDispatch, Goto
  <2>2. CASE ~syncDispatch(t)
    <3>1. cb' = cb /\ pc[t] # "syncCb"
      BY <1>5, <2>2 DEF ApiStep, getLinkObjLocked, putLinkObj, Post, postRefused, postAdmitted, asyncEnqueue,
         asyncFull, asyncTimeout, countQueued, signalQueued, syncBusy, syncWait, SubOrUnsub, enterSubOrUnsub,
         insertSuber, removeSuber, leaveSubOrUnsub, ForceOrWakeup, forceSignal, forceReadQueued, forceReadCallbaced
    <3> QED
      BY <1>0, <1>5, <3>1 DEF NestedOK
  <2> QED
    BY <2>1, <2>2
<1> QED
  BY <1>1, <1>2, <1>3, <1>4, <1>5

(* The invariant that the refinement rests on is inductive. *)
LEMMA NextChanInv == ChanInv /\ [Next]_vars => ChanInv'
<1> SUFFICES ASSUME ChanInv, [Next]_vars PROVE ChanInv'
  OBVIOUS
<1>0. IInv' /\ PostInv'
  BY NextIInv, NextPostInv DEF ChanInv
<1>1. CASE Next
  <2>1. PICK t \in Threads : CallApi(t) \/ ApiStep(t) \/ Dispatch(t) \/ EvtProcThread
    BY <1>1, ConstantsOK DEF Next
  <2> QED
    BY <1>0, <2>1, NextCallOK, NextSyncDone, NextNestedOK DEF ChanInv
<1>2. CASE UNCHANGED vars
  BY <1>0, <1>2 DEF ChanInv, vars, callVars, CallOK, SyncDone, NestedOK, Event, Unprocessed, Dispatching
<1> QED
  BY <1>1, <1>2

(* What the channel holds is what is unprocessed. *)
LEMMA ChannelHolds ==
    ASSUME IInv, NEW e, Channel!InChannel(e)
    PROVE  e \in Unprocessed
<1>1. CASE e \in BeingHandled
  BY <1>1 DEF BeingHandled, Calling, Unprocessed, Dispatching
<1>2. CASE e \notin BeingHandled
  <2>1. PICK i \in DOMAIN (InHand \o EvtDescQueue) : (InHand \o EvtDescQueue)[i] = e
    BY <1>2 DEF Channel!InChannel
  <2> QED
    BY <2>1 DEF IInv, DeliveryOrder, Unprocessed
<1> QED
  BY <1>1, <1>2

(* The channel holds events; the one whose consumers are being called is out of the queue. *)
ContentsOK ==
    /\ InHand \in Seq(Events) /\ EvtDescQueue \in Seq(Events)
    /\ \A t \in Threads : cb[t].at \in Calling => BeingHandled = {cb[t].evt} /\ InHand = <<>>
    /\ \A t \in Threads : Collecting(t) => BeingHandled = {} /\ InHand = <<cb[t].evt>>
    /\ (\A t \in Threads : ~Dispatching(t)) => BeingHandled = {} /\ InHand = <<>>

(* It follows from the exclusion of callbacks. *)
LEMMA ContentsAreOK == IInv => ContentsOK
<1> SUFFICES ASSUME IInv PROVE ContentsOK
  OBVIOUS
<1>0. CallbackExclusion /\ CbOK /\ EvtDescQueue \in Seq(Events)
  BY Exclusion DEF IInv, TypeOK
<1>1. ASSUME NEW t \in Threads, cb[t].at \in Calling
      PROVE  BeingHandled = {cb[t].evt} /\ InHand = <<>>
  <2>1. \A u \in Threads : cb[u].at # "none" => u = t
    BY <1>0, <1>1 DEF CallbackExclusion, Dispatching, Calling
  <2> QED
    BY <1>1, <2>1 DEF BeingHandled, Calling, InHand, Collecting
<1>2. ASSUME NEW t \in Threads, Collecting(t)
      PROVE  BeingHandled = {} /\ InHand = <<cb[t].evt>>
  <2>1. \A u \in Threads : cb[u].at # "none" => u = t
    BY <1>0, <1>2 DEF CallbackExclusion, Dispatching, Collecting
  <2> QED
    BY <1>0, <1>2, <2>1, InHandIs DEF BeingHandled, Calling, Collecting
<1>3. (\A t \in Threads : ~Dispatching(t)) => BeingHandled = {} /\ InHand = <<>>
  BY DEF Dispatching, BeingHandled, Calling, InHand, Collecting
<1>4. InHand \in Seq(Events)
  <2>1. CASE \E t \in Threads : Collecting(t)
    <3>1. PICK t \in Threads : Collecting(t)
      BY <2>1
    <3>2. cb[t].evt \in Events
      BY <1>0, <3>1 DEF CbOK, Collecting, Dispatching
    <3>3. <<cb[t].evt>> \in Seq(Events) /\ InHand = <<cb[t].evt>>
      BY <1>2, <3>1, <3>2
    <3> QED
      BY <3>3
  <2> QED
    BY <2>1 DEF InHand
<1> QED
  BY <1>0, <1>1, <1>2, <1>3, <1>4 DEF ContentsOK

(* A step of one thread leaves the other threads' posts where they are. *)
OthersPost(t) == \A u \in Threads : u # t => PostingOf(u)' = PostingOf(u)
(* So says OthersStay of the calls, and OthersCb of the callbacks. *)
LEMMA OthersPosting ==
    ASSUME IInv, NEW t \in Threads,
           CallApi(t) \/ ApiStep(t) \/ Dispatch(t) \/ (EvtProcThread /\ t = EvtProc)
    PROVE  OthersPost(t)
<1> SUFFICES ASSUME NEW u \in Threads, u # t PROVE PostingOf(u)' = PostingOf(u)
  BY DEF OthersPost
<1>0. cb \in [Threads -> CbRuns]
  BY DEF IInv, TypeOK
<1>1. pc'[u] = pc[u] /\ op'[u] = op[u] /\ result'[u] = result[u] /\ calls'[u] = calls[u]
  BY OthersStay
<1>2. cb'[u] = cb[u]
  <2>1. CASE CallApi(t) \/ ApiStep(t) \/ Dispatch(t)
    BY <2>1, OthersCb
  <2>2. CASE EvtProcThread /\ t = EvtProc
    <3>1. cb' = cb \/ \E r : cb' = [cb EXCEPT ![EvtProc] = r]
      BY <2>2 DEF EvtProcThread, waitLinkObjNewEvtDesc, waitTimedOut, dequeueElementFirst, countCallbaced
    <3> QED
      BY <1>0, <2>2, <3>1
  <2> QED
    BY <2>1, <2>2
<1> QED
  BY <1>1, <1>2 DEF PostingOf, Dispatching, Progress, Event

(* The post of a thread, by what it is doing. *)
Nested(t) == t \in Users /\ Dispatching(t)
LEMMA PostingIs ==
    ASSUME NEW t
    PROVE  /\ Nested(t) => PostingOf(t) = [at |-> "accepted", sync |-> TRUE, evt |-> cb[t].evt]
           /\ ~Nested(t) /\ op[t].api = "post" =>
                 PostingOf(t) = [at |-> Progress(t), sync |-> op[t].sync, evt |-> Event(t)]
           /\ ~Nested(t) /\ op[t].api # "post" => PostingOf(t) = [at |-> "none"]
  BY DEF PostingOf, Nested

(* The same after a step. *)
LEMMA PostingIsNext ==
    ASSUME NEW t
    PROVE  /\ Nested(t)' => PostingOf(t)' = [at |-> "accepted", sync |-> TRUE, evt |-> cb'[t].evt]
           /\ ~Nested(t)' /\ op'[t].api = "post" =>
                 PostingOf(t)' = [at |-> Progress(t)', sync |-> op'[t].sync, evt |-> Event(t)']
           /\ ~Nested(t)' /\ op'[t].api # "post" => PostingOf(t)' = [at |-> "none"]
  BY DEF PostingOf, Nested

(* A thread's post moves, and nothing else of the posts does. *)
LEMMA PostMoves ==
    ASSUME NEW t \in Threads, OthersPost(t)
    PROVE  /\ Channel!Move(t, PostingOf(t)')
           /\ PostingOf(t)' = PostingOf(t) => [u \in Threads |-> PostingOf(u)]' = [u \in Threads |-> PostingOf(u)]
  BY DEF OthersPost, Channel!Move

(* The channel's contents follow from the callbacks and the queue. *)
SameContents == cb' = cb /\ EvtDescQueue' = EvtDescQueue
(* They stay when neither changes. *)
LEMMA ContentsStay ==
    ASSUME SameContents
    PROVE  (InHand \o EvtDescQueue)' = InHand \o EvtDescQueue /\ BeingHandled' = BeingHandled
  BY DEF SameContents, InHand, Collecting, BeingHandled

(* A step that changes no post and no contents is a stutter of the channel. *)
LEMMA PostStays ==
    ASSUME NEW t \in Threads, OthersPost(t), PostingOf(t)' = PostingOf(t),
           (InHand \o EvtDescQueue)' = InHand \o EvtDescQueue, BeingHandled' = BeingHandled
    PROVE  UNCHANGED Channel!chvars
  BY PostMoves DEF Channel!chvars

(* A call of a posting function is a new post of a new event. *)
LEMMA CallBegins ==
    ASSUME ChanInv, ChanInv', NEW t \in Threads, CallApi(t)
    PROVE  [Channel!Next]_(Channel!chvars)
<1>0. /\ pc \in [Threads -> ApiLabels] /\ op \in [Threads -> Ops \cup {NoOp}] /\ result \in [Threads -> Results]
      /\ calls \in [Threads -> Nat] /\ CallOK /\ OpOK /\ IInv /\ IInv' /\ FreshOK /\ CbOK
      /\ EvtProc \notin Users /\ Threads = Users \cup {EvtProc} /\ TypeOK' /\ OpOK'
  <2>1. IInv /\ IInv' /\ PostInv /\ CallOK
    BY DEF ChanInv
  <2>2. TypeOK /\ OpOK /\ CbOK /\ FreshOK /\ TypeOK' /\ OpOK'
    BY <2>1 DEF IInv, PostInv
  <2>3. /\ pc \in [Threads -> ApiLabels] /\ op \in [Threads -> Ops \cup {NoOp}] /\ result \in [Threads -> Results]
        /\ calls \in [Threads -> Nat]
    BY <2>2, ConstantsOK DEF TypeOK
  <2> QED
    BY <2>1, <2>2, <2>3, ConstantsOK DEF Threads
<1>1. SameContents /\ OthersPost(t)
  <2>1. SameContents
    BY DEF CallApi, SameContents, queueVars
  <2> QED
    BY <1>0, <2>1, OthersPosting
<1>2. PICK o \in UserOps \cup CallbackOps :
         /\ MayCall(t, o) /\ op' = [op EXCEPT ![t] = o]
         /\ pc' = [pc EXCEPT ![t] = IF o.api \in {"force", "wakeup"} THEN o.api ELSE "lock"]
  BY DEF CallApi, Goto
<1>3. op'[t] = o /\ pc'[t] = (IF o.api \in {"force", "wakeup"} THEN o.api ELSE "lock") /\ calls'[t] = calls[t] + 1
  BY <1>0, <1>2 DEF CallApi
<1>4. CASE Nested(t)
  <2>1. PostingOf(t)' = PostingOf(t)
    BY <1>1, <1>4, PostingIs, PostingIsNext DEF Nested, Dispatching, SameContents
  <2> QED
    BY <1>1, <2>1, ContentsStay, PostStays
<1>5. CASE ~Nested(t)
  <2>1. pc[t] = "idle"
    BY <1>0, <1>2, <1>5 DEF Nested, MayCall, OpOK, SyncLabels, Dispatching
  <2>2. PostingOf(t) = [at |-> "none"]
    BY <1>0, <1>5, <2>1, PostingIs DEF CallOK, NoOp
  <2>3. CASE o.api # "post"
    <3>1. PostingOf(t)' = PostingOf(t)
      BY <1>1, <1>3, <1>5, <2>2, <2>3, PostingIsNext DEF Nested, Dispatching, SameContents
    <3> QED
      BY <1>1, <3>1, ContentsStay, PostStays
  <2>4. CASE o.api = "post"
    <3>1. PostingOf(t)' = [at |-> "begun", sync |-> o.sync, evt |-> Event(t)']
      BY <1>1, <1>3, <1>5, <2>4, PostingIsNext DEF Nested, Dispatching, SameContents, Progress
    <3>2. o \in PostOps
      <4>1. pc'[t] = "lock"
        BY <1>3, <2>4
      <4>2. op'[t] \in PostOps \cup SubOps
        BY <1>0, <4>1 DEF OpOK
      <4> QED
        BY <1>3, <2>4, <4>2 DEF SubOps
    <3>3. Event(t)' \in Events /\ o.sync \in BOOLEAN
      <4>1. calls'[t] \in 0 .. MaxCalls
        BY <1>0 DEF TypeOK
      <4>2. calls'[t] \in 1 .. MaxCalls /\ o.evt \in EvtIDs
        BY <1>0, <1>3, <3>2, <4>1, ConstantsOK DEF PostOps
      <4> QED
        BY <1>3, <3>2, <4>2 DEF Event, Events, PostOps
    <3>4. Event(t)'.by = t /\ Event(t)'.n = calls[t] + 1
      BY <1>3 DEF Event
    <3>5. ~Channel!InChannel(Event(t)')
      <4>1. SUFFICES ASSUME Event(t)' \in Unprocessed PROVE FALSE
        BY <1>0, ChannelHolds
      <4>2. calls[t] + 1 <= calls[t]
        BY <1>0, <3>4, <4>1 DEF FreshOK, KnownOld, Known
      <4> QED
        BY <1>0, <4>2
    <3>6. ASSUME NEW u \in Threads, PostingOf(u).at # "none"
          PROVE  PostingOf(u).evt # Event(t)'
      <4>1. CASE Nested(u)
        <5>1. PostingOf(u).evt = cb[u].evt /\ cb[u].evt \in Known
          BY <4>1, PostingIs DEF Nested, Known, Unprocessed
        <5>2. cb[u].evt = Event(t)' => calls[t] + 1 <= calls[t]
          BY <1>0, <3>4, <5>1 DEF FreshOK, KnownOld
        <5> QED
          BY <1>0, <5>1, <5>2
      <4>2. CASE ~Nested(u)
        <5>1. PostingOf(u).evt = Event(u) /\ u # t
          BY <2>2, <3>6, <4>2, PostingIs
        <5> QED
          BY <3>4, <5>1 DEF Event
      <4> QED
        BY <4>1, <4>2
    <3>7. Channel!Move(t, Channel!Posting("begun", o.sync, Event(t)'))
      BY <1>1, <3>1, PostMoves DEF Channel!Posting
    <3>8. Channel!Begin(t)
      <4>1. [u \in Threads |-> PostingOf(u)][t].at = "none"
        BY <2>2
      <4>2. \A u \in Threads : [v \in Threads |-> PostingOf(v)][u].at # "none"
                                 => [v \in Threads |-> PostingOf(v)][u].evt # Event(t)'
        BY <3>6
      <4> QED
        BY <1>1, <3>3, <3>5, <3>7, <4>1, <4>2, ContentsStay DEF Channel!Begin
    <3> QED
      BY <3>8 DEF Channel!Next
  <2> QED
    BY <2>3, <2>4
<1> QED
  BY <1>4, <1>5

(* Appending to the second of two sequences appends to both. *)
LEMMA AppendLast ==
    ASSUME NEW S, NEW s \in Seq(S), NEW q \in Seq(S), NEW e \in S
    PROVE  s \o Append(q, e) = Append(s \o q, e)
  OBVIOUS

(* The parts of the invariant that the steps below need. *)
LEMMA ThreadTypes ==
    ASSUME ChanInv
    PROVE  /\ pc \in [Threads -> ApiLabels] /\ op \in [Threads -> Ops \cup {NoOp}] /\ result \in [Threads -> Results]
           /\ cb \in [Threads -> CbRuns] /\ EvtDescQueue \in Seq(Events)
           /\ IInv /\ CallOK /\ SyncDone /\ NestedOK
           /\ OpOK /\ CbOK /\ LinkMutexOK /\ SubCalls
<1>1. IInv /\ PostInv /\ CallOK /\ SyncDone /\ NestedOK
  BY DEF ChanInv
<1>2. TypeOK /\ OpOK /\ CbOK /\ LinkMutexOK /\ SubCalls
  BY <1>1 DEF IInv, PostInv, FreshOK
<1> QED
  BY <1>1, <1>2 DEF TypeOK

(* What a thread that is between the beginning and the end of a post has in the channel. *)
LEMMA PostingOfPost ==
    ASSUME ChanInv, NEW t \in Threads, pc[t] \in PostLabels \ {"syncCb"}
    PROVE  /\ ~Nested(t) /\ op[t] \in PostOps /\ Event(t) \in Events /\ op[t].sync \in BOOLEAN
           /\ PostingOf(t) = [at |-> Progress(t), sync |-> op[t].sync, evt |-> Event(t)]
<1>1. ~Nested(t) /\ op[t] \in PostOps /\ calls[t] > 0
  BY ThreadTypes DEF Nested, CbOK, OpOK, PostLabels
<1>2. op[t].api = "post" /\ op[t].sync \in BOOLEAN
  BY <1>1 DEF PostOps
<1>3. Event(t) \in Events
  BY <1>1, EventType DEF ChanInv, IInv
<1> QED
  BY <1>1, <1>2, <1>3, PostingIs

(* When a step is an acceptance. *)
LEMMA ChannelAccepts ==
    ASSUME NEW t \in Threads, OthersPost(t), NEW e, NEW sync,
           PostingOf(t) = [at |-> "begun", sync |-> sync, evt |-> e],
           PostingOf(t)' = [at |-> "accepted", sync |-> sync, evt |-> e],
           sync => InHand \o EvtDescQueue = <<>> /\ BeingHandled = {},
           (InHand \o EvtDescQueue)' = Append(InHand \o EvtDescQueue, e), BeingHandled' = BeingHandled
    PROVE  Channel!Accept(t)
<1>1. Channel!Move(t, [PostingOf(t) EXCEPT !.at = "accepted"])
  <2>1. PostingOf(t)' = [PostingOf(t) EXCEPT !.at = "accepted"]
    OBVIOUS
  <2> QED
    BY <2>1, PostMoves
<1>2. [u \in Threads |-> PostingOf(u)][t] = PostingOf(t)
  OBVIOUS
<1> QED
  BY <1>1, <1>2 DEF Channel!Accept

(* When a step is a refusal. *)
LEMMA ChannelRefuses ==
    ASSUME NEW t \in Threads, OthersPost(t), SameContents, NEW e, NEW sync,
           PostingOf(t) = [at |-> "begun", sync |-> sync, evt |-> e],
           PostingOf(t)' = [at |-> "refused", sync |-> sync, evt |-> e]
    PROVE  Channel!Refuse(t)
<1>1. Channel!Move(t, [PostingOf(t) EXCEPT !.at = "refused"])
  <2>1. PostingOf(t)' = [PostingOf(t) EXCEPT !.at = "refused"]
    OBVIOUS
  <2> QED
    BY <2>1, PostMoves
<1>2. [u \in Threads |-> PostingOf(u)][t] = PostingOf(t)
  OBVIOUS
<1> QED
  BY <1>1, <1>2, ContentsStay DEF Channel!Refuse

(* A post that puts its event into the queue, or begins to call the consumers back itself, is accepted. *)
LEMMA AcceptRefines ==
    ASSUME ChanInv, ChanInv', NEW t \in Threads, Accepts(t)
    PROVE  Channel!Accept(t)
<1>0. /\ pc \in [Threads -> ApiLabels] /\ cb \in [Threads -> CbRuns] /\ EvtDescQueue \in Seq(Events)
      /\ IInv /\ CallOK /\ OpOK
  BY ThreadTypes
<1>1. pc[t] \in {"enqueue", "waitSpace", "sync", "syncWait"} /\ op' = op /\ calls' = calls
      /\ pc[t] \in PostLabels \ {"syncCb"}
  BY DEF Accepts, asyncEnqueue, syncDispatch, callVars, PostLabels
<1>2. /\ ~Nested(t) /\ Event(t) \in Events /\ op[t].api = "post" /\ op[t].sync \in BOOLEAN
      /\ PostingOf(t) = [at |-> "begun", sync |-> op[t].sync, evt |-> Event(t)]
  BY <1>1, PostingOfPost DEF Progress, PostOps
<1>3. OthersPost(t)
  BY <1>0, OthersPosting DEF Accepts, ApiStep, Post
<1>4. Event(t)' = Event(t)
  BY <1>1 DEF Event
<1>5. CASE asyncEnqueue(t)
  <2>1. cb' = cb /\ EvtDescQueue' = Append(EvtDescQueue, Event(t)) /\ pc'[t] \in {"fastCount", "slowSignal"}
    BY <1>0, <1>5 DEF asyncEnqueue, Goto
  <2>2. ~op[t].sync
    BY <1>0, <1>5 DEF asyncEnqueue, CallOK, AsyncLabels
  <2>3. ~Nested(t)'
    BY <1>2, <2>1 DEF Nested, Dispatching
  <2>4. PostingOf(t)' = [at |-> "accepted", sync |-> op[t].sync, evt |-> Event(t)]
    BY <1>1, <1>2, <1>4, <2>1, <2>3, PostingIsNext DEF Progress
  <2>5. InHand' = InHand /\ BeingHandled' = BeingHandled
    BY <2>1 DEF InHand, Collecting, BeingHandled
  <2>6. (InHand \o EvtDescQueue)' = Append(InHand \o EvtDescQueue, Event(t))
    BY <1>0, <1>2, <2>1, <2>5, ContentsAreOK, AppendLast DEF ContentsOK
  <2> QED
    BY <1>2, <1>3, <2>2, <2>4, <2>5, <2>6, ChannelAccepts
<1>6. CASE syncDispatch(t)
  <2>1. EvtDescQueue = <<>> /\ EvtDescQueue' = <<>> /\ \A u \in Threads : ~Dispatching(u)
    BY <1>0, <1>6, SyncFindsNothing DEF syncDispatch
  <2>2. InHand = <<>> /\ BeingHandled = {}
    BY <1>0, <2>1, ContentsAreOK DEF ContentsOK
  <2>3. Collecting(t)' /\ cb'[t].evt = Event(t)
    BY <1>0, <1>6 DEF syncDispatch, Collecting
  <2>4. InHand' = <<Event(t)>> /\ BeingHandled' = {}
    <3>1. IInv'
      BY DEF ChanInv
    <3>2. ContentsOK'
      BY <3>1, ContentsAreOK, PTL
    <3> QED
      BY <2>3, <3>2 DEF ContentsOK
  <2>5. op[t].sync /\ t \in Users
    BY <1>0, <1>6 DEF syncDispatch, CallOK, OpOK, SyncLabels
  <2>6. PostingOf(t)' = [at |-> "accepted", sync |-> op[t].sync, evt |-> Event(t)]
    <3>1. Nested(t)'
      BY <2>3, <2>5 DEF Nested, Dispatching, Collecting
    <3>2. op[t].sync = TRUE
      BY <1>2, <2>5
    <3> QED
      BY <2>3, <3>1, <3>2, PostingIsNext
  <2>7. (InHand \o EvtDescQueue)' = Append(InHand \o EvtDescQueue, Event(t)) /\ InHand \o EvtDescQueue = <<>>
    BY <1>2, <2>1, <2>2, <2>4
  <2> QED
    BY <1>2, <1>3, <2>2, <2>4, <2>6, <2>7, ChannelAccepts
<1> QED
  BY <1>5, <1>6 DEF Accepts

(* The other steps of a post move it on to its result. *)
LEMMA PostRefines ==
    ASSUME ChanInv, NEW t \in Threads, Post(t), ~Accepts(t)
    PROVE  [Channel!Next]_(Channel!chvars)
<1>0. /\ pc \in [Threads -> ApiLabels] /\ result \in [Threads -> Results] /\ IInv
  BY ThreadTypes
<1>1. /\ pc[t] \in PostLabels \ {"syncCb"} /\ SameContents /\ op' = op /\ calls' = calls
  BY DEF Post, Accepts, postRefused, postAdmitted, asyncFull, asyncTimeout, countQueued, signalQueued, syncBusy, syncWait,
     callVars, queueVars, PostLabels, SameContents
<1>2. OthersPost(t)
  BY <1>0, OthersPosting DEF ApiStep
<1>3. /\ PostingOf(t) = [at |-> Progress(t), sync |-> op[t].sync, evt |-> Event(t)] /\ op[t].api = "post"
      /\ ~Nested(t)
  BY <1>1, PostingOfPost DEF PostOps
<1>4. Event(t)' = Event(t) /\ ~Nested(t)'
  BY <1>1, <1>3 DEF Event, Nested, Dispatching, SameContents
<1>5. PostingOf(t)' = [at |-> Progress(t)', sync |-> op[t].sync, evt |-> Event(t)]
  BY <1>1, <1>3, <1>4, PostingIsNext
<1>6. Progress(t)' = Progress(t) \/ (Progress(t) = "begun" /\ Progress(t)' = "refused")
  <2>1. CASE countQueued(t) \/ signalQueued(t)
    <3>1. /\ pc[t] \in {"fastCount", "slowCount", "fastSignal", "slowSignal"}
          /\ \/ pc'[t] \in {"fastSignal", "slowCount"}
             \/ pc'[t] = "unlock" /\ result'[t] = "SUCCESS"
      BY <1>0, <2>1 DEF countQueued, signalQueued, Finish, Goto
    <3> QED
      BY <3>1 DEF Progress
  <2>2. CASE postAdmitted(t)
    <3>1. pc[t] = "post" /\ pc'[t] \in {"sync", "waitSpace", "enqueue"}
      BY <1>0, <2>2 DEF postAdmitted, Goto
    <3> QED
      BY <3>1 DEF Progress
  <2>3. CASE postRefused(t) \/ asyncFull(t) \/ asyncTimeout(t) \/ syncBusy(t) \/ syncWait(t)
    <3>1. /\ pc[t] \in {"post", "enqueue", "waitSpace", "sync", "syncWait"}
          /\ \/ pc' = pc
             \/ \E l \in {"waitSpace", "syncWait"} : pc' = [pc EXCEPT ![t] = l]
             \/ /\ pc' = [pc EXCEPT ![t] = "unlock"]
                /\ \E r \in Results \ {"SUCCESS"} : result' = [result EXCEPT ![t] = r]
      BY <2>3 DEF postRefused, asyncFull, asyncTimeout, syncBusy, syncWait, Finish, Goto, Results
    <3>2. /\ pc[t] \in {"post", "enqueue", "waitSpace", "sync", "syncWait"}
          /\ \/ pc'[t] \in {"post", "enqueue", "waitSpace", "sync", "syncWait"}
             \/ pc'[t] = "unlock" /\ result'[t] # "SUCCESS"
      BY <1>0, <3>1
    <3> QED
      BY <3>2 DEF Progress
  <2> QED
    BY <2>1, <2>2, <2>3 DEF Post, Accepts
<1>7. CASE Progress(t)' = Progress(t)
  BY <1>1, <1>2, <1>3, <1>5, <1>7, ContentsStay, PostStays
<1>8. CASE Progress(t) = "begun" /\ Progress(t)' = "refused"
  <2>1. Channel!Refuse(t)
    BY <1>1, <1>2, <1>3, <1>5, <1>8, ChannelRefuses
  <2> QED
    BY <2>1 DEF Channel!Next
<1> QED
  BY <1>6, <1>7, <1>8

(* Where no post is, none is moved. *)
LEMMA NoPostStays ==
    ASSUME NEW t \in Threads, OthersPost(t), SameContents, ~Nested(t), op[t].api # "post",
           op'[t] = op[t] \/ op'[t] = NoOp
    PROVE  UNCHANGED Channel!chvars
<1>1. ~Nested(t)' /\ op'[t].api # "post"
  BY DEF Nested, Dispatching, SameContents, NoOp
<1>2. PostingOf(t)' = PostingOf(t)
  BY <1>1, PostingIs, PostingIsNext
<1> QED
  BY <1>2, ContentsStay, PostStays

(* The steps that are not of a post: locking, returning, the subscriptions and forceProcEvt. *)
LEMMA CallRefines ==
    ASSUME ChanInv, NEW t \in Threads, getLinkObjLocked(t) \/ putLinkObj(t) \/ SubOrUnsub(t) \/ ForceOrWakeup(t)
    PROVE  [Channel!Next]_(Channel!chvars)
<1>0. /\ pc \in [Threads -> ApiLabels] /\ op \in [Threads -> Ops \cup {NoOp}] /\ IInv
      /\ CallOK /\ SyncDone /\ OpOK /\ CbOK /\ LinkMutexOK /\ SubCalls /\ Users \subseteq Threads
  BY ThreadTypes, ConstantsOK
<1>1. SameContents
  BY DEF getLinkObjLocked, putLinkObj, SubOrUnsub, enterSubOrUnsub, insertSuber, removeSuber, leaveSubOrUnsub,
     ForceOrWakeup, forceSignal, forceReadQueued, forceReadCallbaced, queueVars, SameContents
<1>2. OthersPost(t)
  BY <1>0, OthersPosting DEF ApiStep
<1>3. ~Nested(t)
  <2>1. CASE getLinkObjLocked(t)
    BY <1>0, <2>1 DEF getLinkObjLocked, LinkMutexOK, Holds, Nested
  <2>2. CASE ~getLinkObjLocked(t)
    <3>1. pc[t] \notin {"syncCb", "lock"}
      BY <2>2 DEF putLinkObj, SubOrUnsub, enterSubOrUnsub, insertSuber, removeSuber, leaveSubOrUnsub,
         ForceOrWakeup, forceSignal, forceReadQueued, forceReadCallbaced
    <3> QED
      BY <1>0, <3>1 DEF CbOK, Nested
  <2> QED
    BY <2>1, <2>2
<1>4. ~Nested(t)'
  BY <1>1, <1>3 DEF Nested, Dispatching, SameContents
<1>5. CASE getLinkObjLocked(t)
  <2>1. pc[t] = "lock" /\ pc'[t] = op[t].api /\ op' = op /\ calls' = calls
    BY <1>0, <1>5 DEF getLinkObjLocked, Goto, callVars
  <2>2. CASE op[t].api = "post"
    <3>1. PostingOf(t)' = PostingOf(t)
      BY <1>3, <1>4, <2>1, <2>2, PostingIs, PostingIsNext DEF Progress, Event
    <3> QED
      BY <1>1, <1>2, <3>1, ContentsStay, PostStays
  <2>3. CASE op[t].api # "post"
    BY <1>1, <1>2, <1>3, <2>1, <2>3, NoPostStays
  <2> QED
    BY <2>2, <2>3
<1>6. CASE putLinkObj(t)
  <2>1. pc[t] = "unlock" /\ op'[t] = NoOp
    BY <1>0, <1>6 DEF putLinkObj, Return
  <2>2. CASE op[t].api = "post"
    <3>1. PostingOf(t)' = [at |-> "none"]
      BY <1>4, <2>1, PostingIsNext DEF NoOp
    <3>2. PostingOf(t) = [at |-> Progress(t), sync |-> op[t].sync, evt |-> Event(t)]
          /\ Progress(t) = IF result[t] = "SUCCESS" THEN "accepted" ELSE "refused"
      BY <1>3, <2>1, <2>2, PostingIs DEF Progress
    <3>3. result[t] = "SUCCESS" /\ op[t].sync => ~Channel!InChannel(Event(t))
      BY <1>0, <2>1, <2>2, ChannelHolds DEF SyncDone
    <3>4. Channel!Move(t, Channel!NoPost)
      BY <1>2, <3>1, PostMoves DEF Channel!NoPost
    <3>5. [u \in Threads |-> PostingOf(u)][t] = PostingOf(t)
      OBVIOUS
    <3>6. Channel!Return(t)
      BY <1>1, <3>2, <3>3, <3>4, <3>5, ContentsStay DEF Channel!Return
    <3> QED
      BY <3>6 DEF Channel!Next
  <2>3. CASE op[t].api # "post"
    BY <1>1, <1>2, <1>3, <2>1, <2>3, NoPostStays
  <2> QED
    BY <2>2, <2>3
<1>7. CASE SubOrUnsub(t)
  <2>1. op[t] \in SubOps /\ op' = op
    BY <1>0, <1>7 DEF SubOrUnsub, enterSubOrUnsub, insertSuber, insertRefused, removeSuber, leaveSubOrUnsub, callVars, OpOK,
       SubCalls
  <2>2. op[t].api # "post"
    BY <2>1 DEF SubOps
  <2> QED
    BY <1>1, <1>2, <1>3, <2>1, <2>2, NoPostStays
<1>8. CASE ForceOrWakeup(t)
  <2>1. pc[t] \in {"force", "wakeup", "readQueued", "readCallbaced"} /\ (op' = op \/ op' = [op EXCEPT ![t] = NoOp])
    BY <1>8 DEF ForceOrWakeup, forceSignal, forceReadQueued, forceReadCallbaced, Return
  <2>2. op[t].api # "post" /\ (op'[t] = op[t] \/ op'[t] = NoOp)
    BY <1>0, <2>1 DEF CallOK
  <2> QED
    BY <1>1, <1>2, <1>3, <2>2, NoPostStays
<1> QED
  BY <1>5, <1>6, <1>7, <1>8

(* The first of a sequence and the rest. *)
LEMMA TailOfFirst ==
    ASSUME NEW S, NEW e \in S, NEW q \in Seq(S)
    PROVE  /\ <<e>> \o q # <<>> /\ Head(<<e>> \o q) = e /\ Tail(<<e>> \o q) = q /\ <<>> \o q = q
  OBVIOUS

(* A run of callbacks takes the oldest event out of the channel, handles it and is done with it. *)
LEMMA DispatchRefines ==
    ASSUME ChanInv, ChanInv', NEW t \in Threads, Dispatch(t)
    PROVE  [Channel!Next]_(Channel!chvars)
<1>0. /\ pc \in [Threads -> ApiLabels] /\ op \in [Threads -> Ops \cup {NoOp}] /\ cb \in [Threads -> CbRuns]
      /\ result \in [Threads -> Results] /\ EvtDescQueue \in Seq(Events) /\ IInv /\ CallOK /\ OpOK /\ CbOK /\ NestedOK
      /\ CallbackExclusion /\ EvtProc \notin Users /\ Threads = Users \cup {EvtProc}
  BY ThreadTypes, Exclusion, ConstantsOK DEF Threads
<1>1. ContentsOK /\ ContentsOK'
  <2>1. IInv /\ IInv'
    BY DEF ChanInv
  <2> QED
    BY <2>1, ContentsAreOK, PTL
<1>2. OthersPost(t) /\ op' = op /\ calls' = calls /\ EvtDescQueue' = EvtDescQueue
  BY <1>0, OthersPosting
  DEF Dispatch, collectSubers, enterCbProcEvt, callCbProcEvt, returnCbProcEvt, leaveCbProcEvt, callVars, queueVars
<1>3. CASE ~leaveCbProcEvt(t)
  <2>1. /\ cb[t].at \in {"collect", "enter", "next", "body"} /\ pc' = pc /\ result' = result
        /\ \/ \E at \in Calling : cb' = [cb EXCEPT ![t].at = at]
           \/ \E at \in Calling : \E todo : cb' = [cb EXCEPT ![t].at = at, ![t].todo = todo]
    BY <1>3 DEF Dispatch, collectSubers, enterCbProcEvt, callCbProcEvt, returnCbProcEvt, Calling
  <2>2. cb'[t].at \in Calling /\ cb'[t].evt = cb[t].evt
    BY ONLY <1>0, <2>1, t \in Threads DEF CbRuns, Calling
  <2>3. Nested(t)' <=> Nested(t)
    BY <2>1, <2>2 DEF Nested, Dispatching, Calling
  <2>4. PostingOf(t)' = PostingOf(t)
    <3>1. Event(t)' = Event(t) /\ Progress(t)' = Progress(t)
      BY <1>2, <2>1 DEF Event, Progress
    <3> QED
      BY <1>2, <2>2, <2>3, <3>1, PostingIs, PostingIsNext
  <2>5. BeingHandled' = {cb[t].evt} /\ InHand' = <<>>
    BY <1>1, <2>2 DEF ContentsOK
  <2>6. CASE cb[t].at \in Calling
    <3>1. BeingHandled = {cb[t].evt} /\ InHand = <<>>
      BY <1>1, <2>6 DEF ContentsOK
    <3> QED
      BY <1>2, <2>4, <2>5, <3>1, PostStays
  <2>7. CASE Collecting(t)
    <3>1. BeingHandled = {} /\ InHand = <<cb[t].evt>>
      BY <1>1, <2>7 DEF ContentsOK
    <3>2. cb[t].evt \in Events
      BY <1>0, <2>7 DEF CbOK, Collecting, Dispatching
    <3>3. /\ InHand \o EvtDescQueue # <<>> /\ Head(InHand \o EvtDescQueue) = cb[t].evt
          /\ Tail(InHand \o EvtDescQueue) = EvtDescQueue /\ (InHand \o EvtDescQueue)' = EvtDescQueue
      BY <1>0, <1>2, <2>5, <3>1, <3>2, TailOfFirst
    <3>4. [u \in Threads |-> PostingOf(u)]' = [u \in Threads |-> PostingOf(u)]
      BY <1>2, <2>4, PostMoves
    <3>5. Channel!Deliver
      BY <2>5, <3>1, <3>3, <3>4 DEF Channel!Deliver
    <3> QED
      BY <3>5 DEF Channel!Next
  <2> QED
    BY <2>1, <2>6, <2>7 DEF Calling, Collecting
<1>4. CASE leaveCbProcEvt(t)
  <2>1. cb[t].at = "next" /\ cb' = [cb EXCEPT ![t] = NoCb]
    BY <1>4 DEF leaveCbProcEvt
  <2>2. BeingHandled = {cb[t].evt} /\ InHand = <<>>
    BY <1>1, <2>1 DEF ContentsOK, Calling
  <2>3. \A u \in Threads : ~Dispatching(u)'
    BY <1>0, <2>1 DEF CallbackExclusion, Dispatching, NoCb
  <2>4. BeingHandled' = {} /\ InHand' = <<>>
    BY <1>1, <2>3 DEF ContentsOK
  <2>5. PostingOf(t)' = PostingOf(t)
    <3>0. ~Nested(t)' /\ Event(t)' = Event(t)
      BY <1>2, <2>3 DEF Nested, Event
    <3>1. CASE t \in Users
      <4>1. pc[t] = "syncCb" /\ pc'[t] = "unlock" /\ result'[t] = "SUCCESS"
        BY <1>0, <1>4, <2>1, <3>1 DEF leaveCbProcEvt, NestedOK, Finish, Goto
      <4>2. cb[t].evt = Event(t) /\ op[t] \in PostOps /\ op[t].sync
        BY <1>0, <4>1 DEF CallOK, SyncLabels, OpOK, PostLabels
      <4>3. op[t].api = "post" /\ op[t].sync = TRUE /\ Progress(t)' = "accepted" /\ Nested(t)
        BY <2>1, <3>1, <4>1, <4>2 DEF PostOps, Progress, Nested, Dispatching
      <4> QED
        BY <1>2, <3>0, <4>2, <4>3, PostingIs, PostingIsNext
    <3>2. CASE t = EvtProc
      <4>1. pc' = pc /\ result' = result /\ ~Nested(t)
        BY <1>0, <1>4, <3>2 DEF leaveCbProcEvt, Nested
      <4>2. Progress(t)' = Progress(t)
        BY <4>1 DEF Progress
      <4> QED
        BY <1>2, <3>0, <4>1, <4>2, PostingIs, PostingIsNext
    <3> QED
      BY <1>0, <3>1, <3>2
  <2>6. [u \in Threads |-> PostingOf(u)]' = [u \in Threads |-> PostingOf(u)]
    BY <1>2, <2>5, PostMoves
  <2>7. Channel!Processed
    BY <1>2, <2>2, <2>4, <2>6 DEF Channel!Processed
  <2> QED
    BY <2>7 DEF Channel!Next
<1> QED
  BY <1>3, <1>4

(* EvtProcThread moves the oldest event from the queue into its hand, where it is still the oldest. *)
LEMMA EvtProcRefines ==
    ASSUME ChanInv, ChanInv', EvtProcThread
    PROVE  UNCHANGED Channel!chvars
<1>0. /\ cb \in [Threads -> CbRuns] /\ EvtDescQueue \in Seq(Events) /\ IInv /\ CbOK /\ SyncOK
      /\ EvtProc \in Threads /\ EvtProc \notin Users /\ Threads = Users \cup {EvtProc}
  BY ThreadTypes, ConstantsOK DEF Threads, IInv
<1>1. ContentsOK /\ ContentsOK'
  <2>1. IInv /\ IInv'
    BY DEF ChanInv
  <2> QED
    BY <2>1, ContentsAreOK, PTL
<1>2. OthersPost(EvtProc)
  BY <1>0, OthersPosting
<1>3. PostingOf(EvtProc)' = PostingOf(EvtProc)
  <2>1. pc' = pc /\ op' = op /\ result' = result /\ calls' = calls
    BY DEF EvtProcThread, waitLinkObjNewEvtDesc, waitTimedOut, dequeueElementFirst, countCallbaced, callVars
  <2>2. Event(EvtProc)' = Event(EvtProc) /\ Progress(EvtProc)' = Progress(EvtProc)
    BY <2>1 DEF Event, Progress
  <2>3. ~Nested(EvtProc) /\ ~Nested(EvtProc)'
    BY <1>0 DEF Nested
  <2> QED
    BY <2>1, <2>2, <2>3, PostingIs, PostingIsNext
<1>4. CASE SameContents
  BY <1>0, <1>2, <1>3, <1>4, ContentsStay, PostStays
<1>5. CASE dequeueElementFirst /\ EvtDescQueue # <<>>
  <2>1. /\ EvtDescQueue' = Tail(EvtDescQueue) /\ loop = "dequeue"
        /\ cb' = [cb EXCEPT ![EvtProc] = [at |-> "collect", evt |-> Head(EvtDescQueue), todo |-> {}]]
    BY <1>5 DEF dequeueElementFirst
  <2>2. \A u \in Threads : ~Dispatching(u)
    BY <1>0, <1>5, <2>1 DEF CbOK, SyncOK
  <2>3. InHand = <<>> /\ BeingHandled = {}
    BY <1>1, <2>2 DEF ContentsOK
  <2>4. Collecting(EvtProc)' /\ cb'[EvtProc].evt = Head(EvtDescQueue)
    BY <1>0, <2>1 DEF Collecting
  <2>5. InHand' = <<Head(EvtDescQueue)>> /\ BeingHandled' = {}
    BY <1>0, <1>1, <2>4 DEF ContentsOK
  <2>6. <<Head(EvtDescQueue)>> \o Tail(EvtDescQueue) = EvtDescQueue /\ <<>> \o EvtDescQueue = EvtDescQueue
    BY <1>0, <1>5
  <2>7. (InHand \o EvtDescQueue)' = InHand \o EvtDescQueue
    BY <2>1, <2>3, <2>5, <2>6
  <2> QED
    BY <1>0, <1>2, <1>3, <2>3, <2>5, <2>7, PostStays
<1>6. CASE ~(dequeueElementFirst /\ EvtDescQueue # <<>>)
  <2>1. SameContents
    BY <1>6 DEF EvtProcThread, waitLinkObjNewEvtDesc, waitTimedOut, dequeueElementFirst, countCallbaced, SameContents,
       queueVars
  <2> QED
    BY <1>4, <2>1
<1> QED
  BY <1>5, <1>6

(* The channel is empty in the initial states. *)
LEMMA InitRefines == Init => Channel!Init
<1> SUFFICES ASSUME Init PROVE Channel!Init
  OBVIOUS
<1>1. ContentsOK /\ EvtDescQueue = <<>> /\ \A t \in Threads : ~Dispatching(t) /\ op[t] = NoOp
  BY InitIInv, ContentsAreOK DEF Init, Dispatching, NoCb
<1>2. InHand \o EvtDescQueue = <<>> /\ BeingHandled = {}
  BY <1>1 DEF ContentsOK
<1>3. \A t \in Threads : PostingOf(t) = [at |-> "none"]
  BY <1>1, PostingIs DEF Nested, NoOp
<1> QED
  BY <1>2, <1>3 DEF Channel!Init, Channel!NoPost

(* A step that changes neither calls nor callbacks moves no post. *)
LEMMA UnmovedPosting ==
    ASSUME SameContents, pc' = pc, op' = op, result' = result, calls' = calls, NEW t
    PROVE  PostingOf(t)' = PostingOf(t)
  BY DEF PostingOf, Dispatching, Progress, Event, SameContents

(* Every step of the link is a step of the channel or none. *)
LEMMA StepRefines == ChanInv /\ ChanInv' /\ [Next]_vars => [Channel!Next]_(Channel!chvars)
<1> SUFFICES ASSUME ChanInv, ChanInv', [Next]_vars PROVE [Channel!Next]_(Channel!chvars)
  OBVIOUS
<1>1. ASSUME NEW t \in Threads, CallApi(t) PROVE [Channel!Next]_(Channel!chvars)
  BY <1>1, CallBegins
<1>2. ASSUME NEW t \in Threads, ApiStep(t) PROVE [Channel!Next]_(Channel!chvars)
  <2>1. CASE Accepts(t)
    BY <2>1, AcceptRefines DEF Channel!Next
  <2>2. CASE Post(t) /\ ~Accepts(t)
    BY <2>2, PostRefines
  <2>3. CASE getLinkObjLocked(t) \/ putLinkObj(t) \/ SubOrUnsub(t) \/ ForceOrWakeup(t)
    BY <2>3, CallRefines
  <2> QED
    BY <1>2, <2>1, <2>2, <2>3 DEF ApiStep
<1>3. ASSUME NEW t \in Threads, Dispatch(t) PROVE [Channel!Next]_(Channel!chvars)
  BY <1>3, DispatchRefines
<1>4. CASE EvtProcThread
  BY <1>4, EvtProcRefines
<1>5. CASE UNCHANGED vars
  <2>1. SameContents /\ pc' = pc /\ op' = op /\ result' = result /\ calls' = calls
    BY <1>5 DEF vars, queueVars, callVars, SameContents
  <2>2. EvtProc \in Threads
    BY ConstantsOK
  <2>3. \A t \in Threads : PostingOf(t)' = PostingOf(t)
    BY <2>1, UnmovedPosting
  <2> QED
    BY <2>1, <2>2, <2>3, ContentsStay, PostStays DEF OthersPost
<1> QED
  BY <1>1, <1>2, <1>3, <1>4, <1>5 DEF Next

(* Posting implements the channel, for every number of threads, consumers and calls and every queue depth: an *)
(* accepted event is handled once, in the order of acceptance and never beside another one; a synchronous post *)
(* that succeeds has had its own event handled, and one that fails has not (postEVT and callbackProcEvtThread).  *)
THEOREM PostingImplementsChannel == Spec => ImplementsChannel
<1>1. Init => ChanInv
  BY InitChanInv
<1>2. ChanInv /\ [Next]_vars => ChanInv'
  BY NextChanInv
<1> QED
  BY <1>1, <1>2, InitRefines, StepRefines, PTL DEF Spec, ImplementsChannel, Channel!Spec
=============================================================================
