----------------------------- MODULE ConlesEvent -----------------------------
(***************************************************************************)
(* Source/_IOC_ConlesEvent.c: events without a connection.  Application    *)
(* threads post events to the one AutoLink; an asynchronous post queues    *)
(* the event for the link's EvtProcThread, a synchronous one calls the     *)
(* consumers back from the posting thread once nothing is queued.          *)
(*                                                                         *)
(* A post, a subscription and an unsubscription hold the link's Mutex from *)
(* beginning to end, the blocking waits and the callbacks of a synchronous *)
(* post included.  A callback may itself call the API: it does so inside   *)
(* the thread that dispatches.  The mutexes are not recursive.             *)
(*                                                                         *)
(* The queue is the bounded FIFO that EvtDescQueue implements, each of its *)
(* operations one step.                                                    *)
(***************************************************************************)
EXTENDS Naturals, Sequences, FiniteSets

CONSTANTS Users,        \* application threads
          EvtProc,      \* the link's EvtProcThread
          EvtIDs,
          Consumers,    \* the (CbProcEvt_F, pCbPrivData) pairs that subscribe
          Wants,        \* Wants[c]: the EvtIDs c subscribes to; {} (EvtNum = 0) for all
          UserOps,      \* the API calls the application threads make
          CallbackOps,  \* the API calls a callback makes
          Capacity,     \* _CONLES_EVENT_MAX_QUEUING_EVTDESC
          MaxSuber,     \* _CONLES_EVENT_MAX_SUBSCRIBER
          MaxCalls,     \* bound: API calls a thread makes
          UnSubed       \* a free slot of the subscriber list

Threads == Users \cup {EvtProc}
PostOps == [api : {"post"}, sync : BOOLEAN, block : {"NonBlock", "Timeout", "MayBlock"}, evt : EvtIDs]
SubOps == [api : {"sub", "unsub"}, who : Consumers]
Ops == PostOps \cup SubOps \cup [api : {"force", "wakeup"}]
Slots == 1 .. MaxSuber

ASSUME ThreadsAssumption == EvtProc \notin Users
(* A callback that calls forceProcEvt waits for its own event to be counted: left out. *)
ASSUME OpsAssumption == UserOps \subseteq Ops /\ CallbackOps \subseteq PostOps \cup SubOps
ASSUME WantsAssumption == Wants \in [Consumers -> SUBSET EvtIDs]
ASSUME SizesAssumption == Capacity \in Nat \ {0} /\ MaxSuber \in Nat \ {0} /\ MaxCalls \in Nat
ASSUME UnSubedAssumption == UnSubed \notin Consumers

VARIABLES
    LinkMutex,        \* the threads that hold pLinkObj->Mutex
    SuberMutex,       \* the threads that hold EvtSuberList.Mutex
    Subers,           \* EvtSuberList.Subers: who is in each slot
    SuberNum,
    EvtDescQueue,
    QueuedEvtNum, CallbacedEvtNum,
    State,            \* State.IsInCbProc, IsInSub, IsInUnsub and Main
    loop,             \* where EvtProcThread is in its loop
    pc,               \* pc[t]: where t is in an API call
    op,               \* op[t]: that call and its arguments
    result,           \* result[t]: the result it is going to return
    cb,               \* cb[t]: t's run of callbackProcEvtOverSuberList
    seen,             \* seen[t]: QueuedEvtNum as forceProcEvt read it
    calls,            \* calls[t]: the API calls t made; it tells t's events apart
    due,              \* history: the accepted events not yet delivered, in the order of acceptance
    pending           \* history: what t's forceProcEvt has to see processed

queueVars == <<EvtDescQueue, QueuedEvtNum, CallbacedEvtNum>>
suberVars == <<SuberMutex, Subers, SuberNum>>
callVars == <<op, seen, calls, pending>>
vars == <<LinkMutex, suberVars, queueVars, State, loop, pc, result, cb, due, callVars>>

NoOp == [api |-> "none"]
Event(t) == [by |-> t, n |-> calls[t], id |-> op[t].evt]
NoEvent == [by |-> EvtProc, n |-> 0, id |-> "none"]
NoCb == [at |-> "none", evt |-> NoEvent, todo |-> {}]

Goto(t, label) == pc' = [pc EXCEPT ![t] = label]
Return(t) ==
    /\ Goto(t, "idle")
    /\ op' = [op EXCEPT ![t] = NoOp]
    /\ result' = [result EXCEPT ![t] = "none"]
    /\ seen' = [seen EXCEPT ![t] = 0]
    /\ pending' = [pending EXCEPT ![t] = {}]
Finish(t, code) == result' = [result EXCEPT ![t] = code] /\ Goto(t, "unlock")
IsFull_OffByOne == Len(EvtDescQueue) > Capacity   \* mutant: one event too many
IsFull == Len(EvtDescQueue) >= Capacity
hasEvtDescInLinkObj_Queue == EvtDescQueue # <<>>   \* mutant: forgets the event being called back
hasEvtDescInLinkObj == QueuedEvtNum # CallbacedEvtNum

Init ==
    /\ LinkMutex = {} /\ SuberMutex = {}
    /\ Subers = [i \in Slots |-> UnSubed] /\ SuberNum = 0
    /\ EvtDescQueue = <<>> /\ QueuedEvtNum = 0 /\ CallbacedEvtNum = 0
    /\ State = [IsInCbProc |-> FALSE, IsInSub |-> FALSE, IsInUnsub |-> FALSE, Main |-> "Ready"]
    /\ loop = "wait"
    /\ pc = [t \in Threads |-> "idle"]
    /\ op = [t \in Threads |-> NoOp]
    /\ result = [t \in Threads |-> "none"]
    /\ cb = [t \in Threads |-> NoCb]
    /\ seen = [t \in Threads |-> 0]
    /\ calls = [t \in Threads |-> 0]
    /\ due = <<>>
    /\ pending = [t \in Threads |-> {}]

Transfer_Last(flag, value) ==   \* mutant: Main follows the last behaviour, not the flags
    State' = [State EXCEPT ![flag] = value,
                           !.Main = CASE ~value -> "Ready"
                                      [] value /\ flag = "IsInCbProc" -> "BusyCbProcEvt"
                                      [] value /\ flag = "IsInSub" -> "BusySubEvt"
                                      [] OTHER -> "BusyUnsubEvt"]

(* transferLinkObjStateByBehavior: one flag changes and Main follows, CbProc before Sub before Unsub. *)
Transfer(flag, value) ==
    LET s == [State EXCEPT ![flag] = value]
    IN  State' = [s EXCEPT !.Main = CASE s.IsInCbProc -> "BusyCbProcEvt"
                                      [] ~s.IsInCbProc /\ s.IsInSub -> "BusySubEvt"
                                      [] ~s.IsInCbProc /\ ~s.IsInSub /\ s.IsInUnsub -> "BusyUnsubEvt"
                                      [] OTHER -> "Ready"]

(* pthread_cond_signal: it is lost unless EvtProcThread is waiting at that moment. *)
wakeupLinkObjThread == loop' = IF loop = "waiting" THEN "dequeue" ELSE loop

-----------------------------------------------------------------------------
Dispatching(t) == cb[t].at # "none"
Unprocessed == {due[i] : i \in DOMAIN due} \cup {cb[t].evt : t \in {u \in Threads : Dispatching(u)}}
(* The unprocessed events whose post has returned. *)
PostedAndUnprocessed ==
    {e \in Unprocessed : \A t \in Threads : /\ pc[t] # "idle" => e.by # t \/ e.n # calls[t]
                                            /\ t \in Users /\ Dispatching(t) => cb[t].evt # e}

(* An application thread, or a callback that a thread is running, calls the API. *)
MayCall(t, o) ==
    \/ t \in Users /\ cb[t].at = "none" /\ pc[t] = "idle" /\ o \in UserOps
    \/ cb[t].at = "body" /\ pc[t] \in {"idle", "syncCb"} /\ o \in CallbackOps

CallApi(t) ==
    /\ calls[t] < MaxCalls
    /\ \E o \in UserOps \cup CallbackOps :
        /\ MayCall(t, o)
        /\ op' = [op EXCEPT ![t] = o]
        /\ Goto(t, IF o.api \in {"force", "wakeup"} THEN o.api ELSE "lock")
        /\ pending' = [pending EXCEPT ![t] = IF o.api = "force" THEN PostedAndUnprocessed ELSE {}]
    /\ calls' = [calls EXCEPT ![t] = @ + 1]
    /\ result' = [result EXCEPT ![t] = "none"]
    /\ UNCHANGED <<LinkMutex, suberVars, queueVars, State, loop, cb, due, seen>>

(* getLinkObjLocked.  A thread that holds the mutex already, because the call comes from a
   callback of its own synchronous post, waits for itself. *)
getLinkObjLocked(t) ==
    /\ pc[t] = "lock" /\ LinkMutex = {}
    /\ LinkMutex' = {t}
    /\ Goto(t, op[t].api)
    /\ UNCHANGED <<suberVars, queueVars, State, loop, result, cb, due, callVars>>

putLinkObj(t) ==
    /\ pc[t] = "unlock"
    /\ LinkMutex' = LinkMutex \ {t}
    /\ Return(t)
    /\ UNCHANGED <<suberVars, queueVars, State, loop, cb, due, calls>>

-----------------------------------------------------------------------------
(* postEVT: what is refused, then the asynchronous and the synchronous way. *)
Forbidden(t) == op[t].sync /\ State.Main = "BusyCbProcEvt"

postRefused_KeepsMutex(t) ==   \* mutant: an early return that skips _returnResult
    /\ pc[t] = "post"
    /\ \/ Forbidden(t)
       \/ ~Forbidden(t) /\ SuberNum = 0
    /\ Return(t)
    /\ UNCHANGED <<LinkMutex, suberVars, queueVars, State, loop, cb, due, calls>>

postRefused(t) ==
    /\ pc[t] = "post"
    /\ \/ Forbidden(t) /\ Finish(t, "FORBIDDEN")
       \/ ~Forbidden(t) /\ SuberNum = 0 /\ Finish(t, "NO_EVENT_CONSUMER")
    /\ UNCHANGED <<LinkMutex, suberVars, queueVars, State, loop, cb, due, callVars>>

postAdmitted(t) ==
    /\ pc[t] = "post" /\ ~Forbidden(t) /\ SuberNum # 0
    /\ Goto(t, CASE op[t].sync -> "sync"
                 [] ~op[t].sync /\ op[t].block = "Timeout" -> "waitSpace"
                 [] OTHER -> "enqueue")
    /\ UNCHANGED <<LinkMutex, suberVars, queueVars, State, loop, result, cb, due, callVars>>

(* enqueueElementLast succeeds, on the fast path or in AsyncTimed; QueuedEvtNum is counted later. *)
asyncEnqueue(t) ==
    /\ pc[t] \in {"enqueue", "waitSpace"} /\ ~IsFull
    /\ EvtDescQueue' = Append(EvtDescQueue, Event(t))
    /\ due' = Append(due, Event(t))
    /\ Goto(t, IF pc[t] = "enqueue" THEN "fastCount" ELSE "slowSignal")
    /\ UNCHANGED <<LinkMutex, suberVars, QueuedEvtNum, CallbacedEvtNum, State, loop, result, cb, callVars>>

asyncFull(t) ==
    /\ pc[t] = "enqueue" /\ IsFull
    /\ IF op[t].block = "NonBlock"
       THEN Finish(t, "TOO_MANY_QUEUING_EVTDESC")
       ELSE Goto(t, "waitSpace") /\ UNCHANGED result
    /\ UNCHANGED <<LinkMutex, suberVars, queueVars, State, loop, cb, due, callVars>>

asyncTimeout_AfterEnqueue(t) ==   \* mutant: the deadline is looked at after the enqueue as well
    /\ pc[t] \in {"waitSpace", "slowCount"} /\ op[t].block = "Timeout"
    /\ pc[t] = "waitSpace" => IsFull
    /\ Finish(t, "TIMEOUT")
    /\ UNCHANGED <<LinkMutex, suberVars, queueVars, State, loop, cb, due, callVars>>

asyncTimeout(t) ==
    /\ pc[t] = "waitSpace" /\ IsFull /\ op[t].block = "Timeout"
    /\ Finish(t, "TIMEOUT")
    /\ UNCHANGED <<LinkMutex, suberVars, queueVars, State, loop, cb, due, callVars>>

countQueued(t) ==
    /\ pc[t] \in {"fastCount", "slowCount"}
    /\ QueuedEvtNum' = QueuedEvtNum + 1
    /\ IF pc[t] = "fastCount" THEN Goto(t, "fastSignal") /\ UNCHANGED result ELSE Finish(t, "SUCCESS")
    /\ UNCHANGED <<LinkMutex, suberVars, EvtDescQueue, CallbacedEvtNum, State, loop, cb, due,
                   callVars>>

signalQueued(t) ==
    /\ pc[t] \in {"fastSignal", "slowSignal"}
    /\ wakeupLinkObjThread
    /\ IF pc[t] = "slowSignal" THEN Goto(t, "slowCount") /\ UNCHANGED result ELSE Finish(t, "SUCCESS")
    /\ UNCHANGED <<LinkMutex, suberVars, queueVars, State, cb, due, callVars>>

(* Nothing is queued or being called back: the poster calls the consumers back itself. *)
syncDispatch(t) ==
    /\ pc[t] \in {"sync", "syncWait"} /\ ~hasEvtDescInLinkObj
    /\ due' = Append(due, Event(t))
    /\ cb' = [cb EXCEPT ![t] = [at |-> "collect", evt |-> Event(t), todo |-> {}]]
    /\ Goto(t, "syncCb")
    /\ UNCHANGED <<LinkMutex, suberVars, EvtDescQueue, QueuedEvtNum, CallbacedEvtNum, State, loop,
                   result, callVars>>

syncBusy(t) ==
    /\ pc[t] = "sync" /\ hasEvtDescInLinkObj
    /\ IF op[t].block = "NonBlock"
       THEN Finish(t, "TOO_LONG_EMPTYING_EVTDESC_QUEUE")
       ELSE Goto(t, "syncWait") /\ UNCHANGED result
    /\ UNCHANGED <<LinkMutex, suberVars, queueVars, State, loop, cb, due, callVars>>

syncWait_SilentTimeout(t) ==   \* mutant: the loop ends without setting a result
    /\ pc[t] = "syncWait" /\ hasEvtDescInLinkObj
    /\ wakeupLinkObjThread
    /\ \/ UNCHANGED <<pc, result>>
       \/ op[t].block = "Timeout" /\ Finish(t, "SUCCESS")
    /\ UNCHANGED <<LinkMutex, suberVars, queueVars, State, cb, due, callVars>>

(* Each round of SyncTimed wakes EvtProcThread up; a timed post may give up after any round. *)
syncWait(t) ==
    /\ pc[t] = "syncWait" /\ hasEvtDescInLinkObj
    /\ wakeupLinkObjThread
    /\ \/ UNCHANGED <<pc, result>>
       \/ op[t].block = "Timeout" /\ Finish(t, "TOO_LONG_EMPTYING_EVTDESC_QUEUE")
    /\ UNCHANGED <<LinkMutex, suberVars, queueVars, State, cb, due, callVars>>

Post(t) ==
    \/ postRefused(t) \/ postAdmitted(t)
    \/ asyncEnqueue(t) \/ asyncFull(t) \/ asyncTimeout(t) \/ countQueued(t) \/ signalQueued(t)
    \/ syncDispatch(t) \/ syncBusy(t) \/ syncWait(t)

-----------------------------------------------------------------------------
(* insertSuberIntoLinkObj and removeSuberFromLinkObj. *)
IsSubed(c) == \E i \in Slots : Subers[i] = c
FirstSlotOf(c) == CHOOSE i \in Slots : Subers[i] = c /\ \A j \in Slots : Subers[j] = c => i <= j

enterSubOrUnsub(t) ==
    /\ pc[t] \in {"sub", "unsub"} /\ SuberMutex = {}
    /\ SuberMutex' = {t}
    /\ Transfer(IF pc[t] = "sub" THEN "IsInSub" ELSE "IsInUnsub", TRUE)
    /\ Goto(t, IF pc[t] = "sub" THEN "insert" ELSE "remove")
    /\ UNCHANGED <<LinkMutex, Subers, SuberNum, queueVars, loop, result, cb, due, callVars>>

insertRefused(t, code) ==
    result' = [result EXCEPT ![t] = code] /\ UNCHANGED <<Subers, SuberNum>>

insertSuber(t) ==
    /\ pc[t] = "insert"
    /\ LET c == op[t].who
       IN  CASE SuberNum >= MaxSuber -> insertRefused(t, "TOO_MANY_EVENT_CONSUMER")
             [] SuberNum < MaxSuber /\ IsSubed(c) -> insertRefused(t, "CONFLICT_EVENT_CONSUMER")
             [] OTHER -> /\ Subers' = [Subers EXCEPT ![FirstSlotOf(UnSubed)] = c]
                         /\ SuberNum' = SuberNum + 1
                         /\ result' = [result EXCEPT ![t] = "SUCCESS"]
    /\ Goto(t, "leaveSub")
    /\ UNCHANGED <<LinkMutex, SuberMutex, queueVars, State, loop, cb, due, callVars>>

removeSuber_Uncounted(t) ==   \* mutant: SuberNum goes down although no slot was found
    /\ pc[t] = "remove"
    /\ Subers' = [i \in Slots |-> IF Subers[i] = op[t].who THEN UnSubed ELSE Subers[i]]
    /\ SuberNum' = SuberNum - 1
    /\ result' = [result EXCEPT ![t] = "SUCCESS"]
    /\ Goto(t, "leaveUnsub")
    /\ UNCHANGED <<LinkMutex, SuberMutex, queueVars, State, loop, cb, due, callVars>>

(* A consumer that is not in the list is not an error, unless the list is empty. *)
removeSuber(t) ==
    /\ pc[t] = "remove"
    /\ LET c == op[t].who
       IN  IF IsSubed(c)
           THEN /\ Subers' = [Subers EXCEPT ![FirstSlotOf(c)] = UnSubed]
                /\ SuberNum' = SuberNum - 1
           ELSE UNCHANGED <<Subers, SuberNum>>
    /\ result' = [result EXCEPT ![t] = IF SuberNum = 0 THEN "NO_EVENT_CONSUMER" ELSE "SUCCESS"]
    /\ Goto(t, "leaveUnsub")
    /\ UNCHANGED <<LinkMutex, SuberMutex, queueVars, State, loop, cb, due, callVars>>

leaveSubOrUnsub(t) ==
    /\ pc[t] \in {"leaveSub", "leaveUnsub"}
    /\ Transfer(IF pc[t] = "leaveSub" THEN "IsInSub" ELSE "IsInUnsub", FALSE)
    /\ SuberMutex' = SuberMutex \ {t}
    /\ Goto(t, "unlock")
    /\ UNCHANGED <<LinkMutex, Subers, SuberNum, queueVars, loop, result, cb, due, callVars>>

SubOrUnsub(t) == enterSubOrUnsub(t) \/ insertSuber(t) \/ removeSuber(t) \/ leaveSubOrUnsub(t)

-----------------------------------------------------------------------------
(* callbackProcEvtOverSuberList: collect the matching consumers under the list's mutex, then call
   them in slot order without it. *)
Matches(c, evt) == c # UnSubed /\ (Wants[c] = {} \/ evt.id \in Wants[c])
MatchingConsumers(evt) == {<<i, Subers[i]>> : i \in {j \in Slots : Matches(Subers[j], evt)}}
First(todo) == CHOOSE m \in todo : \A k \in todo : m[1] <= k[1]

collectSubers(t) ==
    /\ cb[t].at = "collect" /\ SuberMutex = {}
    /\ cb' = [cb EXCEPT ![t].at = "enter", ![t].todo = MatchingConsumers(cb[t].evt)]
    /\ due' = Tail(due)
    /\ UNCHANGED <<LinkMutex, suberVars, queueVars, State, loop, pc, result, callVars>>

enterCbProcEvt(t) ==
    /\ cb[t].at = "enter"
    /\ Transfer("IsInCbProc", TRUE)
    /\ cb' = [cb EXCEPT ![t].at = "next"]
    /\ UNCHANGED <<LinkMutex, suberVars, queueVars, loop, pc, result, due, callVars>>

callCbProcEvt(t) ==
    /\ cb[t].at = "next" /\ cb[t].todo # {}
    /\ cb' = [cb EXCEPT ![t].at = "body"]
    /\ UNCHANGED <<LinkMutex, suberVars, queueVars, State, loop, pc, result, due, callVars>>

returnCbProcEvt(t) ==
    /\ cb[t].at = "body" /\ pc[t] \in {"idle", "syncCb"}
    /\ cb' = [cb EXCEPT ![t].at = "next", ![t].todo = @ \ {First(@)}]
    /\ UNCHANGED <<LinkMutex, suberVars, queueVars, State, loop, pc, result, due, callVars>>

leaveCbProcEvt(t) ==
    /\ cb[t].at = "next" /\ cb[t].todo = {}
    /\ Transfer("IsInCbProc", FALSE)
    /\ cb' = [cb EXCEPT ![t] = NoCb]
    /\ IF t = EvtProc
       THEN loop' = "count" /\ UNCHANGED <<pc, result>>
       ELSE Finish(t, "SUCCESS") /\ UNCHANGED loop
    /\ UNCHANGED <<LinkMutex, suberVars, queueVars, due, callVars>>

Dispatch(t) ==
    \/ collectSubers(t) \/ enterCbProcEvt(t) \/ callCbProcEvt(t) \/ returnCbProcEvt(t) \/ leaveCbProcEvt(t)

-----------------------------------------------------------------------------
(* callbackProcEvtThread. *)
waitLinkObjNewEvtDesc ==
    /\ loop = "wait"
    /\ loop' = "waiting"
    /\ UNCHANGED <<LinkMutex, suberVars, queueVars, State, pc, result, cb, due, callVars>>

waitTimedOut_Never ==   \* mutant: pthread_cond_wait, without a timeout
    /\ loop = "waiting"
    /\ UNCHANGED vars

(* pthread_cond_timedwait gives up after 10ms. *)
waitTimedOut ==
    /\ loop = "waiting"
    /\ loop' = "dequeue"
    /\ UNCHANGED <<LinkMutex, suberVars, queueVars, State, pc, result, cb, due, callVars>>

dequeueElementFirst ==
    /\ loop = "dequeue"
    /\ IF EvtDescQueue = <<>>
       THEN loop' = "wait" /\ UNCHANGED <<EvtDescQueue, cb>>
       ELSE /\ loop' = "dispatch"
            /\ EvtDescQueue' = Tail(EvtDescQueue)
            /\ cb' = [cb EXCEPT ![EvtProc] = [at |-> "collect", evt |-> Head(EvtDescQueue), todo |-> {}]]
    /\ UNCHANGED <<LinkMutex, suberVars, QueuedEvtNum, CallbacedEvtNum, State, pc, result,
                   due, callVars>>

countCallbaced ==
    /\ loop = "count"
    /\ CallbacedEvtNum' = CallbacedEvtNum + 1
    /\ loop' = "dequeue"
    /\ UNCHANGED <<LinkMutex, suberVars, EvtDescQueue, QueuedEvtNum, State, pc, result, cb,
                   due, callVars>>

EvtProcThread == waitLinkObjNewEvtDesc \/ waitTimedOut \/ dequeueElementFirst \/ countCallbaced

-----------------------------------------------------------------------------
(* forceProcEvt: wake the thread up, sleep, and look again until the counters, which are read one
   after the other and without the link's mutex, agree.  wakeupProcEvt: the signal alone. *)
forceSignal(t) ==
    /\ pc[t] \in {"force", "wakeup"}
    /\ wakeupLinkObjThread
    /\ IF pc[t] = "force"
       THEN Goto(t, "readQueued") /\ UNCHANGED <<op, result, seen, pending>>
       ELSE Return(t)
    /\ UNCHANGED <<LinkMutex, suberVars, queueVars, State, cb, due, calls>>

forceReadQueued(t) ==
    /\ pc[t] = "readQueued"
    /\ seen' = [seen EXCEPT ![t] = QueuedEvtNum]
    /\ Goto(t, "readCallbaced")
    /\ UNCHANGED <<LinkMutex, suberVars, queueVars, State, loop, result, cb, due, op, calls,
                   pending>>

forceReadCallbaced_Queue(t) ==   \* mutant: waits until the queue is empty
    /\ pc[t] = "readCallbaced"
    /\ IF EvtDescQueue = <<>>
       THEN Return(t)
       ELSE Goto(t, "force") /\ UNCHANGED <<op, result, seen, pending>>
    /\ UNCHANGED <<LinkMutex, suberVars, queueVars, State, loop, cb, due, calls>>

forceReadCallbaced(t) ==
    /\ pc[t] = "readCallbaced"
    /\ IF seen[t] = CallbacedEvtNum
       THEN Return(t)
       ELSE Goto(t, "force") /\ UNCHANGED <<op, result, seen, pending>>
    /\ UNCHANGED <<LinkMutex, suberVars, queueVars, State, loop, cb, due, calls>>

ForceOrWakeup(t) == forceSignal(t) \/ forceReadQueued(t) \/ forceReadCallbaced(t)

-----------------------------------------------------------------------------
ApiStep(t) == getLinkObjLocked(t) \/ Post(t) \/ SubOrUnsub(t) \/ putLinkObj(t) \/ ForceOrWakeup(t)

Next ==
    \/ \E t \in Threads : CallApi(t) \/ ApiStep(t) \/ Dispatch(t)
    \/ EvtProcThread

Spec == Init /\ [][Next]_vars

(* Every thread is scheduled, and a mutex is granted in the end: the calls are finitely many, so
   nobody competes for one for ever. *)
Fairness ==
    /\ WF_vars(EvtProcThread)
    /\ \A t \in Threads : WF_vars(ApiStep(t)) /\ WF_vars(Dispatch(t))
FairSpec == Spec /\ Fairness

-----------------------------------------------------------------------------
ApiLabels == {"idle", "lock", "post", "sub", "unsub", "unlock", "enqueue", "waitSpace", "fastCount",
              "fastSignal", "slowSignal", "slowCount", "sync", "syncWait", "syncCb", "insert", "remove",
              "leaveSub", "leaveUnsub", "force", "wakeup", "readQueued", "readCallbaced"}
Results == {"none", "SUCCESS", "FORBIDDEN", "NO_EVENT_CONSUMER", "TOO_MANY_QUEUING_EVTDESC", "TIMEOUT",
            "TOO_LONG_EMPTYING_EVTDESC_QUEUE", "TOO_MANY_EVENT_CONSUMER", "CONFLICT_EVENT_CONSUMER"}
Events == [by : Threads, n : 1 .. MaxCalls, id : EvtIDs]
CbRuns == [at : {"none", "collect", "enter", "next", "body"}, evt : Events \cup {NoEvent},
           todo : SUBSET (Slots \X Consumers)]
MainStates == {"Ready", "BusyCbProcEvt", "BusySubEvt", "BusyUnsubEvt"}

(* Every variable has its type; the queue never holds more than Capacity events. *)
TypeOK ==
    /\ LinkMutex \in SUBSET Threads /\ SuberMutex \in SUBSET Threads
    /\ Subers \in [Slots -> Consumers \cup {UnSubed}] /\ SuberNum \in Nat
    /\ EvtDescQueue \in Seq(Events) /\ Len(EvtDescQueue) <= Capacity
    /\ QueuedEvtNum \in Nat /\ CallbacedEvtNum \in Nat
    /\ State \in [IsInCbProc : BOOLEAN, IsInSub : BOOLEAN, IsInUnsub : BOOLEAN, Main : MainStates]
    /\ loop \in {"wait", "waiting", "dequeue", "dispatch", "count"}
    /\ pc \in [Threads -> ApiLabels]
    /\ op \in [Threads -> Ops \cup {NoOp}]
    /\ result \in [Threads -> Results]
    /\ cb \in [Threads -> CbRuns]
    /\ seen \in [Threads -> Nat] /\ calls \in [Threads -> 0 .. MaxCalls]
    /\ due \in Seq(Events) /\ pending \in [Threads -> SUBSET Events]

(* At most one thread is calling consumers back, whether it is EvtProcThread or a synchronous poster:
   no consumer sees two events at the same time (_IOC_ConlesEvent.c:866, 910). *)
CallbackExclusion == \A t, u \in Threads : Dispatching(t) /\ Dispatching(u) => t = u

(* Events reach the consumers in the order in which the link accepted them, none lost and none twice,
   the synchronous ones in their place among the queued ones: what is due is the event taken out for
   delivery, if there is one, followed by the queue. *)
Collecting(t) == cb[t].at = "collect"
InHand == IF \E t \in Threads : Collecting(t)
          THEN <<cb[CHOOSE t \in Threads : Collecting(t)].evt>>
          ELSE <<>>
DeliveryOrder == due = InHand \o EvtDescQueue

(* What getLinkState shows is what the threads are doing, with callbacks before subscriptions before
   unsubscriptions (_IOC_ConlesEvent.c:198-208): a flag that one thread clears is not one that
   another thread still needs. *)
InCallbacks == \E t \in Threads : cb[t].at \in {"next", "body"}
InSub == \E t \in Threads : pc[t] \in {"insert", "leaveSub"}
InUnsub == \E t \in Threads : pc[t] \in {"remove", "leaveUnsub"}
LinkStateTruthful ==
    /\ State.IsInCbProc = InCallbacks /\ State.IsInSub = InSub /\ State.IsInUnsub = InUnsub
    /\ State.Main = CASE InCallbacks -> "BusyCbProcEvt"
                      [] ~InCallbacks /\ InSub -> "BusySubEvt"
                      [] ~InCallbacks /\ ~InSub /\ InUnsub -> "BusyUnsubEvt"
                      [] OTHER -> "Ready"

(* No consumer is subscribed twice, and SuberNum, which postEVT reads instead of the list, is the
   number of slots in use. *)
SuberListOK ==
    /\ \A i, j \in Slots : Subers[i] = Subers[j] /\ Subers[i] # UnSubed => i = j
    /\ SuberNum = Cardinality({i \in Slots : Subers[i] # UnSubed})

(* A post that is going to report an error left nothing behind that is delivered later: an
   application that posts again because of the error delivers its event once. *)
ErrorMeansNotAccepted ==
    \A t \in Threads : pc[t] = "unlock" /\ op[t].api = "post" /\ result[t] # "SUCCESS" =>
        Event(t) \notin Unprocessed

(* IOC_EvtAPI.h: "when return from this API, all pending events will be processed".  When
   forceProcEvt returns, every event whose post had returned before it was called has been
   processed, although it reads the two counters one after the other and without a lock. *)
ForceProcDrains ==
    [][\A t \in Threads : pc[t] = "readCallbaced" /\ pc'[t] = "idle" => pending[t] \cap Unprocessed = {}]_vars

(* The link as EventChannel sees it.  A callback that calls the API from a synchronous post waits
   for its own thread: the post is accepted and stays so. *)
Calling == {"enter", "next", "body"}
BeingHandled == {cb[t].evt : t \in {u \in Threads : cb[u].at \in Calling}}
Progress(t) ==
    CASE pc[t] \in {"lock", "post", "enqueue", "waitSpace", "sync", "syncWait"} -> "begun"
      [] pc[t] = "unlock" /\ result[t] # "SUCCESS" -> "refused"
      [] OTHER -> "accepted"
PostingOf(t) ==
    IF t \in Users /\ Dispatching(t) THEN [at |-> "accepted", sync |-> TRUE, evt |-> cb[t].evt]
    ELSE IF op[t].api = "post" THEN [at |-> Progress(t), sync |-> op[t].sync, evt |-> Event(t)]
    ELSE [at |-> "none"]

Channel == INSTANCE EventChannel WITH
    Posters <- Threads, queue <- InHand \o EvtDescQueue, handled <- BeingHandled,
    posting <- [t \in Threads |-> PostingOf(t)]

(* An event that the link accepts is handled once, after those accepted before it and never together
   with another one, whether EvtProcThread or a synchronous poster calls the consumers back; a
   synchronous post that succeeds has had its own event handled, and a post that fails never will. *)
ImplementsChannel == Channel!Spec

(* Every accepted event is processed in the end, the wakeups that are signalled while EvtProcThread
   is not waiting notwithstanding: again and again nothing is left to process. *)
AcceptedIsProcessed == []<>(Unprocessed = {})

(* Every call returns in the end, whichever way it waits. *)
CallsReturn == \A t \in Threads : []<>(pc[t] = "idle")
=============================================================================
