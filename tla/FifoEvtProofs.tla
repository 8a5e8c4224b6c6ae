---------------------------- MODULE FifoEvtProofs ----------------------------
(***************************************************************************)
(* Events over a FIFO link, for any number of threads at either end, any   *)
(* subscriptions, any length of the queues and any number of posts: the    *)
(* types, the order of the sequence numbers, one callback for each         *)
(* subscribed EvtID, and no event pulled twice.                            *)
(***************************************************************************)
EXTENDS FifoEvt, FiniteSetTheorems, SequenceTheorems, TLAPS

PostLabels == {"stamp", "lock", "lockPeer", "loop", "calling", "stuck", "unlock"}
Posting(t) == pc[t] \in PostLabels

(* The types in parts: what belongs to the links, to the events, and to the threads. *)
LinkTypes ==
    /\ subs \in 0 .. MaxSubs /\ sub \in [Ends -> SubEvtArgs \cup {NoSub}] /\ unspecified \in [Ends -> BOOLEAN]
    /\ EvtPollingQueue \in [Ends -> Seq(Events)] /\ pulled \in [Ends -> Seq(Events)]
    /\ \A e \in Ends : Len(EvtPollingQueue[e]) <= QueueLen
    /\ Mutex \in [Ends -> Threads \cup {Free}] /\ dropped \in SUBSET Events
EventTypes ==
    /\ SeqID \in 0 .. MaxPosts /\ posts \in 0 .. MaxPosts /\ SeqID = posts
    /\ seq \in [Events -> 0 .. MaxPosts] /\ EvtID \in [Events -> EvtIDs \cup {"none"}]
    /\ ret \in [Events -> {"none", "SUCCESS", "NO_EVENT_CONSUMER"}]
    /\ earlier \in [Events -> SUBSET Events]
ThreadTypes ==
    /\ pc \in [Threads -> Labels] /\ args \in [Threads -> SubEvtArgs \cup {NoSub}]
    /\ evt \in [Threads -> 0 .. MaxPosts] /\ cb \in [Threads -> BOOLEAN]
    /\ index \in [Threads -> Nat] /\ count \in [Threads -> Nat] /\ raced \in [Threads -> BOOLEAN]
(* A thread that posts has an event. *)
HasEvent == \A t \in Threads : Posting(t) => evt[t] \in 1 .. posts
TypeInv == LinkTypes /\ EventTypes /\ ThreadTypes /\ HasEvent

LEMMA TypeInvOK == TypeInv => TypeOK
  BY DEF TypeInv, LinkTypes, EventTypes, ThreadTypes, TypeOK

LEMMA EndsOfThreads ==
    \A t \in Threads : Here(t) \in Ends /\ There(t) \in Ends /\ Here(t) # There(t) /\ t # Free
  BY ThreadsAssumption DEF Here, There, Ends, Peer

LEMMA Sizes == MaxPosts \in Nat /\ MaxSubs \in Nat /\ QueueLen \in Nat \ {0}
  BY BoundsAssumption

LEMMA SubscriptionFields ==
    ASSUME NEW a \in SubEvtArgs \cup {NoSub}
    PROVE  a.CbProcEvt_F \in BOOLEAN /\ a.pEvtIDs \in Seq(EvtIDs)
<1>1. CASE a = NoSub
  BY <1>1, EmptySeq DEF NoSub
<1>2. CASE a \in SubEvtArgs
  BY <1>2, SubscriptionsAssumption
<1> QED
  BY <1>1, <1>2

LEMMA InitTypeInv == Init => TypeInv
  BY Sizes DEF Init, TypeInv, LinkTypes, EventTypes, ThreadTypes, HasEvent, Posting, PostLabels, Labels, Pulls, Events

LEMMA PostType ==
    ASSUME TypeInv, NEW t \in Threads, postEVT(t) \/ PostStep(t)
    PROVE  TypeInv'
<1> USE Sizes, EndsOfThreads DEF TypeInv, Posting, PostLabels, Labels, Goto, Events,
        subVars, queueVars, postVars, eventVars
<1>1. CASE postEVT(t)
  <2>1. LinkTypes'
    BY <1>1 DEF postEVT, Incremented, Returned, LinkTypes
  <2>2. EventTypes'
    BY <1>1 DEF postEVT, Incremented, Returned, EventTypes, HasEvent
  <2>3. ThreadTypes'
    <3>1. posts + 1 \in 0 .. MaxPosts
      BY <1>1 DEF postEVT, EventTypes
    <3>2. pc' = [pc EXCEPT ![t] = "stamp"] /\ evt' = [evt EXCEPT ![t] = posts + 1]
      BY <1>1 DEF postEVT
    <3>3. UNCHANGED <<args, cb, index, count, raced>>
      BY <1>1 DEF postEVT
    <3> QED
      BY <3>1, <3>2, <3>3 DEF ThreadTypes
  <2>4. HasEvent'
    BY <1>1 DEF postEVT, Incremented, Returned, HasEvent, ThreadTypes, EventTypes
  <2> QED
    BY <2>1, <2>2, <2>3, <2>4
<1>2. CASE stampEvt(t)
  <2>1. LinkTypes'
    BY <1>2 DEF stampEvt, LinkTypes
  <2>2. EventTypes'
    BY <1>2 DEF stampEvt, EventTypes, HasEvent
  <2>3. ThreadTypes'
    <3>1. pc' = [pc EXCEPT ![t] = "lock"] /\ UNCHANGED <<args, evt, cb, index, count, raced>>
      BY <1>2 DEF stampEvt
    <3> QED
      BY <3>1 DEF ThreadTypes
  <2>4. HasEvent'
    BY <1>2 DEF stampEvt, HasEvent, ThreadTypes, EventTypes
  <2> QED
    BY <2>1, <2>2, <2>3, <2>4
<1>3. CASE lockLocal(t)
  <2>1. LinkTypes'
    BY <1>3 DEF lockLocal, LinkTypes
  <2>2. EventTypes'
    BY <1>3 DEF lockLocal, EventTypes, HasEvent
  <2>3. ThreadTypes'
    BY <1>3 DEF lockLocal, ThreadTypes, EventTypes
  <2>4. HasEvent'
    BY <1>3 DEF lockLocal, HasEvent, ThreadTypes, EventTypes
  <2> QED
    BY <2>1, <2>2, <2>3, <2>4
<1>4. CASE lockPeer(t)
  <2>1. LinkTypes'
    BY <1>4 DEF lockPeer, MidChange, LinkTypes
  <2>2. EventTypes'
    BY <1>4 DEF lockPeer, MidChange, EventTypes, HasEvent
  <2>3. ThreadTypes'
    <3>1. MidChange(There(t)) \in BOOLEAN
      BY DEF MidChange
    <3>2. sub[There(t)].CbProcEvt_F \in BOOLEAN
      BY SubscriptionFields DEF LinkTypes
    <3> QED
      BY <1>4, <3>1, <3>2 DEF lockPeer, ThreadTypes
  <2>4. HasEvent'
    BY <1>4 DEF lockPeer, MidChange, HasEvent, ThreadTypes, EventTypes
  <2> QED
    BY <2>1, <2>2, <2>3, <2>4
<1>5. CASE loopSkips(t)
  <2>1. LinkTypes'
    BY <1>5 DEF loopSkips, LinkTypes
  <2>2. EventTypes'
    BY <1>5 DEF loopSkips, EventTypes, HasEvent
  <2>3. ThreadTypes'
    BY <1>5 DEF loopSkips, ThreadTypes, EventTypes
  <2>4. HasEvent'
    BY <1>5 DEF loopSkips, HasEvent, ThreadTypes, EventTypes
  <2> QED
    BY <2>1, <2>2, <2>3, <2>4
<1>6. CASE loopCalls(t)
  <2>1. LinkTypes'
    BY <1>6 DEF loopCalls, LinkTypes
  <2>2. EventTypes'
    BY <1>6 DEF loopCalls, EventTypes, HasEvent
  <2>3. ThreadTypes'
    BY <1>6 DEF loopCalls, ThreadTypes, EventTypes
  <2>4. HasEvent'
    BY <1>6 DEF loopCalls, HasEvent, ThreadTypes, EventTypes
  <2> QED
    BY <2>1, <2>2, <2>3, <2>4
<1>7. CASE callbackReturns(t)
  <2>1. LinkTypes'
    BY <1>7 DEF callbackReturns, AfterCallback, LinkTypes
  <2>2. EventTypes'
    BY <1>7 DEF callbackReturns, AfterCallback, EventTypes, HasEvent
  <2>3. ThreadTypes'
    BY <1>7 DEF callbackReturns, AfterCallback, ThreadTypes, EventTypes
  <2>4. HasEvent'
    BY <1>7 DEF callbackReturns, AfterCallback, HasEvent, ThreadTypes, EventTypes
  <2> QED
    BY <2>1, <2>2, <2>3, <2>4
<1>8. CASE callbackPosts(t)
  <2>1. LinkTypes'
    BY <1>8 DEF callbackPosts, LinkTypes
  <2>2. EventTypes'
    BY <1>8 DEF callbackPosts, EventTypes, HasEvent
  <2>3. ThreadTypes'
    BY <1>8 DEF callbackPosts, ThreadTypes, EventTypes
  <2>4. HasEvent'
    BY <1>8 DEF callbackPosts, HasEvent, ThreadTypes, EventTypes
  <2> QED
    BY <2>1, <2>2, <2>3, <2>4
<1>9. CASE loopQueues(t)
  <2>1. LinkTypes'
    <3>1. UNCHANGED <<sub, unspecified, subs, pulled, Mutex>>
      BY <1>9 DEF loopQueues
    <3>2. evt[t] \in Events /\ There(t) \in Ends
      BY <1>9 DEF loopQueues, HasEvent, EventTypes
    <3>3. CASE QueueHasRoom(There(t))
      <4> DEFINE q == Append(EvtPollingQueue[There(t)], evt[t])
      <4>1. EvtPollingQueue' = [EvtPollingQueue EXCEPT ![There(t)] = q] /\ UNCHANGED dropped
        BY <1>9, <3>3 DEF loopQueues
      <4>2. q \in Seq(Events) /\ Len(q) <= QueueLen
        BY <3>2, <3>3 DEF QueueHasRoom, LinkTypes
      <4> QED
        BY <3>1, <4>1, <4>2 DEF LinkTypes
    <3>4. CASE ~QueueHasRoom(There(t))
      BY <1>9, <3>1, <3>2, <3>4 DEF loopQueues, LinkTypes
    <3> QED
      BY <3>3, <3>4
  <2>2. EventTypes'
    BY <1>9 DEF loopQueues, QueueHasRoom, EventTypes, HasEvent
  <2>3. ThreadTypes'
    BY <1>9 DEF loopQueues, QueueHasRoom, ThreadTypes, EventTypes
  <2>4. HasEvent'
    BY <1>9 DEF loopQueues, QueueHasRoom, HasEvent, ThreadTypes, EventTypes
  <2> QED
    BY <2>1, <2>2, <2>3, <2>4
<1>10. CASE unlockBoth(t)
  <2>1. LinkTypes'
    BY <1>10 DEF unlockBoth, Unlocked, LinkTypes
  <2>2. EventTypes'
    BY <1>10 DEF unlockBoth, Unlocked, EventTypes, HasEvent
  <2>3. ThreadTypes'
    BY <1>10 DEF unlockBoth, Unlocked, ThreadTypes, EventTypes
  <2>4. HasEvent'
    BY <1>10 DEF unlockBoth, Unlocked, HasEvent, ThreadTypes, EventTypes
  <2> QED
    BY <2>1, <2>2, <2>3, <2>4
<1> QED
  BY <1>1, <1>2, <1>3, <1>4, <1>5, <1>6, <1>7, <1>8, <1>9, <1>10 DEF PostStep

LEMMA SubType ==
    ASSUME TypeInv, NEW t \in Threads, subEVT(t) \/ unsubEVT(t) \/ SubStep(t)
    PROVE  TypeInv'
<1> USE Sizes, EndsOfThreads DEF TypeInv, Posting, PostLabels, Labels, Goto, Events,
        subVars, queueVars, postVars, eventVars, Races, InLoop
<1>1. CASE subEVT(t)
  <2>1. LinkTypes'
    BY <1>1 DEF subEVT, LinkTypes
  <2>2. EventTypes'
    BY <1>1 DEF subEVT, EventTypes, HasEvent
  <2>3. ThreadTypes'
    BY <1>1 DEF subEVT, ThreadTypes, EventTypes
  <2>4. HasEvent'
    BY <1>1 DEF subEVT, HasEvent, ThreadTypes, EventTypes
  <2> QED
    BY <2>1, <2>2, <2>3, <2>4
<1>2. CASE subMalloc(t)
  <2>1. LinkTypes'
    BY <1>2 DEF subMalloc, LinkTypes
  <2>2. EventTypes'
    BY <1>2 DEF subMalloc, EventTypes, HasEvent
  <2>3. ThreadTypes'
    BY <1>2 DEF subMalloc, ThreadTypes, EventTypes
  <2>4. HasEvent'
    BY <1>2 DEF subMalloc, HasEvent, ThreadTypes, EventTypes
  <2> QED
    BY <2>1, <2>2, <2>3, <2>4
<1>3. CASE subFill(t)
  <2>1. LinkTypes'
    BY <1>3 DEF subFill, LinkTypes
  <2>2. EventTypes'
    BY <1>3 DEF subFill, EventTypes, HasEvent
  <2>3. ThreadTypes'
    BY <1>3 DEF subFill, ThreadTypes, EventTypes
  <2>4. HasEvent'
    BY <1>3 DEF subFill, HasEvent, ThreadTypes, EventTypes
  <2> QED
    BY <2>1, <2>2, <2>3, <2>4
<1>4. CASE unsubEVT(t)
  <2>1. LinkTypes'
    BY <1>4 DEF unsubEVT, LinkTypes
  <2>2. EventTypes'
    BY <1>4 DEF unsubEVT, EventTypes, HasEvent
  <2>3. ThreadTypes'
    BY <1>4 DEF unsubEVT, ThreadTypes, EventTypes
  <2>4. HasEvent'
    BY <1>4 DEF unsubEVT, HasEvent, ThreadTypes, EventTypes
  <2> QED
    BY <2>1, <2>2, <2>3, <2>4
<1>5. CASE unsubClear(t)
  <2>1. LinkTypes'
    BY <1>5 DEF unsubClear, LinkTypes
  <2>2. EventTypes'
    BY <1>5 DEF unsubClear, EventTypes, HasEvent
  <2>3. ThreadTypes'
    BY <1>5 DEF unsubClear, ThreadTypes, EventTypes
  <2>4. HasEvent'
    BY <1>5 DEF unsubClear, HasEvent, ThreadTypes, EventTypes
  <2> QED
    BY <2>1, <2>2, <2>3, <2>4
<1> QED
  BY <1>1, <1>2, <1>3, <1>4, <1>5 DEF SubStep

LEMMA PullType ==
    ASSUME TypeInv, NEW t \in Threads, pullEVT(t) \/ pullNothing(t) \/ pullTimeout(t)
    PROVE  TypeInv'
<1> USE Sizes, EndsOfThreads DEF TypeInv, Posting, PostLabels, Labels, Goto, Events,
        subVars, queueVars, postVars, eventVars, Pulls
<1>1. CASE pullEVT(t)
  <2>1. LinkTypes'
    <3> DEFINE q == EvtPollingQueue[Here(t)]
    <3>1. UNCHANGED <<sub, unspecified, subs, dropped, Mutex>>
      BY <1>1 DEF pullEVT
    <3>2. q \in Seq(Events) /\ q # <<>> /\ Len(q) <= QueueLen /\ pulled[Here(t)] \in Seq(Events)
      BY <1>1 DEF pullEVT, LinkTypes, q
    <3> HIDE DEF q
    <3>3. Tail(q) \in Seq(Events) /\ Len(Tail(q)) <= QueueLen /\ Append(pulled[Here(t)], Head(q)) \in Seq(Events)
      BY <3>2, HeadTailProperties, AppendProperties
    <3>4. /\ EvtPollingQueue' = [EvtPollingQueue EXCEPT ![Here(t)] = Tail(q)]
          /\ pulled' = [pulled EXCEPT ![Here(t)] = Append(pulled[Here(t)], Head(q))]
      BY <1>1 DEF pullEVT, LeftInQueue, q
    <3> QED
      BY <3>1, <3>2, <3>3, <3>4 DEF LinkTypes
  <2>2. EventTypes'
    BY <1>1 DEF pullEVT, LeftInQueue, EventTypes, HasEvent
  <2>3. ThreadTypes'
    BY <1>1 DEF pullEVT, LeftInQueue, ThreadTypes, EventTypes
  <2>4. HasEvent'
    BY <1>1 DEF pullEVT, LeftInQueue, HasEvent, ThreadTypes, EventTypes
  <2> QED
    BY <2>1, <2>2, <2>3, <2>4
<1>2. CASE pullNothing(t)
  <2>1. LinkTypes'
    BY <1>2 DEF pullNothing, LinkTypes
  <2>2. EventTypes'
    BY <1>2 DEF pullNothing, EventTypes, HasEvent
  <2>3. ThreadTypes'
    BY <1>2 DEF pullNothing, ThreadTypes, EventTypes
  <2>4. HasEvent'
    BY <1>2 DEF pullNothing, HasEvent, ThreadTypes, EventTypes
  <2> QED
    BY <2>1, <2>2, <2>3, <2>4
<1>3. CASE pullTimeout(t)
  <2>1. LinkTypes'
    BY <1>3 DEF pullTimeout, LinkTypes
  <2>2. EventTypes'
    BY <1>3 DEF pullTimeout, EventTypes, HasEvent
  <2>3. ThreadTypes'
    BY <1>3 DEF pullTimeout, ThreadTypes, EventTypes
  <2>4. HasEvent'
    BY <1>3 DEF pullTimeout, HasEvent, ThreadTypes, EventTypes
  <2> QED
    BY <2>1, <2>2, <2>3, <2>4
<1> QED
  BY <1>1, <1>2, <1>3

LEMMA NextTypeInv == TypeInv /\ [Next]_vars => TypeInv'
<1> SUFFICES ASSUME TypeInv, [Next]_vars PROVE TypeInv'
  OBVIOUS
<1>1. CASE Next
  BY <1>1, PostType, SubType, PullType DEF Next
<1>2. CASE UNCHANGED vars
  BY <1>2 DEF TypeInv, LinkTypes, EventTypes, ThreadTypes, HasEvent, Posting, vars, subVars, queueVars, postVars, eventVars
<1> QED
  BY <1>1, <1>2

(* Every variable keeps its type, and no queue holds more events than it has slots, although loopQueues does *)
(* not look at the result of the enqueue (_IOC_SrvProtoFifo.c).                                              *)
THEOREM TypeCorrect == Spec => []TypeOK
  BY TypeInvOK, InitTypeInv, NextTypeInv, PTL DEF Spec

-----------------------------------------------------------------------------
(* Where an event can be: with the thread that posts it, in a queue, pulled, or dropped. *)
Elems(s) == {s[i] : i \in 1 .. Len(s)}
Distinct(s) == \A i, j \in 1 .. Len(s) : s[i] = s[j] => i = j
Pending(t) == pc[t] \in PostLabels \ {"unlock"}

Once == \A e \in Ends : Distinct(EvtPollingQueue[e]) /\ Distinct(pulled[e])
QueuedNotPulled == \A e, f \in Ends : Elems(EvtPollingQueue[e]) \cap Elems(pulled[f]) = {}
QueuesApart == \A e, f \in Ends : e # f => Elems(EvtPollingQueue[e]) \cap Elems(EvtPollingQueue[f]) = {}
PulledApart == \A e, f \in Ends : e # f => Elems(pulled[e]) \cap Elems(pulled[f]) = {}
DroppedApart == \A e \in Ends : dropped \cap Elems(EvtPollingQueue[e]) = {} /\ dropped \cap Elems(pulled[e]) = {}
Apart == QueuedNotPulled /\ QueuesApart /\ PulledApart /\ DroppedApart
Taken == dropped \cup UNION {Elems(EvtPollingQueue[e]) \cup Elems(pulled[e]) : e \in Ends}
TakenPosted == Taken \subseteq 1 .. posts
PendingFree == \A t \in Threads : Pending(t) => evt[t] \notin Taken
OwnEvents == \A t, u \in Threads : Posting(t) /\ Posting(u) /\ evt[t] = evt[u] => t = u
PlacesInv == Once /\ Apart /\ TakenPosted /\ PendingFree /\ OwnEvents

(* What the sequence numbers are: the value of the counter at some moment between the increment and now. *)
NotReturned == \A t \in Threads : Posting(t) => ret[evt[t]] = "none"
Stamps == \A n \in Events : seq[n] = 0 \/ (n <= seq[n] /\ seq[n] <= SeqID)
Unposted == \A n \in Events : n > posts => seq[n] = 0 /\ earlier[n] = {} /\ ret[n] = "none"
EarlierStamps == \A n \in Events : \A m \in earlier[n] : ret[m] # "none" /\ seq[m] < n
SeqInv == NotReturned /\ Stamps /\ Unposted /\ EarlierStamps

(* What a post can count on while no change of the subscription overlaps it. *)
UnspecifiedMid == \A e \in Ends : unspecified[e] => MidChange(e)
Matching(ids, id, k) == {i \in 1 .. k : i <= Len(ids) /\ ids[i] = id}
Counted(t) ==
    InLoop(t) => /\ index[t] \in Nat \ {0}
                 /\ ~raced[t] => /\ ~unspecified[There(t)]
                                 /\ count[t] = Cardinality(Matching(sub[There(t)].pEvtIDs, EvtID[evt[t]],
                                                            IF pc[t] = "loop" THEN index[t] - 1 ELSE index[t]))
CountInv == UnspecifiedMid /\ \A t \in Threads : Counted(t)

LEMMA ElemsOfEmpty == Elems(<<>>) = {} /\ Distinct(<<>>)
  BY DEF Elems, Distinct

LEMMA ElemsOfAppend ==
    ASSUME NEW S, NEW s \in Seq(S), NEW x \in S
    PROVE  /\ Elems(Append(s, x)) = Elems(s) \cup {x}
           /\ Distinct(s) /\ x \notin Elems(s) => Distinct(Append(s, x))
<1>1. /\ Len(Append(s, x)) = Len(s) + 1 /\ Len(s) \in Nat
      /\ \A i \in 1 .. Len(s) : Append(s, x)[i] = s[i]
      /\ Append(s, x)[Len(s) + 1] = x
  BY AppendProperties, LenProperties
<1> DEFINE a == Append(s, x)
<1> HIDE DEF a
<1>2. /\ Len(a) = Len(s) + 1 /\ Len(s) \in Nat /\ (\A i \in 1 .. Len(s) : a[i] = s[i]) /\ a[Len(s) + 1] = x
  BY <1>1 DEF a
<1>3. Elems(a) = Elems(s) \cup {x}
  <2>1. ASSUME NEW y \in Elems(a) PROVE y \in Elems(s) \cup {x}
    BY <1>2, <2>1 DEF Elems
  <2>2. ASSUME NEW y \in Elems(s) PROVE y \in Elems(a)
    BY <1>2, <2>2 DEF Elems
  <2>3. x \in Elems(a)
    BY <1>2 DEF Elems
  <2> QED
    BY <2>1, <2>2, <2>3
<1>4. ASSUME Distinct(s), x \notin Elems(s) PROVE Distinct(a)
  BY <1>2, <1>4 DEF Distinct, Elems
<1> QED
  BY <1>3, <1>4 DEF a

LEMMA ElemsOfTail ==
    ASSUME NEW S, NEW s \in Seq(S), s # <<>>, Distinct(s)
    PROVE  Head(s) \in Elems(s) /\ Elems(Tail(s)) = Elems(s) \ {Head(s)} /\ Distinct(Tail(s))
<1> DEFINE r == Tail(s)
<1>1. /\ Len(r) = Len(s) - 1 /\ Len(s) \in Nat \ {0} /\ Head(s) = s[1]
      /\ \A i \in 1 .. Len(r) : r[i] = s[i + 1]
  BY HeadTailProperties, LenProperties, EmptySeq
<1> HIDE DEF r
<1>2. Head(s) \in Elems(s)
  BY <1>1 DEF Elems
<1>3. ASSUME NEW y \in Elems(r) PROVE y \in Elems(s) \ {Head(s)}
  <2>1. PICK i \in 1 .. Len(r) : y = s[i + 1]
    BY <1>1, <1>3 DEF Elems
  <2>2. i + 1 \in 1 .. Len(s) /\ i + 1 # 1 /\ 1 \in 1 .. Len(s)
    BY <1>1
  <2> QED
    BY <1>1, <2>1, <2>2 DEF Elems, Distinct
<1>4. ASSUME NEW y \in Elems(s) \ {Head(s)} PROVE y \in Elems(r)
  <2>1. PICK i \in 1 .. Len(s) : y = s[i]
    BY <1>4 DEF Elems
  <2>2. i - 1 \in 1 .. Len(r) /\ r[i - 1] = s[i]
    BY <1>1, <1>4, <2>1
  <2> QED
    BY <2>1, <2>2 DEF Elems
<1>5. Distinct(r)
  BY <1>1 DEF Distinct
<1> QED
  BY <1>2, <1>3, <1>4, <1>5 DEF r

LEMMA InitPlaces == Init => PlacesInv
  BY Sizes, ElemsOfEmpty
  DEF Init, PlacesInv, Once, Apart, QueuedNotPulled, QueuesApart, PulledApart, DroppedApart, Taken, TakenPosted, PendingFree, OwnEvents, Pending, Posting, PostLabels

LEMMA QueuesKept ==
    ASSUME PlacesInv, UNCHANGED queueVars
    PROVE  Taken' = Taken /\ Once' /\ Apart'
<1>1. EvtPollingQueue' = EvtPollingQueue /\ pulled' = pulled /\ dropped' = dropped
  BY DEF queueVars
<1>2. Taken' = Taken
  BY <1>1 DEF Taken
<1>3. Once'
  BY <1>1 DEF PlacesInv, Once
<1>4. Apart'
  BY <1>1 DEF PlacesInv, Apart, QueuedNotPulled, QueuesApart, PulledApart, DroppedApart
<1> QED
  BY <1>2, <1>3, <1>4

(* A step that moves no event, and after which no other thread posts, or posts something else. *)
LEMMA PlacesKept ==
    ASSUME PlacesInv, UNCHANGED queueVars, posts' >= posts, posts \in Nat, posts' \in Nat,
           \A t \in Threads : /\ Posting(t)' => Posting(t) /\ evt'[t] = evt[t]
                              /\ Pending(t)' => Pending(t)
    PROVE  PlacesInv'
<1>1. Taken' = Taken /\ Once' /\ Apart'
  BY QueuesKept
<1>2. TakenPosted'
  BY <1>1 DEF PlacesInv, TakenPosted
<1>3. \A t \in Threads : pc'[t] \in PostLabels => pc[t] \in PostLabels /\ evt'[t] = evt[t]
  BY DEF Posting
<1>4. \A t \in Threads : pc'[t] \in PostLabels \ {"unlock"} => pc[t] \in PostLabels \ {"unlock"}
  BY DEF Pending
<1>5. PendingFree'
  BY <1>1, <1>3, <1>4 DEF PlacesInv, PendingFree, Pending
<1>6. OwnEvents'
  BY <1>3 DEF PlacesInv, OwnEvents, Posting
<1> QED
  BY <1>1, <1>2, <1>5, <1>6 DEF PlacesInv

LEMMA PostPlaces ==
    ASSUME TypeInv, PlacesInv, NEW t \in Threads, postEVT(t)
    PROVE  PlacesInv'
<1>1. /\ UNCHANGED queueVars /\ posts' = posts + 1 /\ posts \in Nat
      /\ evt' = [evt EXCEPT ![t] = posts + 1] /\ pc' = [pc EXCEPT ![t] = "stamp"]
  BY Sizes DEF postEVT, Goto, TypeInv, EventTypes
<1>2. Taken' = Taken /\ Once' /\ Apart'
  BY <1>1, QueuesKept
<1>3. TakenPosted'
  BY <1>1, <1>2 DEF PlacesInv, TakenPosted
<1>4. evt \in [Threads -> 0 .. MaxPosts] /\ pc \in [Threads -> Labels]
  BY DEF TypeInv, ThreadTypes
<1>5. posts + 1 \notin Taken /\ \A u \in Threads : Posting(u) => evt[u] \in 1 .. posts
  BY <1>1 DEF PlacesInv, TakenPosted, TypeInv, HasEvent
<1>6. \A u \in Threads \ {t} : pc'[u] = pc[u] /\ evt'[u] = evt[u]
  BY <1>1, <1>4
<1>7. evt'[t] = posts + 1
  BY <1>1, <1>4
<1>8. PendingFree'
  BY <1>2, <1>5, <1>6, <1>7 DEF PlacesInv, PendingFree, Pending, Posting
<1>9. OwnEvents'
  BY <1>1, <1>5, <1>6, <1>7 DEF PlacesInv, OwnEvents, Posting
<1> QED
  BY <1>2, <1>3, <1>8, <1>9 DEF PlacesInv

LEMMA QueuePlaces ==
    ASSUME TypeInv, PlacesInv, NEW t \in Threads, loopQueues(t)
    PROVE  PlacesInv'
<1> DEFINE e == There(t)
           n == evt[t]
<1>1. pc \in [Threads -> Labels] /\ pc' = [pc EXCEPT ![t] = "unlock"] /\ pc[t] = "loop"
  BY DEF TypeInv, ThreadTypes, loopQueues, Goto
<1>2. UNCHANGED <<evt, posts, pulled>>
  BY DEF loopQueues, eventVars
<1>3. e \in Ends /\ n \in Events /\ n \in 1 .. posts /\ n \notin Taken
  BY <1>1, EndsOfThreads, Sizes
  DEF PlacesInv, PendingFree, Pending, PostLabels, TypeInv, HasEvent, EventTypes, Posting, Events
<1>4. \A u \in Threads \ {t} : Pending(u) => evt[u] # n
  BY <1>1 DEF PlacesInv, OwnEvents, Posting, Pending, PostLabels
<1>5. \A u \in Threads : (Pending(u)' => Pending(u) /\ u # t) /\ (Posting(u)' => Posting(u))
  BY <1>1 DEF Pending, Posting, PostLabels
<1>6. OwnEvents'
  BY <1>2, <1>5 DEF PlacesInv, OwnEvents
<1>7. \A f \in Ends : EvtPollingQueue[f] \in Seq(Events)
  BY DEF TypeInv, LinkTypes
<1>8. CASE QueueHasRoom(e)
  <2>1. EvtPollingQueue' = [EvtPollingQueue EXCEPT ![e] = Append(EvtPollingQueue[e], n)] /\ UNCHANGED dropped
    BY <1>8 DEF loopQueues
  <2>2. /\ EvtPollingQueue'[e] = Append(EvtPollingQueue[e], n)
        /\ \A f \in Ends \ {e} : EvtPollingQueue'[f] = EvtPollingQueue[f]
    BY <2>1, <1>3 DEF TypeInv, LinkTypes
  <2>3. n \notin dropped /\ \A f \in Ends : n \notin Elems(EvtPollingQueue[f]) /\ n \notin Elems(pulled[f])
    BY <1>3 DEF Taken
  <2>4. /\ Elems(EvtPollingQueue'[e]) = Elems(EvtPollingQueue[e]) \cup {n}
        /\ Distinct(EvtPollingQueue'[e])
    BY <1>3, <1>7, <2>2, <2>3, ElemsOfAppend DEF PlacesInv, Once
  <2>5. Once'
    BY <1>2, <2>2, <2>4 DEF PlacesInv, Once
  <2>6. Apart'
    <3>1. \A f \in Ends : Elems(EvtPollingQueue'[f]) = IF f = e THEN Elems(EvtPollingQueue[f]) \cup {n}
                                                        ELSE Elems(EvtPollingQueue[f])
      BY <2>2, <2>4
    <3> HIDE DEF e, n
    <3>0. QueuedNotPulled /\ QueuesApart /\ PulledApart
      BY DEF PlacesInv, Apart
    <3>7. ASSUME NEW f \in Ends, NEW g \in Ends PROVE Elems(EvtPollingQueue'[f]) \cap Elems(pulled'[g]) = {}
      <4>1. Elems(EvtPollingQueue[f]) \cap Elems(pulled[g]) = {} /\ n \notin Elems(pulled[g])
        BY <2>3, <3>0 DEF QueuedNotPulled
      <4>2. Elems(EvtPollingQueue'[f]) \subseteq Elems(EvtPollingQueue[f]) \cup {n} /\ pulled' = pulled
        BY <1>2, <3>1
      <4> QED
        BY <4>1, <4>2
    <3>2. QueuedNotPulled'
      BY <3>7 DEF QueuedNotPulled
    <3>3. ASSUME NEW f \in Ends, NEW g \in Ends, f # g
          PROVE  Elems(EvtPollingQueue'[f]) \cap Elems(EvtPollingQueue'[g]) = {}
      <4>1. Elems(EvtPollingQueue[f]) \cap Elems(EvtPollingQueue[g]) = {}
        BY <3>0, <3>3 DEF QueuesApart
      <4>2. n \notin Elems(EvtPollingQueue[f]) /\ n \notin Elems(EvtPollingQueue[g])
        BY <2>3
      <4>3. /\ Elems(EvtPollingQueue'[f]) \subseteq Elems(EvtPollingQueue[f]) \cup (IF f = e THEN {n} ELSE {})
            /\ Elems(EvtPollingQueue'[g]) \subseteq Elems(EvtPollingQueue[g]) \cup (IF g = e THEN {n} ELSE {})
        BY <3>1
      <4> QED
        BY <3>3, <4>1, <4>2, <4>3
    <3>4. PulledApart'
      BY <1>2, <3>0 DEF PulledApart
    <3>6. QueuesApart'
      BY <3>3 DEF QueuesApart
    <3>5. DroppedApart'
      <4>1. dropped' = dropped /\ pulled' = pulled
        BY <1>2, <2>1
      <4> QED
        BY <2>3, <3>1, <4>1 DEF PlacesInv, Apart, DroppedApart
    <3> QED
      BY <3>2, <3>4, <3>5, <3>6 DEF Apart
  <2>7. Taken' = Taken \cup {n}
    BY <1>2, <1>3, <2>1, <2>2, <2>4 DEF Taken
  <2>8. TakenPosted' /\ PendingFree'
    BY <1>2, <1>3, <1>4, <1>5, <2>7 DEF PlacesInv, TakenPosted, PendingFree
  <2> QED
    BY <1>6, <2>5, <2>6, <2>8 DEF PlacesInv
<1>9. CASE ~QueueHasRoom(e)
  <2>1. dropped' = dropped \cup {n} /\ UNCHANGED EvtPollingQueue
    BY <1>9 DEF loopQueues
  <2>2. \A f \in Ends : n \notin Elems(EvtPollingQueue[f]) /\ n \notin Elems(pulled[f])
    BY <1>3 DEF Taken
  <2>3. Once' /\ Apart'
    BY <1>2, <2>1, <2>2 DEF PlacesInv, Once, Apart, QueuedNotPulled, QueuesApart, PulledApart, DroppedApart
  <2>4. Taken' = Taken \cup {n}
    BY <1>2, <2>1 DEF Taken
  <2>5. TakenPosted' /\ PendingFree'
    BY <1>2, <1>3, <1>4, <1>5, <2>4 DEF PlacesInv, TakenPosted, PendingFree
  <2> QED
    BY <1>6, <2>3, <2>5 DEF PlacesInv
<1> QED
  BY <1>8, <1>9

LEMMA PullPlaces ==
    ASSUME TypeInv, PlacesInv, NEW t \in Threads, pullEVT(t)
    PROVE  PlacesInv'
<1> DEFINE e == Here(t)
           q == EvtPollingQueue[e]
<1>1. /\ pc \in [Threads -> Labels] /\ pc' = [pc EXCEPT ![t] = "idle"]
      /\ UNCHANGED <<evt, posts, dropped>> /\ e \in Ends
  BY EndsOfThreads DEF TypeInv, ThreadTypes, pullEVT, Goto, postVars, eventVars
<1>2. q \in Seq(Events) /\ q # <<>> /\ pulled[e] \in Seq(Events)
  BY <1>1 DEF TypeInv, LinkTypes, pullEVT
<1>3. /\ EvtPollingQueue'[e] = Tail(q) /\ pulled'[e] = Append(pulled[e], Head(q))
      /\ \A f \in Ends \ {e} : EvtPollingQueue'[f] = EvtPollingQueue[f] /\ pulled'[f] = pulled[f]
  BY <1>1 DEF pullEVT, LeftInQueue, TypeInv, LinkTypes
<1>4. Distinct(q) /\ Distinct(pulled[e]) /\ Head(q) \in Events
  BY <1>1, <1>2, HeadTailProperties DEF PlacesInv, Once
<1>5. /\ Head(q) \in Elems(q) /\ Elems(EvtPollingQueue'[e]) = Elems(q) \ {Head(q)}
      /\ Distinct(EvtPollingQueue'[e])
  BY <1>2, <1>3, <1>4, ElemsOfTail
<1>6. \A f \in Ends : Head(q) \notin Elems(pulled[f])
  BY <1>1, <1>5 DEF PlacesInv, Apart, QueuedNotPulled
<1>7. Elems(pulled'[e]) = Elems(pulled[e]) \cup {Head(q)} /\ Distinct(pulled'[e])
  BY <1>1, <1>2, <1>3, <1>4, <1>6, ElemsOfAppend
<1>8. Once'
  BY <1>3, <1>5, <1>7 DEF PlacesInv, Once
<1>9. Apart'
  <2>1. \A f \in Ends : /\ Elems(EvtPollingQueue'[f]) \subseteq Elems(EvtPollingQueue[f])
                        /\ Elems(pulled'[f]) = IF f = e THEN Elems(pulled[f]) \cup {Head(q)} ELSE Elems(pulled[f])
                        /\ Head(q) \notin Elems(EvtPollingQueue'[f])
    BY <1>1, <1>3, <1>5, <1>7 DEF PlacesInv, Apart, QueuesApart
  <2>a. QueuedNotPulled /\ QueuesApart /\ PulledApart /\ DroppedApart
    BY DEF PlacesInv, Apart
  <2>b. e \in Ends /\ dropped' = dropped /\ Head(q) \in Elems(EvtPollingQueue[e])
    BY <1>1, <1>5
  <2>c. PICK x : x = Head(q)
    OBVIOUS
  <2>d. /\ x \in Elems(EvtPollingQueue[e])
        /\ \A f \in Ends : /\ x \notin Elems(pulled[f]) /\ x \notin Elems(EvtPollingQueue'[f])
                           /\ Elems(pulled'[f]) = IF f = e THEN Elems(pulled[f]) \cup {x} ELSE Elems(pulled[f])
                           /\ Elems(EvtPollingQueue'[f]) \subseteq Elems(EvtPollingQueue[f])
    BY <1>6, <2>1, <2>b, <2>c
  <2> HIDE DEF e, q
  <2>g. ASSUME NEW f \in Ends, NEW g \in Ends PROVE Elems(EvtPollingQueue'[f]) \cap Elems(pulled'[g]) = {}
    <3>1. Elems(EvtPollingQueue[f]) \cap Elems(pulled[g]) = {}
      BY <2>a DEF QueuedNotPulled
    <3>2. /\ Elems(EvtPollingQueue'[f]) \subseteq Elems(EvtPollingQueue[f]) /\ x \notin Elems(EvtPollingQueue'[f])
          /\ Elems(pulled'[g]) \subseteq Elems(pulled[g]) \cup {x}
      BY <2>d
    <3> QED
      BY <3>1, <3>2
  <2>2. QueuedNotPulled'
    BY <2>g DEF QueuedNotPulled
  <2>3. QueuesApart'
    BY <2>a, <2>d DEF QueuesApart
  <2>e. ASSUME NEW f \in Ends, NEW g \in Ends, f # g
        PROVE  Elems(pulled'[f]) \cap Elems(pulled'[g]) = {}
    <3>1. Elems(pulled[f]) \cap Elems(pulled[g]) = {}
      BY <2>a, <2>e DEF PulledApart
    <3>2. x \notin Elems(pulled[f]) /\ x \notin Elems(pulled[g])
      BY <2>d
    <3>3. Elems(pulled'[f]) = Elems(pulled[f]) \/ Elems(pulled'[g]) = Elems(pulled[g])
      BY <2>d, <2>e
    <3>4. Elems(pulled'[f]) \subseteq Elems(pulled[f]) \cup {x} /\ Elems(pulled'[g]) \subseteq Elems(pulled[g]) \cup {x}
      BY <2>d
    <3> QED
      BY <3>1, <3>2, <3>3, <3>4
  <2>4. PulledApart'
    BY <2>e DEF PulledApart
  <2>f. ASSUME NEW f \in Ends
        PROVE  dropped' \cap Elems(EvtPollingQueue'[f]) = {} /\ dropped' \cap Elems(pulled'[f]) = {}
    <3>1. /\ dropped \cap Elems(EvtPollingQueue[f]) = {} /\ dropped \cap Elems(pulled[f]) = {}
          /\ x \notin dropped
      BY <2>a, <2>b, <2>d DEF DroppedApart
    <3> QED
      BY <2>b, <2>d, <3>1
  <2>5. DroppedApart'
    BY <2>f DEF DroppedApart
  <2> QED
    BY <2>2, <2>3, <2>4, <2>5 DEF Apart
<1>10. Taken' = Taken
  <2>1. \A f \in Ends : Elems(EvtPollingQueue'[f]) \cup Elems(pulled'[f])
                         = Elems(EvtPollingQueue[f]) \cup Elems(pulled[f])
    BY <1>1, <1>3, <1>5, <1>7
  <2> QED
    BY <1>1, <2>1 DEF Taken
<1>11. \A u \in Threads : (Pending(u)' => Pending(u)) /\ (Posting(u)' => Posting(u))
  BY <1>1 DEF Pending, Posting, PostLabels
<1>12. TakenPosted' /\ PendingFree' /\ OwnEvents'
  BY <1>1, <1>10, <1>11 DEF PlacesInv, TakenPosted, PendingFree, OwnEvents
<1> QED
  BY <1>8, <1>9, <1>12 DEF PlacesInv

(* Only postEVT brings a thread among those that post. *)
LEMMA PostersKept ==
    ASSUME TypeInv, NEW t \in Threads,
           \/ subEVT(t) \/ unsubEVT(t) \/ SubStep(t) \/ PostStep(t)
           \/ pullEVT(t) \/ pullNothing(t) \/ pullTimeout(t),
           NEW u \in Threads
    PROVE  (Posting(u)' => Posting(u) /\ evt'[u] = evt[u]) /\ (Pending(u)' => Pending(u))
<1>1. pc \in [Threads -> Labels] /\ evt \in [Threads -> 0 .. MaxPosts]
  BY DEF TypeInv, ThreadTypes
<1>2. PICK label \in Labels :
          /\ pc' = [pc EXCEPT ![t] = label]
          /\ IF label \in PostLabels THEN Posting(t) /\ UNCHANGED evt
             ELSE \A v \in Threads \ {t} : evt'[v] = evt[v]
          /\ label \in PostLabels \ {"unlock"} => Pending(t)
  <2>1. CASE subEVT(t)
    BY <2>1, <1>1 DEF subEVT, Goto, Labels, PostLabels, Pulls, postVars
  <2>2. CASE unsubEVT(t)
    BY <2>2, <1>1 DEF unsubEVT, Goto, Labels, PostLabels, Pulls, postVars
  <2>3. CASE SubStep(t)
    BY <2>3, <1>1 DEF SubStep, subMalloc, subFill, unsubClear, Goto, Labels, PostLabels, postVars
  <2>4. CASE pullEVT(t)
    BY <2>4, <1>1 DEF pullEVT, Goto, Labels, PostLabels, Pulls, postVars
  <2>5. CASE pullNothing(t) \/ pullTimeout(t)
    BY <2>5, <1>1 DEF pullNothing, pullTimeout, Goto, Labels, PostLabels, Pulls, postVars
  <2>6. CASE stampEvt(t)
    BY <2>6, <1>1 DEF stampEvt, Goto, Labels, PostLabels, Pending, Posting, postVars
  <2>7. CASE lockLocal(t)
    BY <2>7, <1>1 DEF lockLocal, Goto, Labels, PostLabels, Pending, Posting, postVars
  <2>8. CASE lockPeer(t)
    BY <2>8, <1>1 DEF lockPeer, Goto, Labels, PostLabels, Pending, Posting
  <2>9. CASE loopSkips(t)
    BY <2>9, <1>1 DEF loopSkips, Goto, Labels, PostLabels, Pending, Posting
  <2>10. CASE loopCalls(t)
    BY <2>10, <1>1 DEF loopCalls, Goto, Labels, PostLabels, Pending, Posting
  <2>11. CASE callbackReturns(t)
    BY <2>11, <1>1 DEF callbackReturns, Goto, Labels, PostLabels, Pending, Posting
  <2>12. CASE callbackPosts(t)
    BY <2>12, <1>1 DEF callbackPosts, Goto, Labels, PostLabels, Pending, Posting, postVars
  <2>13. CASE loopQueues(t)
    BY <2>13, <1>1 DEF loopQueues, Goto, Labels, PostLabels, Pending, Posting
  <2>14. CASE unlockBoth(t)
    BY <2>14, <1>1 DEF unlockBoth, Goto, Labels, PostLabels, Pulls
  <2> QED
    BY <2>1, <2>2, <2>3, <2>4, <2>5, <2>6, <2>7, <2>8, <2>9, <2>10, <2>11, <2>12, <2>13, <2>14 DEF PostStep
<1>3. pc'[u] = IF u = t THEN label ELSE pc[u]
  BY <1>1, <1>2
<1> QED
  BY <1>1, <1>2, <1>3 DEF Posting, Pending, PostLabels

LEMMA OtherPlaces ==
    ASSUME TypeInv, PlacesInv, NEW t \in Threads,
           \/ subEVT(t) \/ unsubEVT(t) \/ SubStep(t) \/ pullNothing(t) \/ pullTimeout(t)
           \/ PostStep(t) /\ ~loopQueues(t)
    PROVE  PlacesInv'
<1>1. posts \in Nat
  BY Sizes DEF TypeInv, EventTypes
<1>2. UNCHANGED <<queueVars, posts>>
  BY DEF subEVT, unsubEVT, SubStep, subMalloc, subFill, unsubClear, pullNothing, pullTimeout, PostStep, stampEvt,
     lockLocal, lockPeer, loopSkips, loopCalls, callbackReturns, callbackPosts, unlockBoth, eventVars
<1>3. \A u \in Threads : (Posting(u)' => Posting(u) /\ evt'[u] = evt[u]) /\ (Pending(u)' => Pending(u))
  BY PostersKept
<1> QED
  BY <1>1, <1>2, <1>3, PlacesKept

LEMMA NextPlaces == TypeInv /\ PlacesInv /\ [Next]_vars => PlacesInv'
<1> SUFFICES ASSUME TypeInv, PlacesInv, [Next]_vars PROVE PlacesInv'
  OBVIOUS
<1>1. CASE Next
  BY <1>1, PostPlaces, QueuePlaces, PullPlaces, OtherPlaces DEF Next, PostStep
<1>2. CASE UNCHANGED vars
  <2>1. UNCHANGED <<queueVars, posts, pc, evt>> /\ posts \in Nat
    BY <1>2, Sizes DEF vars, postVars, eventVars, TypeInv, EventTypes
  <2> QED
    BY <2>1, PlacesKept DEF Posting, Pending
<1> QED
  BY <1>1, <1>2

(* What an end got: what it pulled and then what waits for it. *)
Kept(e) == pulled[e] \o EvtPollingQueue[e]

LEMMA PlacesGivePulledOnce == TypeInv /\ PlacesInv => PulledOnce
<1> SUFFICES ASSUME TypeInv, PlacesInv PROVE PulledOnce
  OBVIOUS
<1>1. ASSUME NEW e \in Ends
      PROVE  /\ DOMAIN Kept(e) = 1 .. Len(pulled[e]) + Len(EvtPollingQueue[e])
             /\ Len(pulled[e]) \in Nat /\ Len(EvtPollingQueue[e]) \in Nat
             /\ \A i \in DOMAIN Kept(e) : Kept(e)[i] = IF i <= Len(pulled[e]) THEN pulled[e][i]
                                                     ELSE EvtPollingQueue[e][i - Len(pulled[e])]
  <2>1. pulled[e] \in Seq(Events) /\ EvtPollingQueue[e] \in Seq(Events)
    BY DEF TypeInv, LinkTypes
  <2>2. Kept(e) \in Seq(Events) /\ Len(Kept(e)) = Len(pulled[e]) + Len(EvtPollingQueue[e])
    BY <2>1, ConcatProperties DEF Kept
  <2>3. DOMAIN Kept(e) = 1 .. Len(Kept(e)) /\ Len(pulled[e]) \in Nat /\ Len(EvtPollingQueue[e]) \in Nat
    BY <2>1, <2>2, LenProperties
  <2> QED
    BY <2>1, <2>2, <2>3, ConcatProperties DEF Kept
<1>2. ASSUME NEW e \in Ends, NEW i \in DOMAIN Kept(e)
      PROVE  \/ /\ i \in 1 .. Len(pulled[e]) /\ Kept(e)[i] = pulled[e][i] /\ Kept(e)[i] \in Elems(pulled[e])
             \/ /\ i - Len(pulled[e]) \in 1 .. Len(EvtPollingQueue[e])
                /\ Kept(e)[i] = EvtPollingQueue[e][i - Len(pulled[e])]
                /\ Kept(e)[i] \in Elems(EvtPollingQueue[e])
  <2> DEFINE m == Len(pulled[e])
             k == Len(EvtPollingQueue[e])
  <2>1. /\ m \in Nat /\ k \in Nat /\ i \in 1 .. m + k
        /\ Kept(e)[i] = IF i <= m THEN pulled[e][i] ELSE EvtPollingQueue[e][i - m]
    BY <1>1
  <2>2. i \in 1 .. m \/ (i - m \in 1 .. k /\ ~(i <= m))
    <3> HIDE DEF m, k
    <3> QED
      BY <2>1
  <2> QED
    BY <2>1, <2>2 DEF Elems
<1>3. ASSUME NEW e \in Ends, NEW f \in Ends, NEW i \in DOMAIN Kept(e), NEW j \in DOMAIN Kept(f), Kept(e)[i] = Kept(f)[j]
      PROVE  e = f /\ i = j
  <2>1. Kept(e)[i] \in Elems(pulled[e]) \/ Kept(e)[i] \in Elems(EvtPollingQueue[e])
    BY <1>2
  <2>2. Kept(f)[j] \in Elems(pulled[f]) \/ Kept(f)[j] \in Elems(EvtPollingQueue[f])
    BY <1>2
  <2>3. e = f
    BY <1>3, <2>1, <2>2 DEF PlacesInv, Apart, QueuedNotPulled, QueuesApart, PulledApart
  <2> DEFINE m == Len(pulled[e])
             k == Len(EvtPollingQueue[e])
  <2>4. /\ i \in 1 .. m + k /\ j \in 1 .. m + k /\ m \in Nat /\ k \in Nat
        /\ Kept(e)[i] = IF i <= m THEN pulled[e][i] ELSE EvtPollingQueue[e][i - m]
        /\ Kept(e)[j] = IF j <= m THEN pulled[e][j] ELSE EvtPollingQueue[e][j - m]
    BY <1>1, <2>3
  <2>5. /\ \A a, b \in 1 .. m : pulled[e][a] = pulled[e][b] => a = b
        /\ \A a, b \in 1 .. k : EvtPollingQueue[e][a] = EvtPollingQueue[e][b] => a = b
    BY DEF PlacesInv, Once, Distinct
  <2>6. \A a \in 1 .. m, b \in 1 .. k : pulled[e][a] # EvtPollingQueue[e][b]
    BY DEF PlacesInv, Apart, QueuedNotPulled, Elems
  <2> HIDE DEF m, k
  <2>7. i = j
    BY <1>3, <2>3, <2>4, <2>5, <2>6
  <2> QED
    BY <2>3, <2>7
<1>4. ASSUME NEW e \in Ends, NEW i \in DOMAIN Kept(e) PROVE Kept(e)[i] \notin dropped
  BY <1>2, <1>4 DEF PlacesInv, Apart, DroppedApart
<1> QED
  BY <1>3, <1>4 DEF PulledOnce, Kept

(* An event is pulled once at most, by one end, and not after it was dropped: the post puts it into one queue or *)
(* drops it, under the peer's Mutex, and the pull takes it out under the same one.                               *)
THEOREM EventPulledOnce == Spec => []PulledOnce
<1>1. TypeInv /\ PlacesInv /\ [Next]_vars => (TypeInv /\ PlacesInv)'
  BY NextTypeInv, NextPlaces
<1>2. Init => TypeInv /\ PlacesInv
  BY InitTypeInv, InitPlaces
<1> QED
  BY <1>1, <1>2, PlacesGivePulledOnce, PTL DEF Spec

-----------------------------------------------------------------------------
LEMMA InitSeqInv == Init => SeqInv
  BY Sizes DEF Init, SeqInv, NotReturned, Stamps, Unposted, EarlierStamps, Posting, PostLabels, Events

LEMMA PostSeqInv ==
    ASSUME TypeInv, PlacesInv, SeqInv, NEW t \in Threads, postEVT(t)
    PROVE  SeqInv'
<1> DEFINE n == posts + 1
<1>1. /\ n \in Events /\ n \in Nat /\ posts \in Nat /\ SeqID = posts /\ SeqID' = n /\ posts' = n
      /\ evt' = [evt EXCEPT ![t] = n] /\ pc' = [pc EXCEPT ![t] = "stamp"]
      /\ earlier' = [earlier EXCEPT ![n] = Returned] /\ UNCHANGED <<seq, ret>>
  BY Sizes DEF postEVT, Goto, Incremented, TypeInv, EventTypes, Events
<1>2. /\ evt \in [Threads -> 0 .. MaxPosts] /\ pc \in [Threads -> Labels]
      /\ seq \in [Events -> 0 .. MaxPosts] /\ earlier \in [Events -> SUBSET Events]
  BY DEF TypeInv, ThreadTypes, EventTypes
<1>3. \A m \in Events : seq[m] \in Nat /\ seq[m] <= posts
  BY <1>1, <1>2, Sizes DEF SeqInv, Stamps, Events
<1> HIDE DEF n
<1>4. NotReturned'
  <2>1. ret[n] = "none"
    BY <1>1 DEF SeqInv, Unposted, n
  <2> QED
    BY <1>1, <1>2, <2>1 DEF SeqInv, NotReturned, Posting
<1>5. Stamps'
  BY <1>1, <1>3 DEF SeqInv, Stamps, Events, n
<1>6. Unposted'
  BY <1>1, <1>2 DEF SeqInv, Unposted, Events, n
<1>7. EarlierStamps'
  <2>1. ASSUME NEW k \in Events, NEW m \in earlier'[k] PROVE ret[m] # "none" /\ seq[m] < k
    <3>1. CASE k = n
      BY <1>1, <1>2, <1>3, <2>1, <3>1 DEF Returned, n
    <3>2. CASE k # n
      BY <1>1, <1>2, <2>1, <3>2 DEF SeqInv, EarlierStamps
    <3> QED
      BY <3>1, <3>2
  <2> QED
    BY <1>1, <2>1 DEF EarlierStamps
<1> QED
  BY <1>4, <1>5, <1>6, <1>7 DEF SeqInv

LEMMA StampSeqInv ==
    ASSUME TypeInv, SeqInv, NEW t \in Threads, stampEvt(t)
    PROVE  SeqInv'
<1> DEFINE n == evt[t]
<1>1. /\ n \in Events /\ n \in 1 .. posts /\ posts \in Nat /\ SeqID = posts /\ ret[n] = "none"
      /\ seq' = [seq EXCEPT ![n] = posts] /\ UNCHANGED <<SeqID, posts, ret, earlier, evt>>
  BY Sizes DEF stampEvt, TypeInv, EventTypes, HasEvent, Posting, PostLabels, SeqInv, NotReturned, postVars, Events
<1>2. seq \in [Events -> 0 .. MaxPosts]
  BY DEF TypeInv, EventTypes
<1> HIDE DEF n
<1>3. \A m \in Events : seq'[m] = IF m = n THEN posts ELSE seq[m]
  BY <1>1, <1>2
<1>4. NotReturned'
  BY <1>1, PostersKept DEF SeqInv, NotReturned, PostStep
<1>5. Stamps'
  BY <1>1, <1>3 DEF SeqInv, Stamps, Events
<1>6. Unposted'
  BY <1>1, <1>3 DEF SeqInv, Unposted, Events
<1>7. EarlierStamps'
  <2>1. ASSUME NEW k \in Events, NEW m \in earlier[k] PROVE ret[m] # "none" /\ seq'[m] < k
    <3>1. m \in Events /\ ret[m] # "none" /\ seq[m] < k
      BY DEF SeqInv, EarlierStamps, TypeInv, EventTypes
    <3> QED
      BY <1>1, <1>3, <3>1
  <2> QED
    BY <1>1, <2>1 DEF EarlierStamps
<1> QED
  BY <1>4, <1>5, <1>6, <1>7 DEF SeqInv

LEMMA ReturnSeqInv ==
    ASSUME TypeInv, PlacesInv, SeqInv, NEW t \in Threads, unlockBoth(t)
    PROVE  SeqInv'
<1> DEFINE n == evt[t]
<1>1. /\ Posting(t) /\ pc' = [pc EXCEPT ![t] = "idle"] /\ pc \in [Threads -> Labels]
      /\ n \in Events /\ n \in 1 .. posts /\ posts \in Nat
      /\ UNCHANGED <<SeqID, posts, seq, earlier>> /\ earlier \in [Events -> SUBSET Events]
  BY Sizes DEF unlockBoth, Goto, TypeInv, EventTypes, ThreadTypes, HasEvent, Posting, PostLabels, Events
<1>2. \A m \in Events : IF m = n THEN ret'[m] # "none" ELSE ret'[m] = ret[m]
  BY <1>1 DEF unlockBoth, TypeInv, EventTypes
<1> HIDE DEF n
<1>3. NotReturned'
  <2>1. ASSUME NEW u \in Threads, Posting(u)' PROVE ret'[evt'[u]] = "none"
    <3>1. u # t
      BY <1>1, <2>1 DEF Posting, PostLabels
    <3>2. Posting(u) /\ evt'[u] = evt[u]
      BY <2>1, PostersKept DEF PostStep
    <3>3. evt[u] # n /\ evt[u] \in Events /\ ret[evt[u]] = "none"
      BY <1>1, <3>1, <3>2, Sizes
      DEF PlacesInv, OwnEvents, SeqInv, NotReturned, TypeInv, HasEvent, EventTypes, Events, n
    <3> QED
      BY <1>2, <3>2, <3>3
  <2> QED
    BY <2>1 DEF NotReturned
<1>4. Stamps'
  BY <1>1 DEF SeqInv, Stamps
<1>5. Unposted'
  BY <1>1, <1>2 DEF SeqInv, Unposted
<1>6. EarlierStamps'
  <2>1. \A k \in Events : earlier[k] \subseteq Events
    BY <1>1
  <2> QED
    BY <1>1, <1>2, <2>1 DEF SeqInv, EarlierStamps
<1> QED
  BY <1>3, <1>4, <1>5, <1>6 DEF SeqInv

LEMMA NextSeqInv == TypeInv /\ PlacesInv /\ SeqInv /\ [Next]_vars => SeqInv'
<1> SUFFICES ASSUME TypeInv, PlacesInv, SeqInv, [Next]_vars PROVE SeqInv'
  OBVIOUS
<1>1. ASSUME UNCHANGED <<SeqID, posts, seq, ret, earlier>>,
             \A u \in Threads : Posting(u)' => Posting(u) /\ evt'[u] = evt[u]
      PROVE  SeqInv'
  <2>1. Stamps' /\ Unposted' /\ EarlierStamps'
    BY <1>1 DEF SeqInv, Stamps, Unposted, EarlierStamps
  <2>2. NotReturned'
    BY <1>1 DEF SeqInv, NotReturned
  <2> QED
    BY <2>1, <2>2 DEF SeqInv
<1>2. ASSUME NEW t \in Threads,
             \/ subEVT(t) \/ unsubEVT(t) \/ SubStep(t) \/ pullEVT(t) \/ pullNothing(t) \/ pullTimeout(t)
             \/ PostStep(t) /\ ~stampEvt(t) /\ ~unlockBoth(t)
      PROVE  SeqInv'
  <2>1. UNCHANGED <<SeqID, posts, seq, ret, earlier>>
    BY <1>2 DEF subEVT, unsubEVT, SubStep, subMalloc, subFill, unsubClear, pullEVT, pullNothing, pullTimeout, PostStep,
       lockLocal, lockPeer, loopSkips, loopCalls, callbackReturns, callbackPosts, loopQueues, eventVars
  <2>2. \A u \in Threads : Posting(u)' => Posting(u) /\ evt'[u] = evt[u]
    BY <1>2, PostersKept
  <2> QED
    BY <2>1, <2>2, <1>1
<1>3. CASE Next
  BY <1>2, <1>3, PostSeqInv, StampSeqInv, ReturnSeqInv DEF Next, PostStep
<1>4. CASE UNCHANGED vars
  BY <1>1, <1>4 DEF vars, eventVars, postVars, Posting
<1> QED
  BY <1>3, <1>4

LEMMA SeqInvGivesSeqFollowsReturn == TypeInv /\ SeqInv => SeqFollowsReturn
<1> SUFFICES ASSUME TypeInv, SeqInv, NEW n \in Events, seq[n] > 0, NEW m \in earlier[n] PROVE seq[m] < seq[n]
  BY DEF SeqFollowsReturn
<1>1. m \in Events /\ seq[m] \in Nat /\ seq[n] \in Nat /\ n \in Nat
  BY Sizes DEF TypeInv, EventTypes, Events
<1>2. n <= seq[n] /\ seq[m] < n
  BY <1>1 DEF SeqInv, Stamps, EarlierStamps
<1> QED
  BY <1>1, <1>2

(* IOC_postEVT increments the counter and reads it again without a lock: an event may share its number with *)
(* another, and still its number is larger than that of every event whose post had returned before.         *)
THEOREM SequenceFollowsReturn == Spec => []SeqFollowsReturn
<1>1. TypeInv /\ PlacesInv /\ SeqInv /\ [Next]_vars => (TypeInv /\ PlacesInv /\ SeqInv)'
  BY NextTypeInv, NextPlaces, NextSeqInv
<1>2. Init => TypeInv /\ PlacesInv /\ SeqInv
  BY InitTypeInv, InitPlaces, InitSeqInv
<1> QED
  BY <1>1, <1>2, SeqInvGivesSeqFollowsReturn, PTL DEF Spec

-----------------------------------------------------------------------------
LEMMA MatchingCounts ==
    ASSUME NEW ids, NEW id, NEW k \in Nat
    PROVE  /\ Cardinality(Matching(ids, id, 0)) = 0
           /\ IsFiniteSet(Matching(ids, id, k))
           /\ Cardinality(Matching(ids, id, k)) \in Nat
<1>1. Matching(ids, id, 0) = {}
  BY DEF Matching
<1>2. IsFiniteSet(Matching(ids, id, k))
  <2>1. IsFiniteSet(1 .. k)
    BY FS_Interval
  <2>2. Matching(ids, id, k) \subseteq 1 .. k
    BY DEF Matching
  <2> QED
    BY <2>1, <2>2, FS_Subset
<1> QED
  BY <1>1, <1>2, FS_EmptySet, FS_CardinalityType

LEMMA MatchingGrows ==
    ASSUME NEW ids, NEW id, NEW k \in Nat \ {0}
    PROVE  Cardinality(Matching(ids, id, k))
               = Cardinality(Matching(ids, id, k - 1)) + IF k <= Len(ids) /\ ids[k] = id THEN 1 ELSE 0
<1>1. PICK n \in Nat : n = k - 1
  BY k - 1 \in Nat
<1>2. IsFiniteSet(Matching(ids, id, n)) /\ Cardinality(Matching(ids, id, n)) \in Nat
  BY <1>1, MatchingCounts
<1>3. CASE k <= Len(ids) /\ ids[k] = id
  <2>1. Matching(ids, id, k) = Matching(ids, id, n) \cup {k} /\ k \notin Matching(ids, id, n)
    BY <1>1, <1>3 DEF Matching
  <2>2. Cardinality(Matching(ids, id, k)) = Cardinality(Matching(ids, id, n)) + 1
    BY <1>2, <2>1, FS_AddElement
  <2> QED
    BY <1>1, <1>3, <2>2
<1>4. CASE ~(k <= Len(ids) /\ ids[k] = id)
  <2>1. Matching(ids, id, k) = Matching(ids, id, n)
    BY <1>1, <1>4 DEF Matching
  <2> QED
    BY <1>1, <1>2, <1>4, <2>1
<1> QED
  BY <1>3, <1>4

LEMMA InitCountInv == Init => CountInv
  BY DEF Init, CountInv, UnspecifiedMid, Counted, InLoop, Ends

(* A step that leaves a post and what it looks at alone, or marks it as raced. *)
LEMMA CountedKept ==
    ASSUME NEW u \in Threads, Counted(u),
           pc'[u] = pc[u], index'[u] = index[u], count'[u] = count[u], evt'[u] = evt[u],
           InLoop(u) /\ ~raced'[u] =>
               /\ ~raced[u] /\ sub'[There(u)] = sub[There(u)] /\ unspecified'[There(u)] = unspecified[There(u)]
               /\ EvtID'[evt[u]] = EvtID[evt[u]]
    PROVE  Counted(u)'
  BY DEF Counted, InLoop, There, Peer

LEMMA PostStepCounted ==
    ASSUME TypeInv, CountInv, NEW t \in Threads, postEVT(t) \/ PostStep(t)
    PROVE  CountInv'
<1>1. /\ pc \in [Threads -> Labels] /\ index \in [Threads -> Nat] /\ count \in [Threads -> Nat]
      /\ evt \in [Threads -> 0 .. MaxPosts] /\ raced \in [Threads -> BOOLEAN]
  BY DEF TypeInv, ThreadTypes
<1>2. UNCHANGED <<sub, unspecified>>
  BY DEF postEVT, PostStep, stampEvt, lockLocal, lockPeer, loopSkips, loopCalls, callbackReturns, callbackPosts,
     loopQueues, unlockBoth, subVars
<1>3. \A u \in Threads \ {t} : /\ pc'[u] = pc[u] /\ index'[u] = index[u] /\ count'[u] = count[u]
                               /\ evt'[u] = evt[u] /\ raced'[u] = raced[u]
  <2>1. CASE postEVT(t) \/ stampEvt(t) \/ lockLocal(t) \/ lockPeer(t) \/ callbackPosts(t)
    BY <1>1, <2>1 DEF postEVT, stampEvt, lockLocal, lockPeer, callbackPosts, Goto, postVars
  <2>2. CASE loopSkips(t) \/ loopCalls(t) \/ callbackReturns(t) \/ loopQueues(t) \/ unlockBoth(t)
    BY <1>1, <2>2 DEF loopSkips, loopCalls, callbackReturns, loopQueues, unlockBoth, Goto
  <2> QED
    BY <2>1, <2>2 DEF PostStep
<1>4. UnspecifiedMid'
  <2>1. pc[t] \notin {"sub2", "sub3", "unsub2"}
    BY DEF postEVT, PostStep, stampEvt, lockLocal, lockPeer, loopSkips, loopCalls, callbackReturns, callbackPosts,
       loopQueues, unlockBoth
  <2> QED
    BY <1>2, <1>3, <2>1 DEF CountInv, UnspecifiedMid, MidChange, Here
<1>5. ASSUME NEW u \in Threads \ {t} PROVE Counted(u)'
  <2>1. InLoop(u) => EvtID'[evt[u]] = EvtID[evt[u]]
    <3>1. CASE postEVT(t)
      <4>1. InLoop(u) => evt[u] \in 1 .. posts /\ posts \in Nat /\ posts + 1 \in Events
        BY <3>1, Sizes DEF InLoop, TypeInv, HasEvent, Posting, PostLabels, EventTypes, Events, postEVT
      <4> QED
        BY <3>1, <4>1 DEF postEVT, TypeInv, EventTypes, Events
    <3>2. CASE PostStep(t)
      BY <3>2 DEF PostStep, stampEvt, lockLocal, lockPeer, loopSkips, loopCalls, callbackReturns, callbackPosts,
         loopQueues, unlockBoth, eventVars
    <3> QED
      BY <3>1, <3>2
  <2> QED
    BY <1>2, <1>3, <2>1, CountedKept DEF CountInv
<1>6. Counted(t)'
  <2> DEFINE ids == sub[There(t)].pEvtIDs
             id == EvtID[evt[t]]
  <2>1. CASE postEVT(t) \/ stampEvt(t) \/ lockLocal(t) \/ callbackPosts(t) \/ unlockBoth(t)
    <3>1. pc'[t] \in {"stamp", "lock", "lockPeer", "stuck", "idle"}
      BY <1>1, <2>1 DEF postEVT, stampEvt, lockLocal, callbackPosts, unlockBoth, Goto
    <3> QED
      BY <3>1 DEF Counted, InLoop
  <2>2. CASE lockPeer(t)
    <3>1. /\ pc'[t] = "loop" /\ index'[t] = 1 /\ count'[t] = 0 /\ raced'[t] = MidChange(There(t))
          /\ evt' = evt /\ EvtID' = EvtID
      BY <1>1, <2>2 DEF lockPeer, Goto, eventVars
    <3>2. ~raced'[t] => ~unspecified[There(t)]
      BY <3>1, EndsOfThreads DEF CountInv, UnspecifiedMid
    <3> QED
      BY <1>2, <3>1, <3>2, MatchingCounts DEF Counted, There
  <2>3. CASE loopSkips(t) \/ loopCalls(t) \/ callbackReturns(t) \/ loopQueues(t)
    <3>1. /\ InLoop(t) /\ index[t] \in Nat \ {0} /\ UNCHANGED <<evt, EvtID, raced>>
          /\ raced[t] \/ (~unspecified[There(t)] /\ count[t] = Cardinality(Matching(ids, id,
                              IF pc[t] = "loop" THEN index[t] - 1 ELSE index[t])))
      BY <2>3 DEF CountInv, Counted, InLoop, loopSkips, loopCalls, callbackReturns, loopQueues, eventVars
    <3>2. CASE raced[t]
      <4>1. index'[t] \in Nat \ {0} /\ raced'[t]
        <5>1. index' = [index EXCEPT ![t] = index[t] + 1] \/ index' = index
          BY <2>3 DEF loopSkips, loopCalls, callbackReturns, loopQueues, AfterCallback
        <5> QED
          BY <1>1, <3>1, <3>2, <5>1
      <4> QED
        BY <4>1 DEF Counted
    <3>3. CASE ~raced[t]
      <4> DEFINE before == Cardinality(Matching(ids, id, index[t] - 1))
                 upto == Cardinality(Matching(ids, id, index[t]))
      <4>a. upto = before + IF index[t] <= Len(ids) /\ ids[index[t]] = id THEN 1 ELSE 0
        BY <3>1, MatchingGrows
      <4>b. Len(ids) \in Nat /\ before \in Nat /\ upto \in Nat
        <5>1. index[t] - 1 \in Nat /\ index[t] \in Nat
          BY <3>1
        <5>2. ids \in Seq(EvtIDs)
          BY SubscriptionFields, EndsOfThreads DEF TypeInv, LinkTypes
        <5> QED
          BY <5>1, <5>2, MatchingCounts, LenProperties
      <4>c. ids' = ids /\ id' = id /\ unspecified'[There(t)] = unspecified[There(t)] /\ ~raced'[t]
        BY <1>2, <3>1, <3>3 DEF There
      <4>d. IF pc[t] = "loop" THEN count[t] = before ELSE count[t] = upto
        BY <3>1, <3>3
      <4>e. ~unspecified[There(t)] /\ index[t] \in Nat \ {0}
        BY <3>1, <3>3
      <4>f. ASSUME index'[t] \in Nat \ {0}, pc'[t] = "loop" => count'[t] = Cardinality(Matching(ids, id, index'[t] - 1)),
                   pc'[t] # "loop" => count'[t] = Cardinality(Matching(ids, id, index'[t]))
            PROVE  Counted(t)'
        BY <4>c, <4>e, <4>f DEF Counted, There
      <4> HIDE DEF ids, id, before, upto
      <4>1. CASE loopSkips(t)
        <5>1. /\ pc[t] = "loop" /\ pc'[t] = "loop" /\ index'[t] = index[t] + 1 /\ count'[t] = count[t]
              /\ ids[index[t]] # id
          BY <1>1, <4>1, <4>e DEF loopSkips, Matches, ids, id
        <5>2. before = upto /\ (index[t] + 1) - 1 = index[t]
          BY <4>a, <4>b, <4>e, <5>1
        <5> QED
          BY <4>d, <4>e, <4>f, <5>1, <5>2 DEF upto
      <4>2. CASE loopCalls(t) \/ loopQueues(t)
        <5>1. /\ pc[t] = "loop" /\ pc'[t] \in {"calling", "unlock"} /\ index'[t] = index[t]
              /\ count'[t] = count[t] + 1 /\ ids[index[t]] = id /\ index[t] <= Len(ids)
          <6>1. /\ pc[t] = "loop" /\ TRUE \in Matches(t) /\ ~AtEnd(t) /\ UNCHANGED index
                /\ count' = [count EXCEPT ![t] = count[t] + 1]
                /\ pc' = [pc EXCEPT ![t] = "calling"] \/ pc' = [pc EXCEPT ![t] = "unlock"]
            BY <4>2 DEF loopCalls, loopQueues, Goto
          <6>2. ids[index[t]] = id /\ index[t] <= Len(ids)
            <7>1. Matches(t) = {ids[index[t]] = id}
              BY <4>e DEF Matches, ids, id
            <7>2. ids[index[t]] = id
              BY <6>1, <7>1
            <7>3. ~(index[t] > Len(ids))
              BY <6>1 DEF AtEnd, ids
            <7> QED
              BY <4>b, <4>e, <7>2, <7>3
          <6> QED
            BY <1>1, <6>1, <6>2
        <5>2. count'[t] = upto
          BY <4>a, <4>b, <4>d, <5>1
        <5> QED
          BY <4>e, <4>f, <5>1, <5>2 DEF upto
      <4>3. CASE callbackReturns(t)
        <5>1. pc[t] = "calling" /\ pc'[t] = "loop" /\ index'[t] = index[t] + 1 /\ count'[t] = count[t]
          BY <1>1, <4>3 DEF callbackReturns, AfterCallback, Goto
        <5>2. (index[t] + 1) - 1 = index[t]
          BY <4>e
        <5> QED
          BY <4>d, <4>e, <4>f, <5>1, <5>2 DEF upto
      <4> QED
        BY <2>3, <4>1, <4>2, <4>3
    <3> QED
      BY <3>2, <3>3
  <2> QED
    BY <2>1, <2>2, <2>3 DEF PostStep
<1> QED
  BY <1>4, <1>5, <1>6 DEF CountInv

LEMMA OtherStepCounted ==
    ASSUME TypeInv, CountInv, NEW t \in Threads,
           \/ subEVT(t) \/ unsubEVT(t) \/ SubStep(t)
           \/ pullEVT(t) \/ pullNothing(t) \/ pullTimeout(t)
    PROVE  CountInv'
<1>1. pc \in [Threads -> Labels] /\ raced \in [Threads -> BOOLEAN] /\ Here(t) \in Ends
  BY EndsOfThreads DEF TypeInv, ThreadTypes
<1>2. UNCHANGED <<evt, index, count, EvtID>>
  BY DEF subEVT, unsubEVT, SubStep, subMalloc, subFill, unsubClear, pullEVT, pullNothing, pullTimeout, postVars, eventVars
<1>3. ~InLoop(t) /\ ~InLoop(t)' /\ \A u \in Threads \ {t} : pc'[u] = pc[u]
  BY <1>1 DEF subEVT, unsubEVT, SubStep, subMalloc, subFill, unsubClear, pullEVT, pullNothing, pullTimeout, Goto,
     InLoop, Looking, Pulls
<1>4. CASE subEVT(t) \/ unsubEVT(t) \/ SubStep(t)
  <2>1. /\ raced' = Races(Here(t))
        /\ \A e \in Ends \ {Here(t)} : sub'[e] = sub[e] /\ unspecified'[e] = unspecified[e]
        /\ unspecified'[Here(t)] => pc'[t] \in {"sub3", "unsub2"}
        /\ pc[t] \in {"sub2", "sub3", "unsub2"} => pc'[t] = "sub3" \/ ~unspecified'[Here(t)]
    <3>1. sub \in [Ends -> SubEvtArgs \cup {NoSub}] /\ unspecified \in [Ends -> BOOLEAN]
      BY DEF TypeInv, LinkTypes
    <3>2. CASE subEVT(t)
      BY <1>1, <3>1, <3>2 DEF subEVT, Goto
    <3>3. CASE unsubEVT(t)
      BY <1>1, <3>1, <3>3 DEF unsubEVT, Goto
    <3>4. CASE SubStep(t)
      BY <1>1, <3>1, <3>4 DEF SubStep, subMalloc, subFill, unsubClear, Goto
    <3> QED
      BY <1>4, <3>2, <3>3, <3>4
  <2>2. ASSUME NEW u \in Threads PROVE Counted(u)'
    <3>1. CASE u = t
      BY <1>3, <3>1 DEF Counted
    <3>2. CASE u # t
      <4>1. InLoop(u) /\ ~raced'[u] => ~raced[u] /\ There(u) # Here(t)
        BY <1>1, <2>1 DEF Races
      <4> QED
        BY <1>2, <1>3, <2>1, <3>2, <4>1, EndsOfThreads, CountedKept DEF CountInv
    <3> QED
      BY <3>1, <3>2
  <2>3. ASSUME NEW e \in Ends, unspecified'[e] PROVE \E u \in Threads : Here(u) = e /\ pc'[u] \in {"sub2", "sub3", "unsub2"}
    <3>1. CASE e = Here(t)
      BY <2>1, <2>3, <3>1
    <3>2. CASE e # Here(t)
      <4>1. unspecified[e]
        BY <2>1, <2>3, <3>2
      <4>2. PICK u \in Threads : Here(u) = e /\ pc[u] \in {"sub2", "sub3", "unsub2"}
        BY <4>1 DEF CountInv, UnspecifiedMid, MidChange
      <4> QED
        BY <1>3, <3>2, <4>2
    <3> QED
      BY <3>1, <3>2
  <2> QED
    BY <2>2, <2>3 DEF CountInv, UnspecifiedMid, MidChange, Here
<1>5. CASE pullEVT(t) \/ pullNothing(t) \/ pullTimeout(t)
  <2>1. UNCHANGED <<sub, unspecified, raced>> /\ pc[t] \notin {"sub2", "sub3", "unsub2"}
    BY <1>5 DEF pullEVT, pullNothing, pullTimeout, Looking, Pulls, subVars
  <2>2. ASSUME NEW u \in Threads PROVE Counted(u)'
    <3>1. CASE u = t
      BY <1>3, <3>1 DEF Counted
    <3>2. CASE u # t
      BY <1>2, <1>3, <2>1, <3>2, CountedKept DEF CountInv
    <3> QED
      BY <3>1, <3>2
  <2>3. UnspecifiedMid'
    BY <1>3, <2>1 DEF CountInv, UnspecifiedMid, MidChange, Here
  <2> QED
    BY <2>2, <2>3 DEF CountInv
<1> QED
  BY <1>4, <1>5

LEMMA NextCountInv == TypeInv /\ CountInv /\ [Next]_vars => CountInv'
<1> SUFFICES ASSUME TypeInv, CountInv, [Next]_vars PROVE CountInv'
  OBVIOUS
<1>1. CASE Next
  BY <1>1, PostStepCounted, OtherStepCounted DEF Next
<1>2. CASE UNCHANGED vars
  <2>1. UNCHANGED <<sub, unspecified, pc, evt, index, count, EvtID, raced>>
    BY <1>2 DEF vars, subVars, postVars, eventVars
  <2>2. \A u \in Threads : Counted(u)'
    BY <2>1, CountedKept DEF CountInv
  <2>3. UnspecifiedMid'
    BY <2>1 DEF CountInv, UnspecifiedMid, MidChange, Here
  <2> QED
    BY <2>2, <2>3 DEF CountInv
<1> QED
  BY <1>1, <1>2

LEMMA CountInvGivesOncePerSubscription == CountInv => OncePerSubscription
  BY DEF CountInv, Counted, OncePerSubscription, Matching

(* A post that no change of the peer's subscription overlaps calls the peer's callback once for each place of the *)
(* list that holds its EvtID, and without a callback it queues the event once: a change that began before the     *)
(* peer's Mutex was taken is one that overlaps.                                                                    *)
THEOREM CalledOncePerSubscription == Spec => []OncePerSubscription
<1>1. TypeInv /\ CountInv /\ [Next]_vars => (TypeInv /\ CountInv)'
  BY NextTypeInv, NextCountInv
<1>2. Init => TypeInv /\ CountInv
  BY InitTypeInv, InitCountInv
<1> QED
  BY <1>1, <1>2, CountInvGivesOncePerSubscription, PTL DEF Spec

=============================================================================
