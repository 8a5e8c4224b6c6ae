-------------------------------- MODULE FifoEvt --------------------------------
(***************************************************************************)
(* Source/IOC_Event.c and Source/_IOC_ConetEvent.c over                    *)
(* Source/_IOC_SrvProtoFifo.c: events over a connected pair of links.      *)
(* IOC_postEVT stamps the event, locks the Mutex of its own end and then   *)
(* the peer's, and under both calls the peer's callback once for each      *)
(* subscribed EvtID that matches, or puts the event into the peer's        *)
(* polling queue, from which IOC_pullEVT takes it.  IOC_subEVT and         *)
(* IOC_unsubEVT change the subscription of their end with no lock at all,  *)
(* in three and two steps that a post may read between.                    *)
(*                                                                         *)
(* A subscription is what the post tells apart: whether there is a         *)
(* callback, and the list of EvtIDs.  The links stay open.                 *)
(***************************************************************************)
EXTENDS Integers, Sequences, FiniteSets, SequencesExt

CONSTANTS Threads,     \* the application's threads
          EndOf,       \* EndOf[t]: the end whose link t uses, "x" or "y"
          May,         \* May[t]: what t calls: "post", "sub", "unsub", "pull", "pullTimed", "pullNonblock"
          EvtIDs,
          SubEvtArgs,  \* the subscriptions: [CbProcEvt_F : BOOLEAN, pEvtIDs : Seq(EvtIDs)]
          Replies,     \* whether a callback may post on the link it is called for
          QueueLen,    \* 64: how many events a polling queue holds
          MaxPosts,    \* bound: how many events are posted
          MaxSubs,     \* bound: how many subscriptions are made
          Free         \* nobody holds the mutex

ASSUME BoundsAssumption == QueueLen \in Nat \ {0} /\ {MaxPosts, MaxSubs} \subseteq Nat /\ Replies \in BOOLEAN
ASSUME ThreadsAssumption == EndOf \in [Threads -> {"x", "y"}] /\ Free \notin Threads
ASSUME SubscriptionsAssumption == SubEvtArgs \subseteq [CbProcEvt_F : BOOLEAN, pEvtIDs : Seq(EvtIDs)]

Ends == {"x", "y"}
Peer(e) == IF e = "x" THEN "y" ELSE "x"
NoSub == [CbProcEvt_F |-> FALSE, pEvtIDs |-> <<>>]
Events == 1 .. MaxPosts   \* an event is the number of its post

VARIABLES
    SeqID,               \* the static counter of IOC_postEVT
    sub,                 \* sub[e]: SubEvtArgs of the link at end e
    unspecified,         \* unspecified[e]: pEvtIDs points to memory that is not filled yet, or freed
    EvtPollingQueue,     \* EvtPollingQueue[e]: events
    Mutex,               \* Mutex[e]: its owner, or Free
    pc, args,            \* where each thread is; args[t]: what it subscribes
    evt, cb, index,      \* of each thread's post: the event, the callback it read, how far the loop is
    count,               \* ProcEvtSuberCnt
    posts, subs, seq,    \* seq[n]: MsgDesc.SeqID of event n
    EvtID, ret,          \* EvtID[n]; ret[n]: what the post of event n returned
    earlier,             \* history: earlier[n], the events whose post had returned when the post of n began
    raced,               \* history: raced[t], a subscription of the peer changed during t's post
    pulled, dropped      \* history: pulled[e], the events pulled; those that found a full queue

postVars == <<evt, cb, index, count>>
eventVars == <<posts, seq, EvtID, ret, earlier>>
subVars == <<sub, unspecified, args, subs>>
queueVars == <<EvtPollingQueue, pulled, dropped>>
vars == <<SeqID, subVars, queueVars, Mutex, pc, postVars, eventVars, raced>>

Init ==
    /\ SeqID = 0
    /\ sub = [e \in Ends |-> NoSub] /\ unspecified = [e \in Ends |-> FALSE]
    /\ EvtPollingQueue = [e \in Ends |-> <<>>] /\ Mutex = [e \in Ends |-> Free]
    /\ pc = [t \in Threads |-> "idle"] /\ args = [t \in Threads |-> NoSub]
    /\ evt = [t \in Threads |-> 0] /\ cb = [t \in Threads |-> FALSE]
    /\ index = [t \in Threads |-> 0] /\ count = [t \in Threads |-> 0]
    /\ posts = 0 /\ subs = 0
    /\ seq = [n \in Events |-> 0] /\ EvtID = [n \in Events |-> "none"] /\ ret = [n \in Events |-> "none"]
    /\ earlier = [n \in Events |-> {}] /\ raced = [t \in Threads |-> FALSE]
    /\ pulled = [e \in Ends |-> <<>>] /\ dropped = {}

Here(t) == EndOf[t]
There(t) == Peer(EndOf[t])
Goto(t, label) == pc' = [pc EXCEPT ![t] = label]
Returned == {n \in Events : ret[n] # "none"}

-----------------------------------------------------------------------------
(* IOC_postEVT: the counter is incremented, and then read again. *)
Incremented_NotStatic(n) == 1   \* mutant: the counter starts anew in each call
Incremented(n) == n + 1
postEVT(t) ==
    /\ pc[t] = "idle" /\ "post" \in May[t] /\ posts < MaxPosts
    /\ posts' = posts + 1
    /\ evt' = [evt EXCEPT ![t] = posts + 1]
    /\ \E id \in EvtIDs : EvtID' = [EvtID EXCEPT ![posts + 1] = id]
    /\ earlier' = [earlier EXCEPT ![posts + 1] = Returned]
    /\ SeqID' = Incremented(SeqID)
    /\ Goto(t, "stamp")
    /\ UNCHANGED <<subVars, queueVars, Mutex, cb, index, count, seq, ret, raced>>

stampEvt(t) ==
    /\ pc[t] = "stamp"
    /\ seq' = [seq EXCEPT ![evt[t]] = SeqID]
    /\ Goto(t, "lock")
    /\ UNCHANGED <<SeqID, subVars, queueVars, Mutex, postVars, posts, EvtID, ret, earlier, raced>>

lockLocal(t) ==
    /\ pc[t] = "lock" /\ Mutex[Here(t)] = Free
    /\ Mutex' = [Mutex EXCEPT ![Here(t)] = t]
    /\ Goto(t, "lockPeer")
    /\ UNCHANGED <<SeqID, subVars, queueVars, postVars, eventVars, raced>>

MidChange(e) == \E t \in Threads : Here(t) = e /\ pc[t] \in {"sub2", "sub3", "unsub2"}

lockPeer(t) ==
    /\ pc[t] = "lockPeer" /\ Mutex[There(t)] = Free
    /\ Mutex' = [Mutex EXCEPT ![There(t)] = t]
    /\ cb' = [cb EXCEPT ![t] = sub[There(t)].CbProcEvt_F]
    /\ index' = [index EXCEPT ![t] = 1] /\ count' = [count EXCEPT ![t] = 0]
    /\ raced' = [raced EXCEPT ![t] = MidChange(There(t))]
    /\ Goto(t, "loop")
    /\ UNCHANGED <<SeqID, subVars, queueVars, evt, eventVars>>

(* What the loop finds at its index: memory that is not specified may hold any EvtID. *)
AtEnd(t) == index[t] > Len(sub[There(t)].pEvtIDs)
Matches(t) == IF unspecified[There(t)] THEN BOOLEAN ELSE {sub[There(t)].pEvtIDs[index[t]] = EvtID[evt[t]]}

loopSkips(t) ==
    /\ pc[t] = "loop" /\ ~AtEnd(t) /\ FALSE \in Matches(t)
    /\ index' = [index EXCEPT ![t] = index[t] + 1]
    /\ UNCHANGED <<SeqID, subVars, queueVars, Mutex, pc, evt, cb, count, eventVars, raced>>

loopCalls(t) ==
    /\ pc[t] = "loop" /\ ~AtEnd(t) /\ cb[t] /\ TRUE \in Matches(t)
    /\ count' = [count EXCEPT ![t] = count[t] + 1]
    /\ Goto(t, "calling")
    /\ UNCHANGED <<SeqID, subVars, queueVars, Mutex, evt, cb, index, eventVars, raced>>

AfterCallback_Again(t) == index[t]   \* mutant: the loop looks at the same EvtID again
AfterCallback(t) == index[t] + 1
callbackReturns(t) ==
    /\ pc[t] = "calling"
    /\ index' = [index EXCEPT ![t] = AfterCallback(t)]
    /\ Goto(t, "loop")
    /\ UNCHANGED <<SeqID, subVars, queueVars, Mutex, evt, cb, count, eventVars, raced>>

(* The callback posts on its own link: the thread already holds the Mutex it waits for. *)
callbackPosts(t) ==
    /\ pc[t] = "calling" /\ Replies
    /\ Goto(t, "stuck")
    /\ UNCHANGED <<SeqID, subVars, queueVars, Mutex, postVars, eventVars, raced>>

(* The result of the enqueue is not looked at. *)
QueueHasRoom_OffByOne(e) == Len(EvtPollingQueue[e]) <= QueueLen   \* mutant: one element too many
QueueHasRoom(e) == Len(EvtPollingQueue[e]) < QueueLen
loopQueues(t) ==
    /\ pc[t] = "loop" /\ ~AtEnd(t) /\ ~cb[t] /\ TRUE \in Matches(t)
    /\ count' = [count EXCEPT ![t] = count[t] + 1]
    /\ IF QueueHasRoom(There(t))
       THEN EvtPollingQueue' = [EvtPollingQueue EXCEPT ![There(t)] = Append(@, evt[t])] /\ UNCHANGED dropped
       ELSE dropped' = dropped \cup {evt[t]} /\ UNCHANGED EvtPollingQueue
    /\ Goto(t, "unlock")
    /\ UNCHANGED <<SeqID, subVars, pulled, Mutex, evt, cb, index, eventVars, raced>>

Unlocked_PeerKept(t) == [Mutex EXCEPT ![Here(t)] = Free]   \* mutant: the peer's Mutex stays locked
Unlocked(t) == [Mutex EXCEPT ![Here(t)] = Free, ![There(t)] = Free]
unlockBoth(t) ==
    /\ pc[t] = "unlock" \/ (pc[t] = "loop" /\ AtEnd(t))
    /\ Mutex' = Unlocked(t)
    /\ ret' = [ret EXCEPT ![evt[t]] = IF count[t] > 0 THEN "SUCCESS" ELSE "NO_EVENT_CONSUMER"]
    /\ evt' = [evt EXCEPT ![t] = 0] /\ cb' = [cb EXCEPT ![t] = FALSE]
    /\ index' = [index EXCEPT ![t] = 0] /\ count' = [count EXCEPT ![t] = 0]
    /\ raced' = [raced EXCEPT ![t] = FALSE]
    /\ Goto(t, "idle")
    /\ UNCHANGED <<SeqID, subVars, queueVars, posts, seq, EvtID, earlier>>

-----------------------------------------------------------------------------
(* IOC_subEVT: the arguments with the caller's pEvtIDs, memory of its own for them, their content. *)
InLoop(t) == pc[t] \in {"loop", "calling", "unlock"}
Races(e) == [t \in Threads |-> raced[t] \/ (There(t) = e /\ InLoop(t))]

subEVT(t) ==
    /\ pc[t] = "idle" /\ "sub" \in May[t] /\ subs < MaxSubs
    /\ subs' = subs + 1
    /\ \E a \in SubEvtArgs :
          /\ args' = [args EXCEPT ![t] = a]
          /\ sub' = [sub EXCEPT ![Here(t)] = a]
    /\ unspecified' = [unspecified EXCEPT ![Here(t)] = FALSE]
    /\ raced' = Races(Here(t))
    /\ Goto(t, "sub2")
    /\ UNCHANGED <<SeqID, queueVars, Mutex, postVars, eventVars>>

subMalloc(t) ==
    /\ pc[t] = "sub2"
    /\ unspecified' = [unspecified EXCEPT ![Here(t)] = TRUE]
    /\ raced' = Races(Here(t))
    /\ Goto(t, "sub3")
    /\ UNCHANGED <<SeqID, sub, args, subs, queueVars, Mutex, postVars, eventVars>>

subFill(t) ==
    /\ pc[t] = "sub3"
    /\ unspecified' = [unspecified EXCEPT ![Here(t)] = FALSE]
    /\ args' = [args EXCEPT ![t] = NoSub]
    /\ raced' = Races(Here(t))
    /\ Goto(t, "idle")
    /\ UNCHANGED <<SeqID, sub, subs, queueVars, Mutex, postVars, eventVars>>

(* IOC_unsubEVT of what is subscribed: the memory is freed, then everything cleared. *)
unsubEVT(t) ==
    /\ pc[t] = "idle" /\ "unsub" \in May[t] /\ sub[Here(t)] # NoSub
    /\ unspecified' = [unspecified EXCEPT ![Here(t)] = TRUE]
    /\ raced' = Races(Here(t))
    /\ Goto(t, "unsub2")
    /\ UNCHANGED <<SeqID, sub, args, subs, queueVars, Mutex, postVars, eventVars>>

unsubClear(t) ==
    /\ pc[t] = "unsub2"
    /\ sub' = [sub EXCEPT ![Here(t)] = NoSub]
    /\ unspecified' = [unspecified EXCEPT ![Here(t)] = FALSE]
    /\ raced' = Races(Here(t))
    /\ Goto(t, "idle")
    /\ UNCHANGED <<SeqID, args, subs, queueVars, Mutex, postVars, eventVars>>

-----------------------------------------------------------------------------
(* IOC_pullEVT: one look under the Mutex, and one each millisecond while the call waits. *)
Pulls == {"pull", "pullTimed", "pullNonblock"}
Looking(t, how) == pc[t] = how \/ (pc[t] = "idle" /\ how \in May[t])

LeftInQueue_KeepsFirst(e) == EvtPollingQueue[e]   \* mutant: the event pulled stays first
LeftInQueue(e) == Tail(EvtPollingQueue[e])
pullEVT(t) ==
    /\ \E how \in Pulls : Looking(t, how)
    /\ Mutex[Here(t)] = Free /\ EvtPollingQueue[Here(t)] # <<>>
    /\ EvtPollingQueue' = [EvtPollingQueue EXCEPT ![Here(t)] = LeftInQueue(Here(t))]
    /\ pulled' = [pulled EXCEPT ![Here(t)] = Append(@, Head(EvtPollingQueue[Here(t)]))]
    /\ Goto(t, "idle")
    /\ UNCHANGED <<SeqID, subVars, dropped, Mutex, postVars, eventVars, raced>>

pullNothing(t) ==
    /\ Mutex[Here(t)] = Free /\ EvtPollingQueue[Here(t)] = <<>>
    /\ \E how \in Pulls \ {"pullNonblock"} : Looking(t, how) /\ Goto(t, how)
    /\ UNCHANGED <<SeqID, subVars, queueVars, Mutex, postVars, eventVars, raced>>

pullTimeout(t) ==
    /\ pc[t] = "pullTimed"
    /\ Mutex[Here(t)] = Free /\ EvtPollingQueue[Here(t)] = <<>>
    /\ Goto(t, "idle")
    /\ UNCHANGED <<SeqID, subVars, queueVars, Mutex, postVars, eventVars, raced>>

-----------------------------------------------------------------------------
PostStep(t) ==
    \/ stampEvt(t) \/ lockLocal(t) \/ lockPeer(t) \/ loopSkips(t) \/ loopCalls(t) \/ callbackReturns(t)
    \/ callbackPosts(t) \/ loopQueues(t) \/ unlockBoth(t)
SubStep(t) == subMalloc(t) \/ subFill(t) \/ unsubClear(t)
PullStep(t) == pc[t] \in Pulls /\ (pullEVT(t) \/ pullTimeout(t))

Next ==
    \E t \in Threads :
        \/ postEVT(t) \/ subEVT(t) \/ unsubEVT(t) \/ PostStep(t) \/ SubStep(t)
        \/ pullEVT(t) \/ pullNothing(t) \/ pullTimeout(t)

Spec == Init /\ [][Next]_vars

(* A mutex goes to a thread that keeps asking for it; a pull that waits keeps looking. *)
FairSpec == Spec /\ \A t \in Threads : SF_vars(PostStep(t)) /\ WF_vars(SubStep(t)) /\ SF_vars(PullStep(t))

-----------------------------------------------------------------------------
Labels == {"idle", "stamp", "lock", "lockPeer", "loop", "calling", "stuck", "unlock", "sub2", "sub3", "unsub2"} \cup Pulls

(* Every variable keeps its type: a queue never holds more than it can, whatever the posts ignore. *)
TypeOK ==
    /\ SeqID \in 0 .. MaxPosts /\ posts \in 0 .. MaxPosts /\ subs \in 0 .. MaxSubs
    /\ sub \in [Ends -> SubEvtArgs \cup {NoSub}] /\ args \in [Threads -> SubEvtArgs \cup {NoSub}]
    /\ unspecified \in [Ends -> BOOLEAN]
    /\ \A e \in Ends : /\ EvtPollingQueue[e] \in Seq(Events) /\ Len(EvtPollingQueue[e]) <= QueueLen
                       /\ pulled[e] \in Seq(Events)
    /\ Mutex \in [Ends -> Threads \cup {Free}]
    /\ pc \in [Threads -> Labels]
    /\ evt \in [Threads -> 0 .. MaxPosts] /\ cb \in [Threads -> BOOLEAN]
    /\ {index, count} \subseteq [Threads -> Nat]
    /\ seq \in [Events -> 0 .. MaxPosts] /\ EvtID \in [Events -> EvtIDs \cup {"none"}]
    /\ ret \in [Events -> {"none", "SUCCESS", "NO_EVENT_CONSUMER"}]
    /\ earlier \in [Events -> SUBSET Events] /\ raced \in [Threads -> BOOLEAN] /\ dropped \in SUBSET Events

(* Two posters may be given one SeqID, but an event posted after the post of another returned has a larger one:
   the second read of the counter never goes back. *)
SeqFollowsReturn == \A n \in Events : seq[n] > 0 => \A m \in earlier[n] : seq[m] < seq[n]

(* A post that no change of the subscription overlapped calls the callback once for each time its EvtID is in
   the list up to where the loop is; without a callback it puts the event into the queue once. *)
OncePerSubscription ==
    \A t \in Threads : InLoop(t) /\ ~raced[t] =>
        LET ids == sub[There(t)].pEvtIDs
            seen == IF pc[t] = "loop" THEN index[t] - 1 ELSE index[t]
        IN  count[t] = Cardinality({i \in 1 .. seen : i <= Len(ids) /\ ids[i] = EvtID[evt[t]]})

(* An event is pulled at most once and by one end only: what an end pulled and what its queue holds is there once,
   not at the other end, and not among the events that found a full queue. *)
PulledOnce ==
    LET all(e) == pulled[e] \o EvtPollingQueue[e]
    IN  \A e, f \in Ends : \A i \in DOMAIN all(e), j \in DOMAIN all(f) :
            (all(e)[i] = all(f)[j] => e = f /\ i = j) /\ all(e)[i] \notin dropped

(* Two posts from the two ends hold a mutex each, or a callback posts on its own link. *)
Deadlocked ==
    \/ \E t, u \in Threads : pc[t] = "lockPeer" /\ pc[u] = "lockPeer" /\ Here(t) # Here(u)
    \/ \E t \in Threads : pc[t] = "stuck"

(* Every post returns, unless the mutexes are waited for in a circle. *)
PostsReturn == \A t \in Threads : pc[t] \in {"stamp", "lock", "lockPeer", "loop", "calling", "unlock"}
                   ~> pc[t] = "idle" \/ Deadlocked
=============================================================================
