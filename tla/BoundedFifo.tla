----------------------------- MODULE BoundedFifo -----------------------------
(***************************************************************************)
(* What an event descriptor queue promises its callers: a bounded FIFO     *)
(* whose operations take effect one at a time, at one moment between the   *)
(* call and its return.  A caller sees its request consumed (call[t]       *)
(* becomes NoCall) and the outcome in ret[t] in the step that changes      *)
(* fifo.                                                                   *)
(***************************************************************************)
EXTENDS Naturals, Sequences

CONSTANTS Threads,   \* the callers
          EvtDescs,  \* the event descriptors they queue
          Capacity,  \* how many descriptors the queue holds
          MaxCalls   \* bound: how many calls are made

VARIABLES fifo,  \* the queued descriptors, oldest first
          call,  \* call[t]: the request of t that has not taken effect yet
          ret,   \* ret[t]: the outcome of the last request of t
          calls  \* how many requests were made

avars == <<fifo, call, ret, calls>>

NoCall == [op |-> "none"]
Requests == [op : {"enqueue"}, desc : EvtDescs] \cup [op : {"dequeue", "isEmpty"}]
NoOutcome == [code |-> "none"]
Code(c) == [code |-> c]

Init ==
    /\ fifo = <<>>
    /\ call = [t \in Threads |-> NoCall]
    /\ ret = [t \in Threads |-> NoOutcome]
    /\ calls = 0

Request(t) ==
    /\ call[t] = NoCall
    /\ calls < MaxCalls
    /\ calls' = calls + 1
    /\ \E r \in Requests : call' = [call EXCEPT ![t] = r]
    /\ ret' = [ret EXCEPT ![t] = NoOutcome]
    /\ UNCHANGED fifo

Answer(t, outcome) ==
    /\ call' = [call EXCEPT ![t] = NoCall]
    /\ ret' = [ret EXCEPT ![t] = outcome]
    /\ UNCHANGED calls

Enqueue(t) ==
    /\ call[t] # NoCall /\ call[t].op = "enqueue"
    /\ IF Len(fifo) = Capacity
       THEN Answer(t, Code("TOO_MANY_QUEUING_EVTDESC")) /\ UNCHANGED fifo
       ELSE Answer(t, Code("SUCCESS")) /\ fifo' = Append(fifo, call[t].desc)

Dequeue(t) ==
    /\ call[t] # NoCall /\ call[t].op = "dequeue"
    /\ IF fifo = <<>>
       THEN Answer(t, Code("EVTDESC_QUEUE_EMPTY")) /\ UNCHANGED fifo
       ELSE /\ Answer(t, [code |-> "SUCCESS", desc |-> Head(fifo)])
            /\ fifo' = Tail(fifo)

IsEmpty(t) ==
    /\ call[t] # NoCall /\ call[t].op = "isEmpty"
    /\ Answer(t, Code(IF fifo = <<>> THEN "YES" ELSE "NO"))
    /\ UNCHANGED fifo

Next == \E t \in Threads : Request(t) \/ Enqueue(t) \/ Dequeue(t) \/ IsEmpty(t)

Spec == Init /\ [][Next]_avars
=============================================================================
