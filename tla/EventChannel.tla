---------------------------- MODULE EventChannel ----------------------------
(***************************************************************************)
(* What posting events promises: an event that was accepted is handled     *)
(* once, after every event accepted before it and never together with      *)
(* another one.  A synchronous post is accepted when nothing else is left  *)
(* to handle and succeeds once its own event is handled; a post that fails *)
(* never gets its event in.                                                *)
(***************************************************************************)
EXTENDS Naturals, Sequences

CONSTANTS Posters,   \* the threads that post, those that run a callback included
          Events     \* the events they can post

VARIABLES queue,     \* the accepted events, in the order in which they will be handled
          handled,   \* the event whose consumers are being called: a set of at most one
          posting    \* posting[t]: the post that t is in

chvars == <<queue, handled, posting>>

NoPost == [at |-> "none"]
Posting(at, sync, evt) == [at |-> at, sync |-> sync, evt |-> evt]
InChannel(e) == e \in handled \/ \E i \in DOMAIN queue : queue[i] = e

Init ==
    /\ queue = <<>> /\ handled = {}
    /\ posting = [t \in Posters |-> NoPost]

Move(t, p) == posting' = [posting EXCEPT ![t] = p]

Begin(t) ==
    /\ posting[t].at = "none"
    /\ \E sync \in BOOLEAN, e \in Events :
        /\ ~InChannel(e) /\ \A u \in Posters : posting[u].at # "none" => posting[u].evt # e
        /\ Move(t, Posting("begun", sync, e))
    /\ UNCHANGED <<queue, handled>>

Accept(t) ==
    /\ posting[t].at = "begun"
    /\ posting[t].sync => queue = <<>> /\ handled = {}
    /\ queue' = Append(queue, posting[t].evt)
    /\ Move(t, [posting[t] EXCEPT !.at = "accepted"])
    /\ UNCHANGED handled

Refuse(t) ==
    /\ posting[t].at = "begun"
    /\ Move(t, [posting[t] EXCEPT !.at = "refused"])
    /\ UNCHANGED <<queue, handled>>

Return(t) ==
    /\ \/ posting[t].at = "refused"
       \/ posting[t].at = "accepted" /\ (posting[t].sync => ~InChannel(posting[t].evt))
    /\ Move(t, NoPost)
    /\ UNCHANGED <<queue, handled>>

Deliver ==
    /\ handled = {} /\ queue # <<>>
    /\ handled' = {Head(queue)} /\ queue' = Tail(queue)
    /\ UNCHANGED posting

Processed ==
    /\ handled # {} /\ handled' = {}
    /\ UNCHANGED <<queue, posting>>

Next == Deliver \/ Processed \/ \E t \in Posters : Begin(t) \/ Accept(t) \/ Refuse(t) \/ Return(t)

Spec == Init /\ [][Next]_chvars
=============================================================================
