--------------------------- MODULE MCConlesEvent ---------------------------
(***************************************************************************)
(* Instances of ConlesEvent: which API calls the threads and the callbacks *)
(* make in each run.                                                       *)
(***************************************************************************)
EXTENDS ConlesEvent, TLC

Async(b) == [api |-> "post", sync |-> FALSE, block |-> b, evt |-> "e"]
Sync(b) == [api |-> "post", sync |-> TRUE, block |-> b, evt |-> "e"]
Sub(c) == [api |-> "sub", who |-> c]
Unsub(c) == [api |-> "unsub", who |-> c]
ForceProc == [api |-> "force"]
Wakeup == [api |-> "wakeup"]

WantsAll == [c \in Consumers |-> {}]
NoOps == {}

(* Every way to post, with callbacks that only compute. *)
PostingOps == {Async(b) : b \in {"NonBlock", "Timeout", "MayBlock"}}
              \cup {Sync(b) : b \in {"NonBlock", "Timeout", "MayBlock"}}
              \cup {Sub(c) : c \in Consumers} \cup {ForceProc, Wakeup}

(* Asynchronous posts that do not wait without limit, with callbacks that use the API. *)
ReentrantUserOps == {Async("NonBlock"), Async("Timeout")}
                    \cup {Sub(c) : c \in Consumers} \cup {Unsub(c) : c \in Consumers}
ReentrantCallbackOps == {Async("NonBlock"), Sync("MayBlock")}
                        \cup {Sub(c) : c \in Consumers} \cup {Unsub(c) : c \in Consumers}
=============================================================================
