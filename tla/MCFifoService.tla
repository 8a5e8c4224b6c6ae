--------------------------- MODULE MCFifoService ---------------------------
(***************************************************************************)
(* Instances of FifoService.  One pair of usages is enough: negotiation    *)
(* treats each pair alike.                                                 *)
(***************************************************************************)
EXTENDS FifoService, TLC

SenderReceiver == {"DatSender", "DatReceiver"}
DatPeer == [r \in SenderReceiver |-> IF r = "DatSender" THEN "DatReceiver" ELSE "DatSender"]
Receiving == [s \in Services |-> {"DatReceiver"}]

Call(api, s) == [api |-> api, srv |-> s, usage |-> {}, timed |-> FALSE]
Connect_(s, usage) == [Call("connect", s) EXCEPT !.usage = {usage}]
Accept_(s, timed) == [Call("accept", s) EXCEPT !.timed = timed]

CONSTANTS s1, s2
AutoAccept == [s \in Services |-> "auto"]
ManualAndBroadcast == [s \in Services |-> IF s = s1 THEN "none" ELSE "broadcast"]

(* Clients that come and go, and a service that starts and stops. *)
StartStop == {Call(api, s) : api \in {"online", "offline"}, s \in Services}
Close_ == Call("close", s1)
AutoOps == StartStop \cup {Close_} \cup {Connect_(s, u) : s \in Services, u \in SenderReceiver}
           \cup {Accept_(s, FALSE) : s \in Services}

(* A timed accept may wait as long as one without timeout. *)
ManualOps == StartStop \cup {Close_} \cup {Connect_(s, "DatSender") : s \in Services}
             \cup {Accept_(s, TRUE) : s \in Services}

(* An accepted link is closed before its service goes offline, and a client connects meanwhile. *)
Manual == [s \in Services |-> "none"]
ReusedIdOps == StartStop \cup {Close_} \cup {Connect_(s, "DatSender") : s \in Services}
               \cup {Accept_(s, FALSE) : s \in Services}

UserSymmetry == Permutations(Users)
=============================================================================
