------------------------------- MODULE MCFifoDat -------------------------------
(* FifoDat on two senders and one receiver, with buffers of a few bytes. *)
EXTENDS FifoDat, TLC

CONSTANTS s1, s2
MCSenders == {s1, s2}
MCCalls == [callback |-> s1 :> {"blocking", "flush"} @@ s2 :> {"nonblock", "zero"},
            polling |-> s1 :> {"blocking", "nonblock", "zero"} @@ s2 :> {}]
MCLimits == [callback |-> {}, polling |-> {"infinite", "timed", "zero"}]
=============================================================================
