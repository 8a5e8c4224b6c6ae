------------------------------ MODULE MCTcpLink ------------------------------
(* A client with two threads, and a server with one. *)
EXTENDS TcpLink

MCEndOf == ("c1" :> "client") @@ ("c2" :> "client") @@ ("s1" :> "server")
MCMay == ("c1" :> {"execCmd", "subEvt", "unsubEvt"}) @@ ("c2" :> {"sendData"})
           @@ ("s1" :> {"waitCmd", "recvData", "postEvt"})
MCLimits == ("c1" :> {"timed", "infinite"}) @@ ("c2" :> {}) @@ ("s1" :> {"nonblock", "timed"})
MCSetups ==
    {[CmdCallback |-> [e \in Ends |-> e = "client" \/ mode = "callback"],
      DatMode |-> [e \in Ends |-> IF e = "client" THEN "none" ELSE mode]] : mode \in {"callback", "polling"}}
=============================================================================
