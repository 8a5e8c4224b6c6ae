------------------------------- MODULE MCFifoEvt -------------------------------
(* FifoEvt on a poster at each end, both of which also pull, and a thread that changes a subscription. *)
EXTENDS FifoEvt, TLC

MCEndOf == [p |-> "x", q |-> "y", s |-> "y"]
MCMay == [p |-> {"post", "pull"}, q |-> {"post", "pullTimed"}, s |-> {"sub", "unsub", "pullNonblock"}]
MCSubEvtArgs == {[CbProcEvt_F |-> TRUE, pEvtIDs |-> <<"e1", "e1">>], [CbProcEvt_F |-> FALSE, pEvtIDs |-> <<"e1">>]}
=============================================================================
