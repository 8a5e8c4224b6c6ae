--------------------------- MODULE MCEvtDescQueue ---------------------------
(* A ring of two slots, two threads and six calls: the counters pass the   *)
(* end of the ring, the ring is full and empty with calls in flight.       *)
EXTENDS EvtDescQueue
=============================================================================
