------------------------------ MODULE MCFifoCmd ------------------------------
(* Two callers with three calls and two executors: calls overlap, two       *)
(* callers sleep for one signal, executors answer out of order, and a ring  *)
(* of one is full.                                                          *)
EXTENDS FifoCmd
=============================================================================
