---------------------------- MODULE MCStreamAgg ----------------------------
(***************************************************************************)
(* StreamAgg for TLC.  Two host goroutines and a map of one buffer are the *)
(* smallest instance in which an adder can slip into the window that       *)
(* another one opened by evicting; buffers of two chunks let one be        *)
(* completed by the cap as well as by a terminator.  Request ids and       *)
(* goroutines are interchangeable, which the runs without a liveness       *)
(* property exploit.                                                       *)
(***************************************************************************)
EXTENDS StreamAgg, TLC

Symmetry == Permutations(Requests) \cup Permutations(Threads)
=============================================================================
