---------------------------- MODULE MCReqLogStore ----------------------------
(***************************************************************************)
(* ReqLogStore for TLC.  Two host goroutines and the worker are three      *)
(* writers that can hold a batch at the same time; batches of two samples  *)
(* are flushed full by a caller as well as partly filled by a tick; three  *)
(* samples let a second batch overtake the first.  ReqLogStore.cfg has one *)
(* request half, so that every sample competes for the same row; the       *)
(* liveness properties rule symmetry out.                                  *)
(***************************************************************************)
EXTENDS ReqLogStore
=============================================================================
