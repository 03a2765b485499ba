--------------------------- MODULE MCPayloadCapture ---------------------------
(***************************************************************************)
(* PayloadCapture for TLC.  A ring of two and four registrations let an id *)
(* be registered again before and after its first registration leaves the  *)
(* ring; two responses let the later one be saved first.  Ids are          *)
(* interchangeable.                                                        *)
(***************************************************************************)
EXTENDS PayloadCapture, TLC

Symmetry == Permutations(Ids)
=============================================================================
