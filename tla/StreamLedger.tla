---------------------------- MODULE StreamLedger ----------------------------
(***************************************************************************)
(* What the stream aggregator of stream_agg.go promises about the chunks   *)
(* it is given, with no buffer, lock, thread or janitor in sight.          *)
(*                                                                         *)
(* The chunks of a request are numbered in the order in which the          *)
(* aggregator accepts them.  Every response row it writes is a contiguous, *)
(* non-empty run of accepted chunks, and no chunk is in two rows.  Rows    *)
(* need not come in stream order and a stream may get several of them:     *)
(* that is all StreamAgg can be shown to implement.                        *)
(***************************************************************************)
EXTENDS Naturals, Sequences

CONSTANT Requests

VARIABLES
    accepted,   \* accepted[r]: how many chunks of request r were taken in
    rows        \* rows[r]: the rows written for r, each the set of its chunks

vars == <<accepted, rows>>

\* The chunks of r that some row already holds.
Written(r) == UNION {rows[r][i] : i \in DOMAIN rows[r]}

Init == /\ accepted = [r \in Requests |-> 0]
        /\ rows = [r \in Requests |-> <<>>]

\* A chunk of r arrives and becomes the aggregator's responsibility.
Accept(r) == /\ accepted' = [accepted EXCEPT ![r] = @ + 1]
             /\ UNCHANGED rows

\* A run of accepted chunks that no row holds yet becomes a row.
WriteRow(r) ==
    /\ \E lo, hi \in 1 .. accepted[r] :
          /\ lo <= hi
          /\ (lo .. hi) \cap Written(r) = {}
          /\ rows' = [rows EXCEPT ![r] = Append(@, lo .. hi)]
    /\ UNCHANGED accepted

Next == \E r \in Requests : Accept(r) \/ WriteRow(r)

Spec == Init /\ [][Next]_vars
=============================================================================
