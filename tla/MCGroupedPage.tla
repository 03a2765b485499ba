---------------------------- MODULE MCGroupedPage ----------------------------
(***************************************************************************)
(* Two calls for TLC: one that was routed, whose own row may be rewritten  *)
(* by the capture after the routing and which tried a second target, and a *)
(* direct one.  LogCaptures adds a request without a trace.                *)
(***************************************************************************)
EXTENDS GroupedPage

Capture(rid, kind, trace, model, requested) ==
    [rid |-> rid, kind |-> kind, trace |-> trace, model |-> model, requested |-> requested]

TracedCaptures ==
    {Capture("r1", "request", "t1", "fast", "fast"),
     Capture("r1", "request", "t1", "glm", "fast"),
     Capture("r2", "request", "t1", "kimi", "opr/kimi"),
     Capture("r1", "response", NoTrace, NoModel, NoModel),
     Capture("r3", "request", "t2", "glm", "glm"),
     Capture("r4", "request", "t3", "kimi", NoModel)}
LogCaptures ==
    TracedCaptures \cup {Capture("r5", "request", NoTrace, "glm", "glm")}

All == [kind |-> Unset, model |-> Unset, combo |-> Unset, name |-> Unset]
MCFilters ==
    {All, [All EXCEPT !.combo = "direct"], [All EXCEPT !.combo = "combo"],
     [All EXCEPT !.name = {"fast"}], [All EXCEPT !.model = {"glm"}, !.kind = "request"]}
=============================================================================
