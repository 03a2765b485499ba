----------------------------- MODULE UsageLedger -----------------------------
(***************************************************************************)
(* What the usage store of main.go and store.go promises about the records *)
(* it acknowledged, with no handle, lock, slot or goroutine in sight.      *)
(*                                                                         *)
(* A record goes into one file, once.  It leaves its file because somebody *)
(* asked for its deletion, or because the file was swept: a sweep removes  *)
(* everything older than a retention some configuration asked for, and     *)
(* nothing younger, so the records that expire are always the oldest.      *)
(***************************************************************************)
EXTENDS Naturals, Sequences

CONSTANTS
    Paths,        \* where usage.db may be
    Retentions    \* values of retention_days; 0 disables the sweep

VARIABLES
    files,     \* files[p]: the records in usage.db at p
    stamps,    \* stamps[n]: the timestamp of record n
    clock,     \* the time
    asked      \* the retentions any configuration has asked for

vars == <<files, stamps, clock, asked>>

Init == /\ files = [p \in Paths |-> {}]
        /\ stamps = <<>>
        /\ clock = 0
        /\ asked = {}

Tick == clock' = clock + 1 /\ UNCHANGED <<files, stamps, asked>>

\* A configuration asks for a retention, whether or not it is accepted.
Ask(d) == asked' = asked \cup {d} /\ UNCHANGED <<files, stamps, clock>>

\* A call ends; its record gets the next number, and when the request had come
\* as its timestamp.
Call(ts) == stamps' = Append(stamps, ts) /\ UNCHANGED <<files, clock, asked>>

\* Record n is stored.
Store(p, n) == /\ \A q \in Paths : n \notin files[q]
               /\ files' = [files EXCEPT ![p] = @ \cup {n}]
               /\ UNCHANGED <<stamps, clock, asked>>

\* Record n is deleted on request.
Remove(p, n) == /\ files' = [files EXCEPT ![p] = @ \ {n}]
                /\ UNCHANGED <<stamps, clock, asked>>

\* The file is swept at time "now", which may be over by the time it happens.
Sweep(p, d, now) ==
    /\ d > 0
    /\ now <= clock
    /\ files' = [files EXCEPT ![p] = {n \in @ : stamps[n] + d >= now}]
    /\ UNCHANGED <<stamps, clock, asked>>

Next ==
    \/ Tick
    \/ \E d \in Retentions : Ask(d)
    \/ \E ts \in 0 .. clock : Call(ts)
    \/ \E p \in Paths, n \in DOMAIN stamps : Store(p, n) \/ Remove(p, n)
    \/ \E p \in Paths, d \in asked, now \in 0 .. clock : Sweep(p, d, now)

Spec == Init /\ [][Next]_vars
=============================================================================
