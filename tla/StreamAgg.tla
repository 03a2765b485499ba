------------------------------ MODULE StreamAgg ------------------------------
(***************************************************************************)
(* The stream aggregator (stream_agg.go): the host hands the plugin one    *)
(* callback per stream chunk, from many goroutines at once, and the        *)
(* aggregator folds the chunks of a request into a buffer that is written  *)
(* out as a response row when a terminator arrives, when the buffer has    *)
(* too many chunks, when it is evicted to make room, when it goes quiet,   *)
(* or when the aggregator is closed.                                       *)
(*                                                                         *)
(* A chunk is the number it gets when a.mu is held for it; a buffer is the *)
(* set of chunks folded into it, and the empty set when a.bufs has no      *)
(* entry (an entry always holds at least the chunk that created it).       *)
(* A buffer that left the map but did not reach finalize yet is in the     *)
(* hand of the goroutine that removed it.                                  *)
(***************************************************************************)
EXTENDS Naturals, FiniteSets, Sequences

CONSTANTS
    Requests,     \* request ids
    NoRequest,    \* the request of a goroutine that is not inside add
    Threads,      \* host goroutines inside captureStreamChunk
    Janitor,      \* the goroutine started by newStreamAggregator
    MaxTracked,   \* streamAggMaxTracked
    MaxChunks,    \* streamAggMaxChunks
    MaxCalls      \* bound of the model: calls of add

ASSUME StreamAggAssumption ==
    /\ IsFiniteSet(Requests)
    /\ NoRequest \notin Requests
    /\ IsFiniteSet(Threads)
    /\ Janitor \notin Threads
    /\ MaxTracked \in Nat \ {0}
    /\ MaxChunks \in Nat \ {0}
    /\ MaxCalls \in Nat

VARIABLES
    bufs,       \* bufs[r]: chunks of the tracked buffer of r, {} if untracked
    lastChunk,  \* lastChunk[r]: the buffer's lastChunk, 0 if untracked
    pc,         \* pc[t]: where goroutine t is in add
    call,       \* call[t]: the arguments of that call and its "now"
    hand,       \* hand[a][r]: chunks of r that a removed and has yet to emit
    jan,        \* "running", "flushing" (flushAll) or "done"
    stop,       \* a.stop is closed
    clock,      \* the next timestamp; one passes with every call of add
    horizon,    \* timestamps below it are older than streamAggIdleTTL
    rows,       \* rows[r]: the buffers of r given to finalize, in that order
    accepted,   \* history: how many chunks of r were folded so far
    atStop,     \* history: accepted when close was called
    crowd       \* history: the most goroutines ever in Evictors at once

vars == <<bufs, lastChunk, pc, call, hand, jan, stop, clock, horizon, rows,
          accepted, atStop, crowd>>

Actors == Threads \cup {Janitor}

\* What call[t] holds while t is not inside add.
NoCall == [req |-> NoRequest, end |-> FALSE, now |-> 0]

EmptyHand == [r \in Requests |-> {}]

\* The keys of a.bufs.
Tracked == {r \in Requests : bufs[r] # {}}

\* Goroutines that evicted a buffer and have not inserted their own yet.
Evictors == {t \in Threads : pc[t] \in {"victim", "relock"}}

-----------------------------------------------------------------------------

Init ==
    /\ bufs = [r \in Requests |-> {}]
    /\ lastChunk = [r \in Requests |-> 0]
    /\ pc = [t \in Threads |-> "idle"]
    /\ call = [t \in Threads |-> NoCall]
    /\ hand = [a \in Actors |-> EmptyHand]
    /\ jan = "running"
    /\ stop = FALSE
    /\ clock = 0
    /\ horizon = 0
    /\ rows = [r \in Requests |-> <<>>]
    /\ accepted = [r \in Requests |-> 0]
    /\ atStop = [r \in Requests |-> 0]
    /\ crowd = 0

\* emit: a buffer in the hand of a is given to finalize, outside the lock.
Emit(a, r) ==
    /\ hand[a][r] # {}
    /\ rows' = [rows EXCEPT ![r] = Append(@, hand[a][r])]
    /\ hand' = [hand EXCEPT ![a][r] = {}]

\* add is called with a non-empty chunk; "now" is read before a.mu is taken.
\* end: isStreamTerminator holds of the chunk.
AddCall(t, r, end) ==
    /\ pc[t] = "idle"
    /\ clock < MaxCalls
    /\ clock' = clock + 1
    /\ call' = [call EXCEPT ![t] = [req |-> r, end |-> end, now |-> clock]]
    /\ pc' = [pc EXCEPT ![t] = "lock"]
    /\ UNCHANGED <<bufs, lastChunk, hand, jan, stop, horizon, rows, accepted,
                   atStop, crowd>>

\* evictOldestLocked: the tracked buffers no other one was last touched before.
\* Which of them it takes depends on the order of the map.
LeastRecent ==
    {v \in Tracked : \A w \in Tracked : lastChunk[v] <= lastChunk[w]}

\* A new request finds the map full: the least recently active buffer leaves
\* it, and the lock is dropped so that the victim can be emitted.
Evict(t) ==
    /\ pc[t] = "lock"
    /\ bufs[call[t].req] = {}
    /\ Cardinality(Tracked) >= MaxTracked
    /\ \E v \in LeastRecent :
          /\ hand' = [hand EXCEPT ![t][v] = bufs[v]]
          /\ bufs' = [bufs EXCEPT ![v] = {}]
          /\ lastChunk' = [lastChunk EXCEPT ![v] = 0]
    /\ pc' = [pc EXCEPT ![t] = "victim"]
    /\ crowd' = IF Cardinality(Evictors) < crowd THEN crowd
                                               ELSE Cardinality(Evictors) + 1
    /\ UNCHANGED <<call, jan, stop, clock, horizon, rows, accepted, atStop>>

\* MUTANT of MayFold: the room check is dropped.
MayFoldUnchecked(t) == pc[t] \in {"lock", "relock"}

\* add goes on under the lock: at once when the request is tracked or there is
\* room, and whatever the map holds by now after an eviction.
MayFold(t) ==
    \/ pc[t] = "relock"
    \/ /\ pc[t] = "lock"
       /\ \/ bufs[call[t].req] # {}
          \/ Cardinality(Tracked) < MaxTracked

\* MUTANT of Folded: add keeps the "not tracked" it saw before the eviction.
FoldedWithoutRelookup(t) ==
    LET r == call[t].req IN
    (IF pc[t] = "relock" THEN {} ELSE bufs[r]) \cup {accepted[r] + 1}

\* The buffer of this request once the chunk of t is in it: the one that is
\* tracked by now, or a new one.
Folded(t) ==
    LET r == call[t].req IN bufs[r] \cup {accepted[r] + 1}

\* MUTANT of Completes: the cap on the chunks is off by one.
CompletesPastCap(t) == call[t].end \/ Cardinality(Folded(t)) > MaxChunks

\* Whether the chunk of t completes its buffer.
Completes(t) == call[t].end \/ Cardinality(Folded(t)) >= MaxChunks

\* The chunk is folded and the stream goes on.
Fold(t) ==
    LET r == call[t].req IN
    /\ MayFold(t)
    /\ ~Completes(t)
    /\ bufs' = [bufs EXCEPT ![r] = Folded(t)]
    /\ lastChunk' = [lastChunk EXCEPT ![r] = call[t].now]
    /\ accepted' = [accepted EXCEPT ![r] = @ + 1]
    /\ pc' = [pc EXCEPT ![t] = "idle"]
    /\ call' = [call EXCEPT ![t] = NoCall]
    /\ UNCHANGED <<hand, jan, stop, clock, horizon, rows, atStop, crowd>>

\* The chunk is folded and ends the stream: its buffer leaves the map.
FoldLast(t) ==
    LET r == call[t].req IN
    /\ MayFold(t)
    /\ Completes(t)
    /\ bufs' = [bufs EXCEPT ![r] = {}]
    /\ lastChunk' = [lastChunk EXCEPT ![r] = 0]
    /\ hand' = [hand EXCEPT ![t][r] = Folded(t)]
    /\ accepted' = [accepted EXCEPT ![r] = @ + 1]
    /\ pc' = [pc EXCEPT ![t] = "out"]
    /\ UNCHANGED <<call, jan, stop, clock, horizon, rows, atStop, crowd>>

\* emit(victim); a.mu is taken again afterwards.
EmitVictim(t) ==
    /\ pc[t] = "victim"
    /\ \E r \in Requests : Emit(t, r)
    /\ pc' = [pc EXCEPT ![t] = "relock"]
    /\ UNCHANGED <<bufs, lastChunk, call, jan, stop, clock, horizon, accepted,
                   atStop, crowd>>

\* emit(out), and add returns.
EmitOut(t) ==
    /\ pc[t] = "out"
    /\ \E r \in Requests : Emit(t, r)
    /\ pc' = [pc EXCEPT ![t] = "idle"]
    /\ call' = [call EXCEPT ![t] = NoCall]
    /\ UNCHANGED <<bufs, lastChunk, jan, stop, clock, horizon, accepted,
                   atStop, crowd>>

-----------------------------------------------------------------------------

\* Time passes and more timestamps count as idle.
Age ==
    /\ horizon < clock
    /\ horizon' = horizon + 1
    /\ UNCHANGED <<bufs, lastChunk, pc, call, hand, jan, stop, clock, rows,
                   accepted, atStop, crowd>>

\* MUTANT of Collect: the buffers are copied and not deleted from the map.
CollectWithoutDelete(S) ==
    /\ hand' = [hand EXCEPT ![Janitor] =
                   [r \in Requests |-> IF r \in S THEN bufs[r] ELSE {}]]
    /\ UNCHANGED <<bufs, lastChunk>>

\* The janitor takes the buffers of S out of the map, all under one lock.
Collect(S) ==
    /\ hand' = [hand EXCEPT ![Janitor] =
                   [r \in Requests |-> IF r \in S THEN bufs[r] ELSE {}]]
    /\ bufs' = [r \in Requests |-> IF r \in S THEN {} ELSE bufs[r]]
    /\ lastChunk' = [r \in Requests |-> IF r \in S THEN 0 ELSE lastChunk[r]]

\* MUTANT of Idle: the comparison with the cutoff is the wrong way round.
IdleReversed(r) == lastChunk[r] > horizon

\* The buffer of r was not touched for streamAggIdleTTL.
Idle(r) == lastChunk[r] < horizon

\* The tick: sweep removes the buffers that went quiet.  A tick may still win
\* the select after a.stop was closed.
Sweep ==
    LET ready == {r \in Tracked : Idle(r)} IN
    /\ jan = "running"
    /\ hand[Janitor] = EmptyHand
    /\ ready # {}
    /\ Collect(ready)
    /\ UNCHANGED <<pc, call, jan, stop, clock, horizon, rows, accepted, atStop,
                   crowd>>

\* MUTANT of FlushAll: the last pass of the janitor is one more sweep.
FlushIdleOnly ==
    /\ jan = "running"
    /\ stop
    /\ hand[Janitor] = EmptyHand
    /\ Collect({r \in Tracked : Idle(r)})
    /\ jan' = "flushing"
    /\ UNCHANGED <<pc, call, stop, clock, horizon, rows, accepted, atStop,
                   crowd>>

\* The janitor sees a.stop closed: flushAll removes every buffer.
FlushAll ==
    /\ jan = "running"
    /\ stop
    /\ hand[Janitor] = EmptyHand
    /\ Collect(Tracked)
    /\ jan' = "flushing"
    /\ UNCHANGED <<pc, call, stop, clock, horizon, rows, accepted, atStop,
                   crowd>>

\* One iteration of the emit loop of sweep or flushAll; a map has no order.
JanitorEmit(r) ==
    /\ Emit(Janitor, r)
    /\ UNCHANGED <<bufs, lastChunk, pc, call, jan, stop, clock, horizon,
                   accepted, atStop, crowd>>

\* The janitor returns after flushAll; wg.Wait in close returns with it.
JanitorReturn ==
    /\ jan = "flushing"
    /\ hand[Janitor] = EmptyHand
    /\ jan' = "done"
    /\ UNCHANGED <<bufs, lastChunk, pc, call, hand, stop, clock, horizon, rows,
                   accepted, atStop, crowd>>

\* close: the stop channel is closed once; nothing keeps add from being called.
Close ==
    /\ ~stop
    /\ stop' = TRUE
    /\ atStop' = accepted
    /\ UNCHANGED <<bufs, lastChunk, pc, call, hand, jan, clock, horizon, rows,
                   accepted, crowd>>

-----------------------------------------------------------------------------

ThreadStep(t) == Evict(t) \/ Fold(t) \/ FoldLast(t) \/ EmitVictim(t) \/ EmitOut(t)

JanitorStep ==
    Sweep \/ FlushAll \/ JanitorReturn \/ \E r \in Requests : JanitorEmit(r)

Next ==
    \/ \E t \in Threads, r \in Requests, end \in BOOLEAN : AddCall(t, r, end)
    \/ \E t \in Threads : ThreadStep(t)
    \/ JanitorStep
    \/ Age
    \/ Close

\* Goroutines run, the ticker ticks and time passes.  Nothing obliges the host
\* to call add or the plugin to close the aggregator.
Fairness == /\ \A t \in Threads : WF_vars(ThreadStep(t))
            /\ WF_vars(JanitorStep)
            /\ WF_vars(Age)

Spec == Init /\ [][Next]_vars
FairSpec == Spec /\ Fairness

-----------------------------------------------------------------------------
(***************************************************************************)
(* Properties                                                              *)
(***************************************************************************)

\* The values of the variables.  No tracked buffer has streamAggMaxChunks
\* chunks, because the chunk that would make them takes the buffer out.
TypeOK ==
    /\ bufs \in [Requests -> SUBSET Nat]
    /\ \A r \in Requests : IsFiniteSet(bufs[r]) /\ Cardinality(bufs[r]) < MaxChunks
    /\ lastChunk \in [Requests -> Nat]
    /\ pc \in [Threads -> {"idle", "lock", "victim", "relock", "out"}]
    /\ call \in [Threads -> [req : Requests \cup {NoRequest}, end : BOOLEAN,
                             now : Nat]]
    /\ \A t \in Threads : pc[t] # "idle" => call[t].req \in Requests
    /\ hand \in [Actors -> [Requests -> SUBSET Nat]]
    /\ jan \in {"running", "flushing", "done"}
    /\ stop \in BOOLEAN
    /\ clock \in Nat
    /\ horizon \in Nat
    /\ rows \in [Requests -> Seq(SUBSET Nat)]
    /\ accepted \in [Requests -> Nat]
    /\ atStop \in [Requests -> Nat]
    /\ crowd \in Nat

\* The chunks of r that were given to finalize.
Written(r) == UNION {rows[r][i] : i \in DOMAIN rows[r]}

\* Every chunk that add took in is in the tracked buffer of its request, in the
\* hand of a goroutine that is about to emit it, or in a row.
Covered ==
    \A r \in Requests : \A n \in 1 .. accepted[r] :
        \/ n \in bufs[r]
        \/ \E a \in Actors : n \in hand[a][r]
        \/ n \in Written(r)

\* ... and in one of these places only.
Disjoint ==
    \A r \in Requests :
        /\ bufs[r] \cap Written(r) = {}
        /\ \A a \in Actors : /\ hand[a][r] \cap bufs[r] = {}
                             /\ hand[a][r] \cap Written(r) = {}
        /\ \A a, b \in Actors : a # b => hand[a][r] \cap hand[b][r] = {}
        /\ \A i, j \in DOMAIN rows[r] : i # j => rows[r][i] \cap rows[r][j] = {}

\* No chunk is lost and none is written twice, although add gives up a.mu
\* between the eviction and the insertion, and although every emit happens
\* outside the lock while other goroutines fold, evict, sweep and close.
ExactlyOnce == Covered /\ Disjoint

\* The map outgrows streamAggMaxTracked, because another goroutine may take the
\* room that add made before it holds a.mu again, and it stays too large when
\* they have all left that window: an eviction makes room for one buffer only.
\* But the excess does not add up, however long this goes on: the buffers and
\* the goroutines in the window together exceed the limit by no more than the
\* largest number of goroutines that were ever in the window at once, and by
\* less than there are goroutines.
TrackedBound ==
    LET used == Cardinality(Tracked) + Cardinality(Evictors)
    IN used <= MaxTracked + crowd /\ used < MaxTracked + Cardinality(Threads)

\* Once close has returned, what is still in the map arrived after close was
\* called: flushAll leaves no older chunk behind.
CloseDrains ==
    jan = "done" =>
        /\ hand[Janitor] = EmptyHand
        /\ \A r \in Requests : \A n \in bufs[r] : n > atStop[r]

\* The aggregator implements StreamLedger: every row is a contiguous run of
\* accepted chunks of one request, and holds no chunk of an earlier row.
Ledger == INSTANCE StreamLedger WITH
              Requests <- Requests, accepted <- accepted, rows <- rows
LedgerSpec == Ledger!Spec

\* Nothing that add took in is still waiting to be written, except what came
\* after close into the map of an aggregator whose janitor is gone.
Settled ==
    \A r \in Requests : \A n \in 1 .. accepted[r] :
        n \in Written(r) \/ (jan = "done" /\ n > atStop[r])

\* When the host falls silent (MaxCalls makes it) every chunk is written in the
\* end, whether its stream ended, went quiet or was evicted, and whether or not
\* the aggregator is closed meanwhile.
EventuallyWritten == []<>Settled

\* The chunks of a request are folded into one row.
OneRowPerStream == \A r \in Requests : Len(rows[r]) <= 1
=============================================================================
