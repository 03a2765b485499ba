----------------------------- MODULE ReqLogStore -----------------------------
(***************************************************************************)
(* One generation of the request log store (reqlog.go): the host           *)
(* goroutines append captured samples to a batch under s.mu, and whoever   *)
(* finds the batch full, as well as a worker on every tick, swaps the      *)
(* batch out and writes it in one transaction over the store's single      *)
(* connection, with an upsert on (request_id, kind).                       *)
(*                                                                         *)
(* A sample is the number it gets when it is appended; samples are told    *)
(* apart by that number and by the row they belong to.  A batch is the set *)
(* of its samples: it is built and written in number order.  Who is inside *)
(* a transaction has the connection: SetMaxOpenConns(1).                   *)
(***************************************************************************)
EXTENDS Naturals, FiniteSets, Sequences

CONSTANTS
    Keys,         \* the values of (request_id, kind)
    Threads,      \* goroutines that call enqueue
    Worker,       \* the goroutine of loop
    BatchSize,    \* reqLogBatchSize
    MaxSamples    \* bound of the model: samples appended

ASSUME ReqLogStoreAssumption ==
    /\ IsFiniteSet(Threads)
    /\ Worker \notin Threads
    /\ BatchSize \in Nat \ {0}
    /\ MaxSamples \in Nat

VARIABLES
    keys,        \* keys[n]: the row sample n belongs to
    batch,       \* s.batch
    pc,          \* pc[a]: where a goroutine is in enqueue, loop and flush
    hold,        \* hold[a]: the batch a swapped out and is writing
    final,       \* the worker took the stop branch of its select
    table,       \* table[k]: the sample in the row of k, 0 if there is no row
    queued,      \* s.queued
    written,     \* s.written
    dropped,     \* s.dropped
    stop,        \* s.stop is closed
    closed,      \* s.db is closed
    expired,     \* samples up to this number are older than the retention
    committed,   \* history: samples whose upsert was committed
    lost,        \* history: samples that no transaction committed
    raced,       \* history: samples whose batch was swapped out during another flush
    atStop       \* history: samples appended when close was called

vars == <<keys, batch, pc, hold, final, table, queued, written, dropped, stop,
          closed, expired, committed, lost, raced, atStop>>

dbVars == <<table, written, dropped, committed, lost>>
closeVars == <<stop, closed, atStop>>

Actors == Threads \cup {Worker}

\* Threads that know the batch is full and have not looked at it since.
Flushers == {t \in Threads : pc[t] \in {"countFull", "flush"}}

\* Threads between the append and queued.Add.
Counting == {t \in Threads : pc[t] \in {"count", "countFull"}}

Init ==
    /\ keys = <<>>
    /\ batch = {}
    /\ pc = [a \in Actors |-> IF a = Worker THEN "select" ELSE "idle"]
    /\ hold = [a \in Actors |-> {}]
    /\ final = FALSE
    /\ table = [k \in Keys |-> 0]
    /\ queued = 0
    /\ written = 0
    /\ dropped = 0
    /\ stop = FALSE
    /\ closed = FALSE
    /\ expired = 0
    /\ committed = {}
    /\ lost = {}
    /\ raced = {}
    /\ atStop = 0

-----------------------------------------------------------------------------
(***************************************************************************)
(* enqueue                                                                 *)
(***************************************************************************)

\* MUTANT of Full: the test for a full batch is off by one.
FullPastBatchSize(S) == Cardinality(S) > BatchSize

\* n >= reqLogBatchSize, for the batch as it was when s.mu was held.
Full(S) == Cardinality(S) >= BatchSize

\* Nothing keeps a goroutine that holds the store from appending after close.
EnqueueSample(t, k) ==
    /\ pc[t] = "idle"
    /\ Len(keys) < MaxSamples
    /\ keys' = Append(keys, k)
    /\ batch' = batch \cup {Len(keys) + 1}
    /\ pc' = [pc EXCEPT ![t] = IF Full(batch') THEN "countFull" ELSE "count"]
    /\ UNCHANGED <<hold, final, queued, expired, raced, dbVars, closeVars>>

\* s.queued.Add(1), outside the lock; a full batch is flushed by the caller.
Count(t) ==
    /\ t \in Counting
    /\ queued' = queued + 1
    /\ pc' = [pc EXCEPT ![t] = IF @ = "countFull" THEN "flush" ELSE "idle"]
    /\ UNCHANGED <<keys, batch, hold, final, expired, raced, dbVars, closeVars>>

-----------------------------------------------------------------------------
(***************************************************************************)
(* flush                                                                   *)
(***************************************************************************)

\* MUTANT of AfterFlush: the stop branch does not return.
AfterFlushOnAndOn(a) == IF a \in Threads THEN "idle" ELSE "prune"

\* Where a goes after flush: a thread returns to the host; the worker goes on
\* with maybePrune, or returns when this was its last flush.
AfterFlush(a) ==
    IF a \in Threads THEN "idle" ELSE IF final THEN "done" ELSE "prune"

\* History: the samples of a batch that is swapped out while another one has
\* not been settled join those that may be overtaken.
Raced(a) ==
    IF \E b \in Actors \ {a} : hold[b] # {} THEN raced \cup batch ELSE raced

\* MUTANT of Swap: the batch is written but not replaced.
SwapWithoutReset(a) ==
    /\ pc[a] = "flush"
    /\ batch # {}
    /\ hold' = [hold EXCEPT ![a] = batch]
    /\ pc' = [pc EXCEPT ![a] = "begin"]
    /\ raced' = Raced(a)
    /\ UNCHANGED <<keys, batch, final, queued, expired, dbVars, closeVars>>

\* MUTANT of Swap: flush does not return early for an empty batch.
SwapEmptyToo(a) ==
    /\ pc[a] = "flush"
    /\ hold' = [hold EXCEPT ![a] = batch]
    /\ batch' = {}
    /\ pc' = [pc EXCEPT ![a] = "begin"]
    /\ raced' = Raced(a)
    /\ UNCHANGED <<keys, final, queued, expired, dbVars, closeVars>>

\* The batch is swapped out under s.mu.
Swap(a) ==
    /\ pc[a] = "flush"
    /\ batch # {}
    /\ hold' = [hold EXCEPT ![a] = batch]
    /\ batch' = {}
    /\ pc' = [pc EXCEPT ![a] = "begin"]
    /\ raced' = Raced(a)
    /\ UNCHANGED <<keys, final, queued, expired, dbVars, closeVars>>

\* Somebody else flushed the batch in the meantime.
NothingToFlush(a) ==
    /\ pc[a] = "flush"
    /\ batch = {}
    /\ pc' = [pc EXCEPT ![a] = AfterFlush(a)]
    /\ UNCHANGED <<keys, batch, hold, final, queued, expired, raced, dbVars, closeVars>>

\* BeginTx gets the connection.
Begin(a) ==
    /\ pc[a] = "begin"
    /\ ~closed
    /\ \A b \in Actors : pc[b] # "write"
    /\ pc' = [pc EXCEPT ![a] = "write"]
    /\ UNCHANGED <<keys, batch, hold, final, queued, expired, raced, dbVars, closeVars>>

\* The batch in the hand of a is gone without a trace in the table; n of its
\* samples are counted as dropped.
GiveUp(a, n) ==
    /\ lost' = lost \cup hold[a]
    /\ dropped' = dropped + n
    /\ hold' = [hold EXCEPT ![a] = {}]
    /\ pc' = [pc EXCEPT ![a] = AfterFlush(a)]
    /\ UNCHANGED <<keys, batch, final, table, queued, written, expired, raced,
                   committed, closeVars>>

\* BeginTx fails (the five seconds are over, the database is closed or busy),
\* or PrepareContext does and the transaction is rolled back.
BeginFails(a) ==
    /\ pc[a] \in {"begin", "write"}
    /\ GiveUp(a, Cardinality(hold[a]))

\* MUTANT of CommitFails: the rows are counted before Commit has succeeded.
CommitFailsCounted(a) ==
    /\ pc[a] = "write"
    /\ \E ok \in SUBSET hold[a] : written' = written + Cardinality(ok)
    /\ lost' = lost \cup hold[a]
    /\ hold' = [hold EXCEPT ![a] = {}]
    /\ pc' = [pc EXCEPT ![a] = AfterFlush(a)]
    /\ UNCHANGED <<keys, batch, final, table, queued, dropped, expired, raced,
                   committed, closeVars>>

\* The rows are executed and Commit fails: only the samples whose own
\* statement failed are counted.
CommitFails(a) ==
    /\ pc[a] = "write"
    /\ \E ok \in SUBSET hold[a] : GiveUp(a, Cardinality(hold[a] \ ok))

\* MUTANT of Latest: the row keeps the first capture of the batch.
EarliestOf(S, k) ==
    CHOOSE n \in S : /\ keys[n] = k
                     /\ \A m \in S : keys[m] = k => n <= m

\* The sample of S that an upsert of S in number order leaves in the row of k.
Latest(S, k) ==
    CHOOSE n \in S : /\ keys[n] = k
                     /\ \A m \in S : keys[m] = k => m <= n

\* The rows are executed, some of them fail on their own, and Commit succeeds.
Commit(a) ==
    /\ pc[a] = "write"
    /\ \E ok \in SUBSET hold[a] :
          /\ table' = [k \in Keys |-> IF \E n \in ok : keys[n] = k
                                         THEN Latest(ok, k)
                                         ELSE table[k]]
          /\ written' = written + Cardinality(ok)
          /\ committed' = committed \cup ok
          /\ lost' = lost \cup (hold[a] \ ok)
    /\ hold' = [hold EXCEPT ![a] = {}]
    /\ pc' = [pc EXCEPT ![a] = AfterFlush(a)]
    /\ UNCHANGED <<keys, batch, final, queued, dropped, expired, raced, closeVars>>

-----------------------------------------------------------------------------
(***************************************************************************)
(* loop, maybePrune and close                                              *)
(***************************************************************************)

\* MUTANT of Tick: the worker leaves a batch alone until it is full.
TickWhenFull ==
    /\ pc[Worker] = "select"
    /\ Full(batch)
    /\ pc' = [pc EXCEPT ![Worker] = "flush"]
    /\ UNCHANGED <<keys, batch, hold, final, queued, expired, raced, dbVars, closeVars>>

\* The tick branch; it may win the select after s.stop was closed.
Tick ==
    /\ pc[Worker] = "select"
    /\ pc' = [pc EXCEPT ![Worker] = "flush"]
    /\ UNCHANGED <<keys, batch, hold, final, queued, expired, raced, dbVars, closeVars>>

\* MUTANT of Stopping: the stop branch returns at once.
StoppingWithoutFlush ==
    /\ pc[Worker] = "select"
    /\ stop
    /\ final' = TRUE
    /\ pc' = [pc EXCEPT ![Worker] = "done"]
    /\ UNCHANGED <<keys, batch, hold, queued, expired, raced, dbVars, closeVars>>

\* The stop branch: a last flush, then loop returns.
Stopping ==
    /\ pc[Worker] = "select"
    /\ stop
    /\ final' = TRUE
    /\ pc' = [pc EXCEPT ![Worker] = "flush"]
    /\ UNCHANGED <<keys, batch, hold, queued, expired, raced, dbVars, closeVars>>

\* maybePrune does nothing: retention_days <= 0, or it ran within the hour, or
\* its statement failed.
SkipPrune ==
    /\ pc[Worker] = "prune"
    /\ pc' = [pc EXCEPT ![Worker] = "select"]
    /\ UNCHANGED <<keys, batch, hold, final, queued, expired, raced, dbVars, closeVars>>

\* MUTANT of Outdated: the comparison with the cutoff is the wrong way round.
OutdatedReversed(n) == n > expired

\* timestamp < cutoff.
Outdated(n) == n <= expired

\* maybePrune deletes the outdated rows.
Prune ==
    /\ pc[Worker] = "prune"
    /\ \A b \in Actors : pc[b] # "write"
    /\ table' = [k \in Keys |-> IF Outdated(table[k]) THEN 0 ELSE table[k]]
    /\ pc' = [pc EXCEPT ![Worker] = "select"]
    /\ UNCHANGED <<keys, batch, hold, final, queued, written, dropped, expired, raced,
                   committed, lost, closeVars>>

\* Time passes and one more sample is older than the retention.
Expire ==
    /\ expired < Len(keys)
    /\ expired' = expired + 1
    /\ UNCHANGED <<keys, batch, pc, hold, final, queued, raced, dbVars, closeVars>>

\* close: s.stop is closed once.
Stop ==
    /\ ~stop
    /\ stop' = TRUE
    /\ atStop' = Len(keys)
    /\ UNCHANGED <<keys, batch, pc, hold, final, queued, closed, expired, raced, dbVars>>

\* close: wg.Wait returns, and s.db.Close() waits for nobody; a transaction
\* that is under way keeps its connection.
CloseDB ==
    /\ stop
    /\ ~closed
    /\ pc[Worker] = "done"
    /\ closed' = TRUE
    /\ UNCHANGED <<keys, batch, pc, hold, final, queued, stop, atStop, expired, raced,
                   dbVars>>

-----------------------------------------------------------------------------

FlushStep(a) ==
    Swap(a) \/ NothingToFlush(a) \/ Begin(a) \/ BeginFails(a) \/ CommitFails(a)
       \/ Commit(a)

ThreadStep(t) == Count(t) \/ FlushStep(t)

WorkerStep == FlushStep(Worker) \/ Tick \/ Stopping \/ SkipPrune \/ Prune

Next ==
    \/ \E t \in Threads, k \in Keys : EnqueueSample(t, k)
    \/ \E t \in Threads : ThreadStep(t)
    \/ WorkerStep
    \/ Expire
    \/ Stop
    \/ CloseDB

\* Goroutines run, the ticker ticks and a call of close goes on once wg.Wait has
\* returned.  Nothing obliges the host to call enqueue, the plugin to call
\* close, or a transaction to succeed.  Once s.stop is closed the stop branch is
\* always ready, and select chooses among ready branches at random: it cannot
\* take the tick for ever.
Fairness == /\ \A t \in Threads : WF_vars(ThreadStep(t))
            /\ WF_vars(WorkerStep)
            /\ SF_vars(Stopping)
            /\ WF_vars(CloseDB)

Spec == Init /\ [][Next]_vars
FairSpec == Spec /\ Fairness

-----------------------------------------------------------------------------
(***************************************************************************)
(* Properties                                                              *)
(***************************************************************************)

Samples == 1 .. Len(keys)

\* The values of the variables.  A batch in a hand is never empty, and only the
\* goroutine that writes it has one.
TypeOK ==
    /\ keys \in Seq(Keys)
    /\ batch \subseteq Samples
    /\ pc \in [Actors -> {"idle", "count", "countFull", "flush", "begin",
                          "write", "select", "prune", "done"}]
    /\ \A t \in Threads : pc[t] \notin {"select", "prune", "done"}
    /\ pc[Worker] \notin {"idle", "count", "countFull"}
    /\ hold \in [Actors -> SUBSET Samples]
    /\ \A a \in Actors : hold[a] # {} <=> pc[a] \in {"begin", "write"}
    /\ final \in BOOLEAN
    /\ table \in [Keys -> 0 .. Len(keys)]
    /\ queued \in Nat
    /\ written \in Nat
    /\ dropped \in Nat
    /\ stop \in BOOLEAN
    /\ closed \in BOOLEAN
    /\ expired \in 0 .. Len(keys)
    /\ committed \subseteq Samples
    /\ lost \subseteq Samples
    /\ raced \subseteq Samples
    /\ atStop \in 0 .. Len(keys)

\* Every sample is in the batch, in one hand, committed or lost, and in one of
\* these places only: goroutines that flush at the same time never write a
\* sample twice and never leave one behind.
SampleOnce ==
    /\ Samples = batch \cup committed \cup lost \cup UNION {hold[a] : a \in Actors}
    /\ committed \cap lost = {}
    /\ batch \cap (committed \cup lost) = {}
    /\ \A a \in Actors : hold[a] \cap (batch \cup committed \cup lost) = {}
    /\ \A a, b \in Actors : a # b => hold[a] \cap hold[b] = {}

\* The counters of reqlog/stats: written is exactly what was committed,
\* dropped never exceeds what was lost, and queued lags behind by the calls
\* that have appended and not counted yet.
Accounting ==
    /\ written = Cardinality(committed)
    /\ dropped <= Cardinality(lost)
    /\ queued + Cardinality(Counting) = Len(keys)

\* The batch outgrows reqLogBatchSize only by as many samples as there are
\* callers on their way to flush it: that, and not a queue, bounds memory.
QueueBound == Cardinality(batch) <= BatchSize - 1 + Cardinality(Flushers)

\* A row holds a committed sample of its own request half, and a request half
\* that was committed keeps a row until one of its samples is outdated.
RowsKept ==
    \A k \in Keys :
        /\ table[k] # 0 => table[k] \in committed /\ keys[table[k]] = k
        /\ table[k] = 0 =>
              \A n \in committed :
                  keys[n] = k => \E m \in committed : keys[m] = k /\ m <= expired

\* When the database is closed, what is still in the batch was enqueued after
\* close was called.
CloseFlushes == closed => \A n \in batch : n > atStop

\* The later capture of a request half is the one that survives, unless its
\* batch was swapped out while another one was on its way to the table: a row
\* holds an older capture than a committed one only where two flushes
\* overlapped, whatever fails, is pruned or is closed in between.
OlderOnlyByRace ==
    \A n \in committed :
        table[keys[n]] # 0 /\ table[keys[n]] < n => n \in raced

\* Nothing that was enqueued is still waiting, except what came after close
\* into a batch that nobody will flush any more.
Settled ==
    \A n \in Samples :
        n \in committed \cup lost \/ (pc[Worker] = "done" /\ n > atStop)

\* When the host falls silent (MaxSamples makes it) every sample is committed
\* or given up in the end, however full its batch is and whether or not the
\* store is closed meanwhile.
EventuallySettled == []<>Settled

\* A store that is told to close has its database closed in the end: the worker
\* always comes back to its select.
CloseReturns == stop ~> closed

\* The later capture of a request half survives.
LaterCaptureWins ==
    \A n \in committed : table[keys[n]] # 0 => n <= table[keys[n]]
=============================================================================
