--------------------------- MODULE ReqLogLifecycle ---------------------------
(***************************************************************************)
(* The life of the request log (reqlog.go 97-174, ensureReqLog in          *)
(* main.go): a reconfiguration opens, replaces or closes the store and the *)
(* stream aggregator under reqLogMu, while host goroutines capture through *)
(* pointers they read earlier and the aggregators' janitors finalize       *)
(* buffers through reqLogLive, which needs no lock.                        *)
(*                                                                         *)
(* A store and the aggregator opened with it have the same generation      *)
(* number; 0 stands for nil.  A sample is a number: a captured request or  *)
(* response, or a stream chunk, which is buffered on its own (how chunks   *)
(* share a buffer is the matter of StreamAgg, how many samples fill a batch *)
(* and how it is written that of ReqLogStore).  So an append may or may not *)
(* find the batch full; the goroutine that does takes it out and writes it *)
(* itself.  A transaction fails here only when the database is closed, so  *)
(* that what is lost is lost to the life cycle.                            *)
(***************************************************************************)
EXTENDS Naturals, FiniteSets

CONSTANTS
    Threads,       \* host goroutines that capture
    Configurers,   \* host goroutines that reconfigure the plugin
    Nobody,        \* the holder of a free reqLogMu
    Paths,         \* values of the request log path
    NoPath,        \* reqLogPathV before the first open
    MaxGens,       \* bound of the model: stores opened
    MaxConfigs,    \* bound of the model: reconfigurations
    MaxSamples     \* bound of the model: samples captured

ASSUME ReqLogLifecycleAssumption ==
    /\ Threads \cap Configurers = {}
    /\ Nobody \notin Configurers
    /\ NoPath \notin Paths
    /\ MaxGens \in Nat /\ MaxConfigs \in Nat /\ MaxSamples \in Nat

VARIABLES
    reqLog, reqLogAgg, reqLogLive, reqLogPath,   \* the globals
    writer,      \* who holds reqLogMu for writing
    pc,          \* pc[a]: where a host goroutine is
    want,        \* want[c]: the enabled flag and the path c configures
    gens,        \* generations opened so far
    store,       \* store[g]: "none", "open", "stopping" or "closed"
    batch,       \* batch[g]: samples in the batch of store g
    janitor,     \* janitor[g]: "none", "running", "stopping" (a.stop is closed),
                 \* "flushing" (in flushAll) or "done"
    bufs,        \* bufs[g]: samples buffered by aggregator g
    ready,       \* ready[g]: samples its janitor has taken out to finalize
    agg,         \* agg[t]: the aggregator t read from streamAgg
    st,          \* st[t]: the store t read from currentReqLog or reqLogLive
    own,         \* own[t]: the chunk t has yet to add, 0 for none
    hand,        \* hand[t]: the samples t has yet to enqueue
    tx,          \* tx[t]: the full batch t took out of st[t] and has yet to write
    jtx,         \* jtx[g]: the same for the janitor of aggregator g
    configs,     \* reconfigurations so far
    samples,     \* samples captured so far
    saved,       \* history: samples committed to a database
    discarded,   \* history: samples captureStreamResponse found no store for
    dropped,     \* history: samples whose BeginTx found the database closed
    owed         \* history: owed[on]: samples the log held when a
                 \* reconfiguration with that flag took reqLogMu, and that no
                 \* host goroutine took out of it since

globals == <<reqLog, reqLogAgg, reqLogLive, reqLogPath>>
generations == <<gens, store, batch, janitor, bufs, ready, jtx>>
hosts == <<agg, st, own, hand, tx, samples>>
history == <<saved, discarded, dropped, owed>>

vars == <<globals, writer, pc, want, generations, hosts, configs, history>>

Gens == 1 .. MaxGens

Init ==
    /\ reqLog = 0 /\ reqLogAgg = 0 /\ reqLogLive = 0 /\ reqLogPath = NoPath
    /\ writer = Nobody
    /\ pc = [a \in Threads \cup Configurers |-> "idle"]
    /\ want = [c \in Configurers |-> [on |-> FALSE, path |-> NoPath]]
    /\ gens = 0
    /\ store = [g \in Gens |-> "none"]
    /\ batch = [g \in Gens |-> {}]
    /\ janitor = [g \in Gens |-> "none"]
    /\ bufs = [g \in Gens |-> {}]
    /\ ready = [g \in Gens |-> {}]
    /\ jtx = [g \in Gens |-> {}]
    /\ agg = [t \in Threads |-> 0]
    /\ st = [t \in Threads |-> 0]
    /\ own = [t \in Threads |-> 0]
    /\ hand = [t \in Threads |-> {}]
    /\ tx = [t \in Threads |-> {}]
    /\ configs = 0
    /\ samples = 0
    /\ saved = {}
    /\ discarded = {}
    /\ dropped = {}
    /\ owed = [on \in BOOLEAN |-> {}]

Goto(a, step) == pc' = [pc EXCEPT ![a] = step]

-----------------------------------------------------------------------------
(***************************************************************************)
(* Capture                                                                 *)
(***************************************************************************)

\* captureRequest, captureResponse or captureStreamChunk is called.
Call(t, step) ==
    /\ pc[t] = "idle"
    /\ samples < MaxSamples
    /\ step \in {"readLog", "readAgg"}
    /\ Goto(t, step)
    /\ UNCHANGED <<globals, writer, want, generations, hosts, configs, history>>

\* currentReqLog, under the read lock; without a store nothing is captured.
ReadLog(t) ==
    /\ pc[t] = "readLog"
    /\ writer = Nobody
    /\ IF reqLog = 0 \/ samples = MaxSamples
          THEN Goto(t, "idle") /\ UNCHANGED hosts
          ELSE /\ st' = [st EXCEPT ![t] = reqLog]
               /\ samples' = samples + 1
               /\ hand' = [hand EXCEPT ![t] = {samples'}]
               /\ Goto(t, "enqueue")
               /\ UNCHANGED <<agg, own, tx>>
    /\ UNCHANGED <<globals, writer, want, generations, configs, history>>

\* streamAgg, under the read lock; without a store nothing is buffered.
ReadAgg(t) ==
    /\ pc[t] = "readAgg"
    /\ writer = Nobody
    /\ IF reqLog = 0 \/ samples = MaxSamples
          THEN Goto(t, "idle") /\ UNCHANGED hosts
          ELSE /\ agg' = [agg EXCEPT ![t] = reqLogAgg]
               /\ samples' = samples + 1
               /\ own' = [own EXCEPT ![t] = samples']
               /\ Goto(t, "add")
               /\ UNCHANGED <<st, hand, tx>>
    /\ UNCHANGED <<globals, writer, want, generations, configs, history>>

\* add keeps the chunk, whether or not the aggregator was closed meanwhile.
Buffer(t) ==
    /\ pc[t] = "add"
    /\ bufs' = [bufs EXCEPT ![agg[t]] = @ \cup {own[t]}]
    /\ own' = [own EXCEPT ![t] = 0]
    /\ Goto(t, "idle")
    /\ UNCHANGED <<globals, writer, want, gens, store, batch, janitor, ready,
                   jtx, agg, st, hand, tx, samples, configs, history>>

\* add completes a stream: the chunk leaves with those of it that wait.
Complete(t) ==
    /\ pc[t] = "add"
    /\ \E S \in SUBSET bufs[agg[t]] :
          /\ hand' = [hand EXCEPT ![t] = S \cup {own[t]}]
          /\ bufs' = [bufs EXCEPT ![agg[t]] = @ \ S]
          /\ owed' = [on \in BOOLEAN |-> owed[on] \ S]
    /\ own' = [own EXCEPT ![t] = 0]
    /\ Goto(t, "finalize")
    /\ UNCHANGED <<globals, writer, want, gens, store, batch, janitor, ready,
                   jtx, agg, st, tx, samples, configs, saved, discarded, dropped>>

\* add evicts a buffer before it takes the chunk in.
Evict(t) ==
    /\ pc[t] = "add"
    /\ \E n \in bufs[agg[t]] :
          /\ hand' = [hand EXCEPT ![t] = {n}]
          /\ bufs' = [bufs EXCEPT ![agg[t]] = @ \ {n}]
          /\ owed' = [on \in BOOLEAN |-> owed[on] \ {n}]
    /\ Goto(t, "finalize")
    /\ UNCHANGED <<globals, writer, want, gens, store, batch, janitor, ready,
                   jtx, agg, st, own, tx, samples, configs, saved, discarded,
                   dropped>>

\* Where t goes on when its hand is empty: add resumes after an eviction.
Resume(t) == Goto(t, IF own[t] # 0 THEN "add" ELSE "idle")

\* MUTANT of MayLoad: captureStreamResponse asks currentReqLog.
MayLoadLocked == writer = Nobody

\* reqLogLive.Load() never waits.
MayLoad == TRUE

\* MUTANT of Load: the nil check is missing.
LoadUnchecked(t) ==
    /\ pc[t] = "finalize"
    /\ MayLoad
    /\ st' = [st EXCEPT ![t] = reqLogLive]
    /\ Goto(t, "enqueue")
    /\ UNCHANGED <<globals, writer, want, generations, agg, own, hand, tx,
                   samples, configs, history>>

\* captureStreamResponse in a host goroutine reads the store it will use, or
\* finds none and drops the buffer.
Load(t) ==
    /\ pc[t] = "finalize"
    /\ MayLoad
    /\ IF reqLogLive = 0
          THEN /\ discarded' = discarded \cup hand[t]
               /\ hand' = [hand EXCEPT ![t] = {}]
               /\ Resume(t)
               /\ UNCHANGED st
          ELSE /\ st' = [st EXCEPT ![t] = reqLogLive]
               /\ Goto(t, "enqueue")
               /\ UNCHANGED <<discarded, hand>>
    /\ UNCHANGED <<globals, writer, want, generations, agg, own, tx, samples,
                   configs, saved, dropped, owed>>

\* enqueue appends to the store that was read, closed by now or not.
Enqueue(t) ==
    /\ pc[t] = "enqueue"
    /\ batch' = [batch EXCEPT ![st[t]] = @ \cup hand[t]]
    /\ hand' = [hand EXCEPT ![t] = {}]
    /\ Resume(t)
    /\ UNCHANGED <<globals, writer, want, gens, store, janitor, bufs, ready, jtx,
                   agg, st, own, tx, samples, configs, history>>

\* enqueue fills the batch, and flush swaps it out.
FillBatch(t) ==
    /\ pc[t] = "enqueue"
    /\ tx' = [tx EXCEPT ![t] = batch[st[t]] \cup hand[t]]
    /\ batch' = [batch EXCEPT ![st[t]] = {}]
    /\ owed' = [on \in BOOLEAN |-> owed[on] \ batch[st[t]]]
    /\ hand' = [hand EXCEPT ![t] = {}]
    /\ Goto(t, "write")
    /\ UNCHANGED <<globals, writer, want, gens, store, janitor, bufs, ready, jtx,
                   agg, st, own, samples, configs, saved, discarded, dropped>>

\* A transaction over S on store g: BeginTx fails on a closed database, which
\* close shuts without waiting for anyone but the worker.
Written(g, S) ==
    IF store[g] = "closed"
        THEN dropped' = dropped \cup S /\ UNCHANGED saved
        ELSE saved' = saved \cup S /\ UNCHANGED dropped

\* flush in the host goroutine writes what it took out.
Write(t) ==
    /\ pc[t] = "write"
    /\ Written(st[t], tx[t])
    /\ tx' = [tx EXCEPT ![t] = {}]
    /\ Resume(t)
    /\ UNCHANGED <<globals, writer, want, generations, agg, st, own, hand,
                   samples, configs, discarded, owed>>

-----------------------------------------------------------------------------
(***************************************************************************)
(* The goroutines of a generation                                          *)
(***************************************************************************)

\* The worker's tick writes the batch.
Flush(g) ==
    /\ store[g] \in {"open", "stopping"}
    /\ batch[g] # {}
    /\ saved' = saved \cup batch[g]
    /\ batch' = [batch EXCEPT ![g] = {}]
    /\ UNCHANGED <<globals, writer, pc, want, gens, store, janitor, bufs, ready,
                   jtx, hosts, configs, discarded, dropped, owed>>

\* The worker's last flush; the database is closed behind it.
StoreStops(g) ==
    /\ store[g] = "stopping"
    /\ saved' = saved \cup batch[g]
    /\ batch' = [batch EXCEPT ![g] = {}]
    /\ store' = [store EXCEPT ![g] = "closed"]
    /\ UNCHANGED <<globals, writer, pc, want, gens, janitor, bufs, ready, jtx,
                   hosts, configs, discarded, dropped, owed>>

\* The janitor's sweep takes buffers out that went quiet.
Sweep(g) ==
    /\ janitor[g] \in {"running", "stopping"}
    /\ ready[g] = {} /\ jtx[g] = {}
    /\ \E S \in SUBSET bufs[g] :
          /\ S # {}
          /\ ready' = [ready EXCEPT ![g] = S]
          /\ bufs' = [bufs EXCEPT ![g] = @ \ S]
    /\ UNCHANGED <<globals, writer, pc, want, gens, store, batch, janitor, jtx,
                   hosts, configs, history>>

\* MUTANT of FlushAll: the buffers are copied and not deleted from the map.
FlushAllKeeping(g) ==
    /\ janitor[g] = "stopping"
    /\ ready[g] = {} /\ jtx[g] = {}
    /\ ready' = [ready EXCEPT ![g] = bufs[g]]
    /\ janitor' = [janitor EXCEPT ![g] = "flushing"]
    /\ UNCHANGED <<globals, writer, pc, want, gens, store, batch, bufs, jtx,
                   hosts, configs, history>>

\* MUTANT of FlushAll: the stop branch of the janitor returns without it.
FlushAllForgotten(g) ==
    /\ janitor[g] = "stopping"
    /\ ready[g] = {} /\ jtx[g] = {}
    /\ janitor' = [janitor EXCEPT ![g] = "flushing"]
    /\ UNCHANGED <<globals, writer, pc, want, gens, store, batch, bufs, ready, jtx,
                   hosts, configs, history>>

\* The janitor's flushAll.
FlushAll(g) ==
    /\ janitor[g] = "stopping"
    /\ ready[g] = {} /\ jtx[g] = {}
    /\ ready' = [ready EXCEPT ![g] = bufs[g]]
    /\ bufs' = [bufs EXCEPT ![g] = {}]
    /\ janitor' = [janitor EXCEPT ![g] = "flushing"]
    /\ UNCHANGED <<globals, writer, pc, want, gens, store, batch, jtx, hosts,
                   configs, history>>

\* captureStreamResponse in the janitor.  Nothing can replace reqLogLive
\* between its load and the append, so they are one step.
JanitorFinalize(g) ==
    /\ MayLoad
    /\ jtx[g] = {}
    /\ \E n \in ready[g] :
          /\ ready' = [ready EXCEPT ![g] = @ \ {n}]
          /\ IF reqLogLive = 0
                THEN discarded' = discarded \cup {n} /\ UNCHANGED batch
                ELSE /\ batch' = [batch EXCEPT ![reqLogLive] = @ \cup {n}]
                     /\ UNCHANGED discarded
    /\ UNCHANGED <<globals, writer, pc, want, gens, store, janitor, bufs, jtx,
                   hosts, configs, saved, dropped, owed>>

\* The janitor's append fills the batch, and flush swaps it out.
JanitorFills(g) ==
    /\ MayLoad
    /\ reqLogLive # 0
    /\ jtx[g] = {}
    /\ \E n \in ready[g] :
          /\ ready' = [ready EXCEPT ![g] = @ \ {n}]
          /\ jtx' = [jtx EXCEPT ![g] = batch[reqLogLive] \cup {n}]
    /\ batch' = [batch EXCEPT ![reqLogLive] = {}]
    /\ UNCHANGED <<globals, writer, pc, want, gens, store, janitor, bufs, hosts,
                   configs, history>>

\* flush in the janitor writes what it took out; reqLogLive is the same still.
JanitorWrites(g) ==
    /\ jtx[g] # {}
    /\ Written(reqLogLive, jtx[g])
    /\ jtx' = [jtx EXCEPT ![g] = {}]
    /\ UNCHANGED <<globals, writer, pc, want, gens, store, batch, janitor, bufs,
                   ready, hosts, configs, discarded, owed>>

\* The janitor returns after flushAll.
JanitorReturns(g) ==
    /\ janitor[g] = "flushing"
    /\ ready[g] = {} /\ jtx[g] = {}
    /\ janitor' = [janitor EXCEPT ![g] = "done"]
    /\ UNCHANGED <<globals, writer, pc, want, gens, store, batch, bufs, ready, jtx,
                   hosts, configs, history>>

-----------------------------------------------------------------------------
(***************************************************************************)
(* Reconfiguration                                                         *)
(***************************************************************************)

\* ensureReqLog is called.
Configure(c, on, path) ==
    /\ pc[c] = "idle"
    /\ configs < MaxConfigs
    /\ configs' = configs + 1
    /\ want' = [want EXCEPT ![c] = [on |-> on, path |-> path]]
    /\ Goto(c, "lock")
    /\ UNCHANGED <<globals, writer, generations, hosts, history>>

\* MUTANT of NextStep: opening anew forgets the aggregator of before.
NextStepKeepsAgg(on, step) ==
    CASE step = "lock" -> IF on THEN "closeLog" ELSE "closeAgg"
      [] step = "closeLog" -> IF on THEN "open" ELSE "unlock"
      [] step = "closeAgg" -> "closeLog"

\* openReqLogStore closes the store, then the aggregator, then opens anew;
\* closeReqLogStore closes the aggregator, then the store.
NextStep(on, step) ==
    CASE step = "lock" -> IF on THEN "closeLog" ELSE "closeAgg"
      [] step = "closeLog" -> IF on THEN "closeAgg" ELSE "unlock"
      [] step = "closeAgg" -> IF on THEN "open" ELSE "closeLog"

Proceed(c) == Goto(c, NextStep(want[c].on, pc[c]))

\* reqLogMu.Lock(); a log that is open under this path already is left alone.
Lock(c) ==
    /\ pc[c] = "lock"
    /\ writer = Nobody
    /\ IF want[c].on /\ reqLog # 0 /\ reqLogPath = want[c].path
          THEN Goto(c, "idle") /\ UNCHANGED <<writer, owed>>
          ELSE /\ writer' = c
               /\ Proceed(c)
               /\ owed' = [owed EXCEPT ![want[c].on] = @ \cup
                     (IF reqLog = 0 THEN {} ELSE batch[reqLog]) \cup
                     (IF reqLogAgg = 0 THEN {}
                                       ELSE bufs[reqLogAgg] \cup ready[reqLogAgg]
                                                \cup jtx[reqLogAgg])]
    /\ UNCHANGED <<globals, want, generations, hosts, configs, saved, discarded,
                   dropped>>

\* reqLogAgg.close() closes a.stop and waits for the janitor.
CloseAgg(c) ==
    /\ pc[c] = "closeAgg"
    /\ reqLogAgg # 0
    /\ janitor[reqLogAgg] = "running"
    /\ janitor' = [janitor EXCEPT ![reqLogAgg] = "stopping"]
    /\ UNCHANGED <<globals, writer, pc, want, gens, store, batch, bufs, ready, jtx,
                   hosts, configs, history>>

AggClosed(c) ==
    /\ pc[c] = "closeAgg"
    /\ reqLogAgg # 0 => janitor[reqLogAgg] = "done"
    /\ reqLogAgg' = 0
    /\ Proceed(c)
    /\ UNCHANGED <<reqLog, reqLogLive, reqLogPath, writer, want, generations,
                   hosts, configs, history>>

\* closeReqLogStore clears reqLogLive before it closes the store;
\* openReqLogStore leaves it for the new store to overwrite.
LiveAfterClose(on) == IF on THEN reqLogLive ELSE 0

\* reqLog.close() closes s.stop and waits for the worker.
CloseLog(c) ==
    /\ pc[c] = "closeLog"
    /\ reqLog # 0
    /\ store[reqLog] = "open"
    /\ reqLogLive' = LiveAfterClose(want[c].on)
    /\ store' = [store EXCEPT ![reqLog] = "stopping"]
    /\ UNCHANGED <<reqLog, reqLogAgg, reqLogPath, writer, pc, want, gens, batch,
                   janitor, bufs, ready, jtx, hosts, configs, history>>

LogClosed(c) ==
    /\ pc[c] = "closeLog"
    /\ reqLog # 0 => store[reqLog] = "closed"
    /\ reqLog' = 0
    /\ Proceed(c)
    /\ UNCHANGED <<reqLogAgg, reqLogLive, reqLogPath, writer, want, generations,
                   hosts, configs, history>>

\* newReqLogStore and newStreamAggregator; the globals follow.
Open(c) ==
    /\ pc[c] = "open"
    /\ gens < MaxGens
    /\ gens' = gens + 1
    /\ store' = [store EXCEPT ![gens'] = "open"]
    /\ janitor' = [janitor EXCEPT ![gens'] = "running"]
    /\ reqLog' = gens'
    /\ reqLogLive' = gens'
    /\ reqLogAgg' = gens'
    /\ reqLogPath' = want[c].path
    /\ Goto(c, "unlock")
    /\ UNCHANGED <<writer, want, batch, bufs, ready, jtx, hosts, configs, history>>

\* MUTANT of OpenFails: the error path returns without unlocking.
OpenFailsLocked(c) ==
    /\ pc[c] = "open"
    /\ Goto(c, "idle")
    /\ UNCHANGED <<globals, writer, want, generations, hosts, configs, history>>

\* newReqLogStore fails; ensureReqLog swallows the error.
OpenFails(c) ==
    /\ pc[c] = "open"
    /\ Goto(c, "unlock")
    /\ UNCHANGED <<globals, writer, want, generations, hosts, configs, history>>

Unlock(c) ==
    /\ pc[c] = "unlock"
    /\ writer' = Nobody
    /\ Goto(c, "idle")
    /\ UNCHANGED <<globals, want, generations, hosts, configs, history>>

-----------------------------------------------------------------------------

Reads(t) == ReadLog(t) \/ ReadAgg(t)
Captures(t) ==
    \/ Buffer(t) \/ Complete(t) \/ Evict(t) \/ Load(t)
    \/ Enqueue(t) \/ FillBatch(t) \/ Write(t)
Works(g) == Flush(g) \/ StoreStops(g)
Tidies(g) ==
    \/ Sweep(g) \/ FlushAll(g) \/ JanitorReturns(g)
    \/ JanitorFinalize(g) \/ JanitorFills(g) \/ JanitorWrites(g)
Reconfigures(c) ==
    \/ CloseAgg(c) \/ AggClosed(c) \/ CloseLog(c) \/ LogClosed(c)
    \/ Open(c) \/ OpenFails(c) \/ Unlock(c)

Next ==
    \/ \E t \in Threads, step \in {"readLog", "readAgg"} : Call(t, step)
    \/ \E t \in Threads : Reads(t) \/ Captures(t)
    \/ \E g \in Gens : Works(g) \/ Tidies(g)
    \/ \E c \in Configurers, on \in BOOLEAN, path \in Paths : Configure(c, on, path)
    \/ \E c \in Configurers : Lock(c) \/ Reconfigures(c)

\* Goroutines run.  reqLogMu is fair: a goroutine that keeps asking for it is
\* not passed over for ever, although it is not free all the time.  A worker
\* whose stop channel is closed takes the stop branch in the end.
Fairness ==
    /\ \A t \in Threads : SF_vars(Reads(t)) /\ WF_vars(Captures(t))
    /\ \A g \in Gens : /\ WF_vars(Works(g)) /\ WF_vars(StoreStops(g))
                       /\ WF_vars(Tidies(g)) /\ SF_vars(FlushAll(g))
    /\ \A c \in Configurers : SF_vars(Lock(c)) /\ WF_vars(Reconfigures(c))

Spec == Init /\ [][Next]_vars
FairSpec == Spec /\ Fairness

-----------------------------------------------------------------------------
(***************************************************************************)
(* Properties                                                              *)
(***************************************************************************)

Samples == 1 .. samples

\* The values of the variables.  No goroutine dereferences nil: whoever is about
\* to use an aggregator or a store has read one.
TypeOK ==
    /\ {reqLog, reqLogAgg, reqLogLive} \subseteq 0 .. gens
    /\ reqLogPath \in Paths \cup {NoPath}
    /\ writer \in Configurers \cup {Nobody}
    /\ \A t \in Threads : pc[t] \in {"idle", "readLog", "readAgg", "add",
                                     "finalize", "enqueue", "write"}
    /\ \A c \in Configurers : pc[c] \in {"idle", "lock", "closeLog", "closeAgg",
                                         "open", "unlock"}
    /\ gens \in 0 .. MaxGens
    /\ store \in [Gens -> {"none", "open", "stopping", "closed"}]
    /\ janitor \in [Gens -> {"none", "running", "stopping", "flushing", "done"}]
    /\ batch \in [Gens -> SUBSET Samples]
    /\ bufs \in [Gens -> SUBSET Samples]
    /\ ready \in [Gens -> SUBSET Samples]
    /\ jtx \in [Gens -> SUBSET Samples]
    /\ agg \in [Threads -> 0 .. gens]
    /\ st \in [Threads -> 0 .. gens]
    /\ \A t \in Threads : /\ pc[t] = "add" => agg[t] # 0
                          /\ pc[t] \in {"enqueue", "write"} => st[t] # 0
    /\ \A g \in Gens : jtx[g] # {} => reqLogLive # 0
    /\ own \in [Threads -> 0 .. samples]
    /\ hand \in [Threads -> SUBSET Samples]
    /\ tx \in [Threads -> SUBSET Samples]
    /\ saved \subseteq Samples
    /\ discarded \subseteq Samples
    /\ dropped \subseteq Samples

\* What a reconfiguration leaves behind when it gives reqLogMu up: the store
\* and the aggregator are both there or both nil, reqLogLive is the store
\* whenever there is one, and no other store is open and no other janitor runs,
\* however many reconfigurations came before and whichever of them failed.
OneGeneration ==
    writer = Nobody =>
        /\ reqLog = reqLogAgg
        /\ reqLog # 0 => reqLogLive = reqLog
        /\ \A g \in Gens : /\ store[g] = "open" <=> g = reqLog
                           /\ janitor[g] = "running" <=> g = reqLog
                           /\ store[g] # "stopping"
                           /\ janitor[g] \notin {"stopping", "flushing"}

\* Every captured sample is in exactly one place: with the goroutine that
\* captured it, in an aggregator, with a janitor, in the batch of a store, in a
\* batch that a goroutine took out to write, in a database, or lost for want of
\* a store or to one that was closed.
Holders ==
    [kind : {"own", "hand", "tx"}, of : Threads]
        \cup [kind : {"bufs", "ready", "jtx", "batch"}, of : Gens]
        \cup [kind : {"saved", "discarded", "dropped"}, of : {Nobody}]

HeldBy(h) ==
    CASE h.kind = "own" -> {own[h.of]} \ {0}
      [] h.kind = "hand" -> hand[h.of]
      [] h.kind = "tx" -> tx[h.of]
      [] h.kind = "bufs" -> bufs[h.of]
      [] h.kind = "ready" -> ready[h.of]
      [] h.kind = "jtx" -> jtx[h.of]
      [] h.kind = "batch" -> batch[h.of]
      [] h.kind = "saved" -> saved
      [] h.kind = "discarded" -> discarded
      [] h.kind = "dropped" -> dropped

SampleOnce ==
    \A n \in Samples : \E h \in Holders :
        /\ n \in HeldBy(h)
        /\ \A other \in Holders \ {h} : n \notin HeldBy(other)

\* closeReqLogStore saves everything the log held when it took reqLogMu, the
\* buffers of unfinished streams and the batch its janitor writes included.  Not
\* what host goroutines took out of it meanwhile, the buffers they evicted or
\* completed and the batch that one of them filled: it waits for none of them
\* (reqlog.go:420), and the database may be closed before they write.
DisableKeepsAll == writer = Nobody => owed[FALSE] \subseteq saved

\* The same of a reconfiguration that replaces the log.
ReopenKeepsAll == writer = Nobody => owed[TRUE] \subseteq saved

\* Every reconfiguration returns, although it holds reqLogMu while it waits for
\* a janitor that finalizes buffers.
ConfigReturns == \A c \in Configurers : pc[c] # "idle" ~> pc[c] = "idle"

\* Every capture returns, although it asks for reqLogMu: no reconfiguration
\* keeps it for ever.
CaptureReturns == \A t \in Threads : pc[t] # "idle" ~> pc[t] = "idle"
=============================================================================
