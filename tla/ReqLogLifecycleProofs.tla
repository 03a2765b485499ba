------------------------ MODULE ReqLogLifecycleProofs ------------------------
(***************************************************************************)
(* Proofs about ReqLogLifecycle, for any number of goroutines, paths,      *)
(* generations and samples: the types, that every reconfiguration leaves   *)
(* one generation behind, that every sample is in exactly one place, and   *)
(* that disabling the log saves what it held.                              *)
(*                                                                         *)
(* The argument: reqLogMu makes the steps of a reconfiguration a sequence, *)
(* so that the globals, the store and the janitor they name can be         *)
(* described phase by phase (OneStore, OneJanitor, Phases), and only a     *)
(* janitor that has not returned has samples in its hands (Busy).  From    *)
(* that follows where the samples a closing log owes can be (Owing).  That *)
(* a sample is in one place is a matter of the single moves (MoveOnce).    *)
(***************************************************************************)
EXTENDS ReqLogLifecycle, TLAPS

-----------------------------------------------------------------------------
(***************************************************************************)
(* Type correctness                                                        *)
(***************************************************************************)

\* Where a capture and where a reconfiguration can be.
CapturePCs == {"idle", "readLog", "readAgg", "add", "finalize", "enqueue", "write"}
ConfigPCs == {"idle", "lock", "closeLog", "closeAgg", "open", "unlock"}

\* The steps taken under reqLogMu.
Locked == {"closeLog", "closeAgg", "open", "unlock"}

\* The globals and the counters.
Globals ==
    /\ gens \in 0 .. MaxGens /\ samples \in Nat /\ configs \in Nat
    /\ reqLog \in 0 .. gens /\ reqLogAgg \in 0 .. gens /\ reqLogLive \in 0 .. gens
    /\ reqLogPath \in Paths \cup {NoPath}

\* The goroutines of the host that reconfigure.
Control ==
    /\ pc \in [Threads \cup Configurers -> CapturePCs \cup ConfigPCs]
    /\ \A t \in Threads : pc[t] \in CapturePCs
    /\ \A c \in Configurers : pc[c] \in ConfigPCs
    /\ want \in [Configurers -> [on : BOOLEAN, path : Paths \cup {NoPath}]]
    /\ writer \in Configurers \cup {Nobody}

\* The stores and the aggregators.
Generations ==
    /\ store \in [Gens -> {"none", "open", "stopping", "closed"}]
    /\ janitor \in [Gens -> {"none", "running", "stopping", "flushing", "done"}]
    /\ batch \in [Gens -> SUBSET Samples]
    /\ bufs \in [Gens -> SUBSET Samples]
    /\ ready \in [Gens -> SUBSET Samples]
    /\ jtx \in [Gens -> SUBSET Samples]

\* What a capture at w may hold: an aggregator and a chunk to add to it, a store
\* to enqueue to, a batch to write to it, or nothing.
MayHold(w, a, s, o, H, T) ==
    /\ o # 0 => a # 0
    /\ w = "add" => o # 0 /\ H = {}
    /\ w \in {"enqueue", "write"} => s # 0
    /\ w \in {"idle", "readLog", "readAgg"} => o = 0 /\ H = {}
    /\ w = "write" => H = {}
    /\ w # "write" => T = {}

\* What the captures hold.
Captured ==
    /\ agg \in [Threads -> 0 .. gens]
    /\ st \in [Threads -> 0 .. gens]
    /\ own \in [Threads -> 0 .. samples]
    /\ hand \in [Threads -> SUBSET Samples]
    /\ tx \in [Threads -> SUBSET Samples]
    /\ \A t \in Threads : MayHold(pc[t], agg[t], st[t], own[t], hand[t], tx[t])

\* The histories.
Past ==
    /\ saved \subseteq Samples /\ discarded \subseteq Samples /\ dropped \subseteq Samples
    /\ owed \in [BOOLEAN -> SUBSET Samples]

\* The inductive form of TypeOK.
Typed == Globals /\ Control /\ Generations /\ Captured /\ Past

-----------------------------------------------------------------------------
(***************************************************************************)
(* One generation                                                          *)
(***************************************************************************)

\* Exactly the goroutine inside openReqLogStore or closeReqLogStore holds
\* reqLogMu, and only one that enables the log opens it.
Mutex ==
    /\ \A c \in Configurers : pc[c] \in Locked <=> writer = c
    /\ \A c \in Configurers : pc[c] = "open" => want[c].on

\* The holder of reqLogMu is at a step.
At(step) == writer # Nobody /\ pc[writer] = step

\* Only the store that reqLog names has a worker; it is open unless the holder of
\* reqLogMu closes it, and while it is open captures find it in reqLogLive.
OneStore ==
    /\ \A g \in Gens : store[g] \in {"open", "stopping"} => g = reqLog
    /\ reqLog # 0 => \/ store[reqLog] = "open" /\ reqLogLive = reqLog
                     \/ store[reqLog] \in {"stopping", "closed"} /\ At("closeLog")

\* Only the aggregator that reqLogAgg names has a janitor; it runs undisturbed
\* unless the holder of reqLogMu closes it.
OneJanitor ==
    /\ \A g \in Gens : janitor[g] \in {"running", "stopping", "flushing"}
                          => g = reqLogAgg
    /\ reqLogAgg # 0 => \/ janitor[reqLogAgg] = "running"
                        \/ /\ janitor[reqLogAgg] \in {"stopping", "flushing", "done"}
                           /\ At("closeAgg")

\* Which of the two globals the holder of reqLogMu has cleared.
Phases ==
    /\ writer = Nobody \/ At("unlock") => reqLog = reqLogAgg
    /\ At("open") => reqLog = 0 /\ reqLogAgg = 0
    /\ At("closeLog") => reqLogAgg = (IF want[writer].on THEN reqLog ELSE 0)
    /\ At("closeAgg") => reqLog = (IF want[writer].on THEN 0 ELSE reqLogAgg)

\* The inductive form of OneGeneration.
Generation == Mutex /\ OneStore /\ OneJanitor /\ Phases

\* Only a janitor that has not returned has samples in its hands, and the store
\* whose batch it writes stays in reqLogLive.
Busy ==
    \A g \in Gens :
        /\ ready[g] # {} \/ jtx[g] # {}
              => janitor[g] \in {"running", "stopping", "flushing"}
        /\ jtx[g] # {} => reqLogLive # 0

-----------------------------------------------------------------------------
(***************************************************************************)
(* What a closing log owes                                                 *)
(***************************************************************************)

\* What the store that reqLog names has in its batch, and the aggregator that
\* reqLogAgg names in its map and with its janitor.
Batched == IF reqLog = 0 THEN {} ELSE batch[reqLog]
Buffered == IF reqLogAgg = 0 THEN {} ELSE bufs[reqLogAgg]
Taken == IF reqLogAgg = 0 THEN {} ELSE ready[reqLogAgg] \cup jtx[reqLogAgg]

\* Where the samples are that closeReqLogStore owes.  When it does not run, or
\* has done its work, they are saved.
Settled ==
    writer = Nobody \/ At("unlock") \/ (writer # Nobody /\ want[writer].on)
        => owed[FALSE] \subseteq saved

\* While it closes the aggregator they are in the buffers until flushAll took
\* them all out, then with the janitor until it returned, then in the batch.
AggOwes ==
    At("closeAgg") /\ ~want[writer].on =>
        /\ owed[FALSE] \subseteq saved \cup Batched \cup Buffered \cup Taken
        /\ reqLogAgg # 0 /\ janitor[reqLogAgg] \in {"flushing", "done"}
              => owed[FALSE] \subseteq saved \cup Batched \cup Taken
        /\ reqLogAgg # 0 /\ janitor[reqLogAgg] = "done" => Taken = {}

\* While it closes the store they are in the batch until the last flush.
LogOwes ==
    At("closeLog") /\ ~want[writer].on =>
        /\ owed[FALSE] \subseteq saved \cup Batched
        /\ reqLog # 0 /\ store[reqLog] = "closed" => owed[FALSE] \subseteq saved

\* The inductive form of DisableKeepsAll.
Owing == Settled /\ AggOwes /\ LogOwes

\* The steps of a reconfiguration.
LEMMA NextStepIs ==
  ASSUME NEW on
  PROVE  /\ NextStep(on, "lock") = IF on THEN "closeLog" ELSE "closeAgg"
         /\ NextStep(on, "closeLog") = IF on THEN "closeAgg" ELSE "unlock"
         /\ NextStep(on, "closeAgg") = IF on THEN "open" ELSE "closeLog"
  BY DEF NextStep

\* A capture goes on.
LEMMA CaptureControl ==
  ASSUME Control, NEW t \in Threads, NEW w \in CapturePCs, Goto(t, w),
         UNCHANGED <<want, writer>>
  PROVE  Control'
  BY ReqLogLifecycleAssumption DEF Control, Goto

\* A reconfiguration goes on.
LEMMA ConfigControl ==
  ASSUME Control, NEW c \in Configurers, NEW w \in ConfigPCs, Goto(c, w),
         want' = want, writer' \in Configurers \cup {Nobody}
  PROVE  Control'
  BY ReqLogLifecycleAssumption DEF Control, Goto

\* One capture goes on with what it may hold there; the others keep what they hold.
LEMMA CapturedMove ==
  ASSUME Control, Captured, NEW t \in Threads, NEW w, Goto(t, w), gens' = gens,
         agg' \in [Threads -> 0 .. gens], st' \in [Threads -> 0 .. gens],
         own' \in [Threads -> 0 .. samples'], hand' \in [Threads -> SUBSET Samples'],
         tx' \in [Threads -> SUBSET Samples'],
         \A u \in Threads \ {t} : /\ agg'[u] = agg[u] /\ st'[u] = st[u] /\ tx'[u] = tx[u]
                                  /\ own'[u] = own[u] /\ hand'[u] = hand[u],
         MayHold(w, agg'[t], st'[t], own'[t], hand'[t], tx'[t])
  PROVE  Captured'
  BY DEF Captured, Control, Goto, MayHold

\* When samples are counted, sets of samples remain sets of samples.
LEMMA MoreSamples ==
  ASSUME Globals, Generations, Past, samples' \in {samples, samples + 1},
         UNCHANGED <<globals, configs, generations, history>>
  PROVE  Globals' /\ Generations' /\ Past'
  <1> USE DEF globals, generations, history
  <1>1. Samples \subseteq Samples' /\ samples' \in Nat
    BY DEF Samples, Globals
  <1>2. Generations'
    BY <1>1 DEF Generations
  <1> QED
    BY <1>1, <1>2 DEF Past, Globals

\* The call of a capture keeps the types.
LEMMA TypedCall ==
  ASSUME Typed, NEW t \in Threads, NEW step \in {"readLog", "readAgg"}, Call(t, step)
  PROVE  Typed'
  <1> USE DEF Typed
  <1>1. /\ UNCHANGED <<globals, writer, want, generations, hosts, configs, history>>
        /\ pc[t] = "idle" /\ Goto(t, step) /\ Samples' = Samples /\ gens' = gens
    BY DEF Call, hosts, generations, Samples
  <1>2. Control'
    BY <1>1, CaptureControl DEF CapturePCs
  <1>3. MayHold(step, agg[t], st[t], own[t], hand[t], tx[t])
    BY <1>1 DEF Captured, MayHold
  <1>4. Captured'
    BY <1>1, <1>3, CapturedMove DEF hosts, Captured
  <1> QED
    BY <1>1, <1>2, <1>4
    DEF globals, generations, hosts, history, Globals, Generations, Past

\* currentReqLog and streamAgg keep the types.
LEMMA TypedReads ==
  ASSUME Typed, reqLog = reqLogAgg, NEW t \in Threads, ReadLog(t) \/ ReadAgg(t)
  PROVE  Typed'
  <1> USE DEF Typed
  <1>1. /\ UNCHANGED <<globals, writer, want, generations, configs, history>>
        /\ pc[t] \in {"readLog", "readAgg"}
        /\ samples \in Nat /\ reqLog \in 0 .. gens /\ gens' = gens
        /\ Control /\ Captured
    BY DEF ReadLog, ReadAgg, Globals, generations
  <1>2. own[t] = 0 /\ hand[t] = {} /\ tx[t] = {}
    BY <1>1 DEF Captured, MayHold
  <1>3. CASE Goto(t, "idle") /\ UNCHANGED hosts
    <2>1. Captured'
      BY <1>1, <1>2, <1>3 DEF hosts, Captured, MayHold, Samples, Control, Goto
    <2>2. Control'
      BY <1>1, <1>3, CaptureControl DEF CapturePCs
    <2> QED
      BY <1>1, <1>3, <2>1, <2>2, MoreSamples DEF hosts
  <1>4. CASE /\ reqLog # 0 /\ st' = [st EXCEPT ![t] = reqLog] /\ samples' = samples + 1
             /\ hand' = [hand EXCEPT ![t] = {samples'}] /\ Goto(t, "enqueue")
             /\ UNCHANGED <<agg, own, tx>>
    <2>1. Samples \subseteq Samples' /\ samples' \in Samples' /\ 0 .. samples \subseteq 0 .. samples'
      BY <1>1, <1>4 DEF Samples
    <2>2. /\ agg' \in [Threads -> 0 .. gens] /\ st' \in [Threads -> 0 .. gens]
          /\ own' \in [Threads -> 0 .. samples'] /\ hand' \in [Threads -> SUBSET Samples']
          /\ tx' \in [Threads -> SUBSET Samples']
      BY <1>1, <1>4, <2>1 DEF Captured
    <2>3. Captured'
      BY <1>1, <1>2, <1>4, <2>2, CapturedMove DEF Captured, MayHold
    <2>4. Control'
      BY <1>1, <1>4, CaptureControl DEF CapturePCs
    <2> QED
      BY <1>1, <1>4, <2>3, <2>4, MoreSamples
  <1>5. CASE /\ reqLogAgg # 0 /\ samples' = samples + 1
             /\ agg' = [agg EXCEPT ![t] = reqLogAgg]
             /\ own' = [own EXCEPT ![t] = samples'] /\ Goto(t, "add")
             /\ UNCHANGED <<st, hand, tx>>
    <2>1. Samples \subseteq Samples' /\ samples' \in 0 .. samples' /\ samples' # 0
          /\ 0 .. samples \subseteq 0 .. samples'
      BY <1>1, <1>5 DEF Samples
    <2>2. /\ agg' \in [Threads -> 0 .. gens] /\ st' \in [Threads -> 0 .. gens]
          /\ own' \in [Threads -> 0 .. samples'] /\ hand' \in [Threads -> SUBSET Samples']
          /\ tx' \in [Threads -> SUBSET Samples']
      BY <1>1, <1>5, <2>1 DEF Captured
    <2>3. Captured'
      BY <1>1, <1>2, <1>5, <2>1, <2>2, CapturedMove DEF Captured, MayHold
    <2>4. Control'
      BY <1>1, <1>5, CaptureControl DEF CapturePCs
    <2> QED
      BY <1>1, <1>5, <2>3, <2>4, MoreSamples
  <1> QED
    BY <1>3, <1>4, <1>5 DEF ReadLog, ReadAgg

\* The steps of captureStreamResponse and enqueue, and the janitor's, keep the types.
LEMMA TypedLoad ==
  ASSUME Typed, NEW t \in Threads, Load(t)
  PROVE  Typed'
  <1> USE DEF Typed
  <1>1. /\ UNCHANGED <<globals, writer, want, generations, agg, own, tx, samples,
                       configs, saved, dropped, owed>>
        /\ reqLogLive \in 0 .. gens /\ gens' = gens /\ Samples' = Samples
        /\ pc[t] = "finalize" /\ Control /\ Captured
    BY DEF Load, Globals, globals, generations, Samples
  <1>2. CASE reqLogLive # 0
    <2>1. st' = [st EXCEPT ![t] = reqLogLive] /\ Goto(t, "enqueue") /\ UNCHANGED <<discarded, hand>>
      BY <1>2 DEF Load
    <2>2. Captured'
      BY <1>1, <1>2, <2>1, CapturedMove DEF Captured, MayHold
    <2>3. Control'
      BY <1>1, <2>1, CaptureControl DEF CapturePCs
    <2> QED
      BY <1>1, <2>1, <2>2, <2>3 DEF globals, generations, Globals, Generations, Past
  <1>3. CASE reqLogLive = 0
    <2>1. PICK w \in {"add", "idle"} :
             /\ Goto(t, w) /\ w = (IF own[t] # 0 THEN "add" ELSE "idle")
      BY <1>3 DEF Load, Resume
    <2>2. /\ discarded' = discarded \cup hand[t] /\ hand' = [hand EXCEPT ![t] = {}]
          /\ st' = st
      BY <1>3 DEF Load
    <2>3. Captured'
      BY <1>1, <2>1, <2>2, CapturedMove DEF Captured, MayHold
    <2>4. Control'
      BY <1>1, <2>1, CaptureControl DEF CapturePCs
    <2> QED
      BY <1>1, <2>2, <2>3, <2>4
      DEF globals, generations, Globals, Generations, Past, Captured
  <1> QED
    BY <1>2, <1>3 DEF Load

LEMMA TypedEnqueue ==
  ASSUME Typed, NEW t \in Threads, Enqueue(t)
  PROVE  Typed'
  <1> USE DEF Typed
  <1>1. /\ UNCHANGED <<globals, writer, want, gens, store, janitor, bufs, ready, jtx, agg,
                       st, own, tx, samples, configs, history>>
        /\ batch' = [batch EXCEPT ![st[t]] = @ \cup hand[t]]
        /\ hand' = [hand EXCEPT ![t] = {}]
        /\ gens' = gens /\ Samples' = Samples
        /\ pc[t] = "enqueue" /\ Control /\ Captured
    BY DEF Enqueue, Samples
  <1>2. PICK w \in {"add", "idle"} :
           /\ Goto(t, w) /\ w = (IF own[t] # 0 THEN "add" ELSE "idle")
    BY DEF Enqueue, Resume
  <1>3. Captured'
    BY <1>1, <1>2, CapturedMove DEF Captured, MayHold
  <1>4. Control'
    BY <1>1, <1>2, CaptureControl DEF CapturePCs
  <1>5. Generations'
    BY <1>1 DEF Generations, Captured
  <1> QED
    BY <1>1, <1>3, <1>4, <1>5 DEF globals, history, Globals, Past

LEMMA TypedFillBatch ==
  ASSUME Typed, NEW t \in Threads, FillBatch(t)
  PROVE  Typed'
  <1> USE DEF Typed
  <1>1. /\ UNCHANGED <<globals, writer, want, gens, store, janitor, bufs, ready, jtx, agg,
                       st, own, samples, configs, saved, discarded, dropped>>
        /\ gens' = gens /\ Samples' = Samples
        /\ pc[t] = "enqueue" /\ Goto(t, "write") /\ Control /\ Captured
    BY DEF FillBatch, Samples
  <1>2. st[t] \in Gens
    BY <1>1, ReqLogLifecycleAssumption DEF Captured, MayHold, Gens, Globals
  <1>3. batch[st[t]] \cup hand[t] \in SUBSET Samples
    BY <1>2 DEF Generations, Captured
  <1>4. /\ tx' = [tx EXCEPT ![t] = batch[st[t]] \cup hand[t]]
        /\ hand' = [hand EXCEPT ![t] = {}]
    BY DEF FillBatch
  <1>5. Captured'
    BY <1>1, <1>3, <1>4, CapturedMove DEF Captured, MayHold
  <1>6. Control'
    BY <1>1, CaptureControl DEF CapturePCs
  <1>7. Generations'
    BY <1>1 DEF FillBatch, Generations
  <1>8. Past'
    BY <1>1 DEF FillBatch, Past
  <1> QED
    BY <1>1, <1>5, <1>6, <1>7, <1>8 DEF globals, Globals

LEMMA TypedWrite ==
  ASSUME Typed, NEW t \in Threads, Write(t)
  PROVE  Typed'
  <1> USE DEF Typed
  <1>1. /\ UNCHANGED <<globals, writer, want, generations, agg, st, own, hand, samples,
                       configs, discarded, owed>>
        /\ tx' = [tx EXCEPT ![t] = {}]
        /\ gens' = gens /\ Samples' = Samples
        /\ pc[t] = "write" /\ Control /\ Captured
    BY DEF Write, generations, Samples
  <1>2. PICK w \in {"add", "idle"} :
           /\ Goto(t, w) /\ w = (IF own[t] # 0 THEN "add" ELSE "idle")
    BY DEF Write, Resume
  <1>3. Captured'
    BY <1>1, <1>2, CapturedMove DEF Captured, MayHold
  <1>4. Control'
    BY <1>1, <1>2, CaptureControl DEF CapturePCs
  <1>5. Past'
    BY <1>1 DEF Write, Written, Past, Captured
  <1> QED
    BY <1>1, <1>3, <1>4, <1>5 DEF globals, generations, Globals, Generations

LEMMA TypedAdd ==
  ASSUME Typed, NEW t \in Threads, Buffer(t) \/ Complete(t) \/ Evict(t)
  PROVE  Typed'
  <1> USE DEF Typed
  <1>1. /\ UNCHANGED <<globals, writer, want, gens, store, batch, janitor, ready, jtx, agg,
                       st, tx, samples, configs, saved, discarded, dropped>>
        /\ gens' = gens /\ Samples' = Samples /\ samples \in Nat /\ samples' = samples
        /\ pc[t] = "add" /\ Control /\ Captured
    BY DEF Buffer, Complete, Evict, history, Samples, Globals
  <1>2. own[t] \in Samples /\ agg[t] \in Gens
    BY <1>1, ReqLogLifecycleAssumption DEF Samples, Gens, Captured, MayHold, Globals
  <1>3. PICK B \in SUBSET Samples : bufs' = [bufs EXCEPT ![agg[t]] = B]
    BY <1>1, <1>2 DEF Buffer, Complete, Evict, Generations
  <1>4. Generations'
    BY <1>1, <1>3 DEF Generations
  <1>5. PICK w \in {"idle", "finalize"} : Goto(t, w)
    BY DEF Buffer, Complete, Evict
  <1>6. Control'
    BY <1>1, <1>5, CaptureControl DEF CapturePCs
  <1>7. Past'
    BY <1>1 DEF Buffer, Complete, Evict, history, Past
  <1>8. Captured'
    <2>1. CASE Buffer(t)
      BY <1>1, <2>1, CapturedMove DEF Buffer, Captured, MayHold
    <2>2. CASE Complete(t)
      <3>1. PICK S \in SUBSET bufs[agg[t]] : hand' = [hand EXCEPT ![t] = S \cup {own[t]}]
        BY <2>2 DEF Complete
      <3>2. S \cup {own[t]} \in SUBSET Samples
        BY <1>2, <3>1 DEF Generations
      <3>3. Goto(t, "finalize") /\ own' = [own EXCEPT ![t] = 0]
        BY <2>2 DEF Complete
      <3>4. tx' = tx /\ tx[t] = {}
        BY <1>1 DEF Captured, MayHold
      <3>5. MayHold("finalize", agg'[t], st'[t], own'[t], hand'[t], tx'[t])
        BY <1>1, <3>3, <3>4 DEF Captured, MayHold
      <3>6. /\ agg' = agg /\ st' = st /\ own' \in [Threads -> 0 .. samples']
            /\ hand' \in [Threads -> SUBSET Samples']
        BY <1>1, <3>1, <3>2, <3>3 DEF Captured
      <3> QED
        BY <1>1, <3>1, <3>3, <3>4, <3>5, <3>6, CapturedMove DEF Captured
    <2>3. CASE Evict(t)
      <3>1. PICK n \in bufs[agg[t]] : hand' = [hand EXCEPT ![t] = {n}]
        BY <2>3 DEF Evict
      <3>2. {n} \in SUBSET Samples
        BY <1>2, <3>1 DEF Generations
      <3>3. Goto(t, "finalize") /\ own' = own
        BY <2>3 DEF Evict
      <3> QED
        BY <1>1, <3>1, <3>2, <3>3, CapturedMove DEF Captured, MayHold
    <2> QED
      BY <2>1, <2>2, <2>3
  <1> QED
    BY <1>1, <1>4, <1>6, <1>7, <1>8 DEF globals, Globals

LEMMA TypedFinalize ==
  ASSUME Typed, NEW g \in Gens, JanitorFinalize(g)
  PROVE  Typed'
  <1> USE DEF Typed
  <1>1. /\ UNCHANGED <<globals, writer, pc, want, gens, store, janitor, bufs, jtx, hosts,
                       configs, saved, dropped, owed>>
        /\ Samples' = Samples
    BY DEF JanitorFinalize, hosts, Samples
  <1>2. PICK n \in ready[g] :
           /\ ready' = [ready EXCEPT ![g] = @ \ {n}]
           /\ \/ discarded' = discarded \cup {n} /\ UNCHANGED batch
              \/ /\ batch' = [batch EXCEPT ![reqLogLive] = @ \cup {n}]
                 /\ UNCHANGED discarded
    BY DEF JanitorFinalize
  <1>3. n \in Samples
    BY DEF Generations
  <1>4. Generations'
    BY <1>1, <1>2, <1>3 DEF Generations
  <1>5. Past'
    BY <1>1, <1>2, <1>3 DEF Past
  <1> QED
    BY <1>1, <1>4, <1>5 DEF globals, hosts, Globals, Control, Captured

LEMMA TypedJanitorBatch ==
  ASSUME Typed, NEW g \in Gens, JanitorFills(g) \/ JanitorWrites(g)
  PROVE  Typed'
  <1> USE DEF Typed
  <1>1. /\ UNCHANGED <<globals, writer, pc, want, gens, store, janitor, bufs, hosts,
                       configs, discarded, owed>>
        /\ Samples' = Samples
    BY DEF JanitorFills, JanitorWrites, hosts, history, Samples
  <1>2. Generations' /\ Past'
    <2>1. CASE JanitorFills(g)
      <3>1. reqLogLive \in Gens
        BY <2>1, ReqLogLifecycleAssumption DEF JanitorFills, Globals, Gens
      <3>2. PICK n \in ready[g] : /\ ready' = [ready EXCEPT ![g] = @ \ {n}]
                                  /\ jtx' = [jtx EXCEPT ![g] = batch[reqLogLive] \cup {n}]
        BY <2>1 DEF JanitorFills
      <3>3. /\ batch' = [batch EXCEPT ![reqLogLive] = {}]
            /\ UNCHANGED <<saved, dropped>>
        BY <2>1 DEF JanitorFills, history
      <3>4. batch[reqLogLive] \cup {n} \in SUBSET Samples
        BY <3>1 DEF Generations
      <3> QED
        BY <1>1, <3>2, <3>3, <3>4 DEF Generations, Past
    <2>2. CASE JanitorWrites(g)
      BY <1>1, <2>2 DEF JanitorWrites, Written, Generations, Past
    <2> QED
      BY <2>1, <2>2
  <1> QED
    BY <1>1, <1>2 DEF globals, hosts, Globals, Control, Captured

\* reqLogMu.Lock() keeps the types.
LEMMA TypedLock ==
  ASSUME Typed, NEW c \in Configurers, Lock(c)
  PROVE  Typed'
  <1> USE DEF Typed
  <1>1. /\ UNCHANGED <<globals, want, generations, hosts, configs, saved, discarded,
                       dropped>>
        /\ pc[c] = "lock" /\ Samples' = Samples
    BY DEF Lock, hosts, Samples
  <1>2. \/ Goto(c, "idle") /\ UNCHANGED <<writer, owed>>
        \/ writer' = c /\ Goto(c, IF want[c].on THEN "closeLog" ELSE "closeAgg")
    BY <1>1, NextStepIs DEF Lock, Proceed
  <1>3. PICK w \in ConfigPCs : Goto(c, w)
    BY <1>2 DEF ConfigPCs
  <1>4. Control'
    BY <1>1, <1>2, <1>3, ConfigControl DEF Control
  <1>5. /\ (IF reqLog = 0 THEN {} ELSE batch[reqLog]) \subseteq Samples
        /\ (IF reqLogAgg = 0 THEN {}
                             ELSE bufs[reqLogAgg] \cup ready[reqLogAgg] \cup jtx[reqLogAgg])
              \subseteq Samples
    BY ReqLogLifecycleAssumption DEF Globals, Generations, Gens
  <1>6. want[c].on \in BOOLEAN
    BY DEF Control
  <1>7. owed' \in [BOOLEAN -> SUBSET Samples]
    BY <1>5, <1>6 DEF Lock, Past
  <1>8. Captured'
    BY <1>1, <1>3, ReqLogLifecycleAssumption
    DEF hosts, generations, Captured, Goto, Control
  <1> QED
    BY <1>1, <1>4, <1>7, <1>8
    DEF globals, generations, hosts, Globals, Generations, Past

\* Every step keeps the types.
LEMMA TypedStep == Typed /\ Generation /\ [Next]_vars => Typed'
  <1> SUFFICES ASSUME Typed, Generation, [Next]_vars PROVE Typed'
    OBVIOUS
  <1> USE ReqLogLifecycleAssumption
  <1> USE DEF CapturePCs, ConfigPCs, Gens, Samples, MayHold, globals, generations, hosts,
              history, Goto, Proceed, LiveAfterClose
  <1>1. ASSUME NEW t \in Threads, NEW step \in {"readLog", "readAgg"}, Call(t, step)
        PROVE  Typed'
    BY <1>1, TypedCall
  <1>2. ASSUME NEW t \in Threads, ReadLog(t)
        PROVE  Typed'
    <2>1. reqLog = reqLogAgg
      BY <1>2 DEF ReadLog, Generation, Phases
    <2> QED
      BY <1>2, <2>1, TypedReads
  <1>3. ASSUME NEW t \in Threads, ReadAgg(t)
        PROVE  Typed'
    <2>1. reqLog = reqLogAgg
      BY <1>3 DEF ReadAgg, Generation, Phases
    <2> QED
      BY <1>3, <2>1, TypedReads
  <1>4. ASSUME NEW t \in Threads, Buffer(t)
        PROVE  Typed'
    BY <1>4, TypedAdd
  <1>5. ASSUME NEW t \in Threads, Complete(t)
        PROVE  Typed'
    BY <1>5, TypedAdd
  <1>6. ASSUME NEW t \in Threads, Evict(t)
        PROVE  Typed'
    BY <1>6, TypedAdd
  <1>7. ASSUME NEW t \in Threads, Load(t)
        PROVE  Typed'
    BY <1>7, TypedLoad
  <1>8. ASSUME NEW t \in Threads, Enqueue(t)
        PROVE  Typed'
    BY <1>8, TypedEnqueue
  <1>9. ASSUME NEW t \in Threads, FillBatch(t) \/ Write(t)
        PROVE  Typed'
    BY <1>9, TypedFillBatch, TypedWrite
  <1>10. ASSUME NEW g \in Gens, Flush(g)
        PROVE  Typed'
    BY <1>10 DEF Flush, Typed, Globals, Control, Generations, Captured, Past
  <1>11. ASSUME NEW g \in Gens, StoreStops(g)
        PROVE  Typed'
    BY <1>11 DEF StoreStops, Typed, Globals, Control, Generations, Captured, Past
  <1>12. ASSUME NEW g \in Gens, Sweep(g)
        PROVE  Typed'
    BY <1>12 DEF Sweep, Typed, Globals, Control, Generations, Captured, Past
  <1>13. ASSUME NEW g \in Gens, FlushAll(g)
        PROVE  Typed'
    BY <1>13 DEF FlushAll, Typed, Globals, Control, Generations, Captured, Past
  <1>14. ASSUME NEW g \in Gens, JanitorFinalize(g)
        PROVE  Typed'
    BY <1>14, TypedFinalize
  <1>15. ASSUME NEW g \in Gens, JanitorFills(g) \/ JanitorWrites(g)
        PROVE  Typed'
    BY <1>15, TypedJanitorBatch
  <1>16. ASSUME NEW g \in Gens, JanitorReturns(g)
        PROVE  Typed'
    BY <1>16
    DEF JanitorReturns, Typed, Globals, Control, Generations, Captured, Past
  <1>17. ASSUME NEW c \in Configurers, NEW on \in BOOLEAN, NEW path \in Paths,
                Configure(c, on, path)
        PROVE  Typed'
    BY <1>17 DEF Configure, Typed, Globals, Control, Generations, Captured, Past
  <1>18. ASSUME NEW c \in Configurers, Lock(c)
        PROVE  Typed'
    BY <1>18, TypedLock
  <1>19. ASSUME NEW c \in Configurers, CloseAgg(c)
        PROVE  Typed'
    BY <1>19 DEF CloseAgg, Typed, Globals, Control, Generations, Captured, Past
  <1>20. ASSUME NEW c \in Configurers, AggClosed(c)
        PROVE  Typed'
    BY <1>20, NextStepIs
    DEF AggClosed, Typed, Globals, Control, Generations, Captured, Past
  <1>21. ASSUME NEW c \in Configurers, CloseLog(c)
        PROVE  Typed'
    BY <1>21 DEF CloseLog, Typed, Globals, Control, Generations, Captured, Past
  <1>22. ASSUME NEW c \in Configurers, LogClosed(c)
        PROVE  Typed'
    BY <1>22, NextStepIs, SMTT(20)
    DEF LogClosed, Typed, Globals, Control, Generations, Captured, Past
  <1>23. ASSUME NEW c \in Configurers, Open(c)
        PROVE  Typed'
    BY <1>23, SMTT(20) DEF Open, Typed, Globals, Control, Generations, Captured, Past
  <1>24. ASSUME NEW c \in Configurers, OpenFails(c)
        PROVE  Typed'
    BY <1>24 DEF OpenFails, Typed, Globals, Control, Generations, Captured, Past
  <1>25. ASSUME NEW c \in Configurers, Unlock(c)
        PROVE  Typed'
    BY <1>25 DEF Unlock, Typed, Globals, Control, Generations, Captured, Past
  <1>26. CASE UNCHANGED vars
    BY <1>26 DEF vars, Typed, Globals, Control, Generations, Captured, Past
  <1> QED
    BY <1>1, <1>2, <1>3, <1>4, <1>5, <1>6, <1>7, <1>8, <1>9, <1>10, <1>11, <1>12, <1>13,
       <1>14, <1>15, <1>16, <1>17, <1>18, <1>19, <1>20, <1>21, <1>22, <1>23, <1>24,
       <1>25, <1>26
    DEF Next, Reads, Captures, Works, Tidies, Reconfigures

-----------------------------------------------------------------------------
(***************************************************************************)
(* One generation                                                          *)
(***************************************************************************)

\* A step that changes neither a store's nor a janitor's state, nor where a
\* reconfiguration is.
Undisturbed ==
    /\ UNCHANGED <<reqLog, reqLogAgg, reqLogLive, writer, want, store, janitor>>
    /\ \A c \in Configurers : pc'[c] = pc[c]

LEMMA GenerationUndisturbed ==
  ASSUME Typed, Generation, Undisturbed
  PROVE  Generation'
  <1> USE DEF Undisturbed
  <1>1. \A step : At(step)' <=> At(step)
    BY DEF At, Typed, Control
  <1>2. Mutex'
    BY DEF Mutex, Generation
  <1> QED
    BY <1>1, <1>2 DEF Generation, OneStore, OneJanitor, Phases

\* Captures do not disturb a reconfiguration.
LEMMA CaptureUndisturbing ==
  ASSUME Typed, NEW t \in Threads,
         (\E step \in {"readLog", "readAgg"} : Call(t, step)) \/ Reads(t) \/ Captures(t)
  PROVE  Undisturbed
  <1>1. PICK w : Goto(t, w)
    BY DEF Call, Reads, ReadLog, ReadAgg, Captures, Buffer, Complete, Evict, Load,
           Enqueue, FillBatch, Write, Resume
  <1>2. UNCHANGED <<reqLog, reqLogAgg, reqLogLive, writer, want, store, janitor>>
    BY DEF Call, Reads, ReadLog, ReadAgg, Captures, Buffer, Complete, Evict, Load,
           Enqueue, FillBatch, Write, globals, generations
  <1> QED
    BY <1>1, <1>2, ReqLogLifecycleAssumption DEF Goto, Undisturbed, Typed, Control

\* Nor do the worker's ticks and the janitor's hands.
Moves(g) ==
    \/ Flush(g) \/ Sweep(g)
    \/ JanitorFinalize(g) \/ JanitorFills(g) \/ JanitorWrites(g)

LEMMA WorkUndisturbing ==
  ASSUME NEW g \in Gens, Moves(g)
  PROVE  Undisturbed
  BY DEF Moves, Flush, Sweep, JanitorFinalize, JanitorFills, JanitorWrites, Undisturbed,
         globals

\* Every step leaves one generation, or one being closed or opened.
LEMMA GenerationStep == Typed /\ Generation /\ [Next]_vars => Generation'
  <1> SUFFICES ASSUME Typed, Generation, [Next]_vars PROVE Generation'
    OBVIOUS
  <1>1. ASSUME NEW t \in Threads,
               (\E step \in {"readLog", "readAgg"} : Call(t, step))
                  \/ Reads(t) \/ Captures(t)
        PROVE  Generation'
    BY <1>1, CaptureUndisturbing, GenerationUndisturbed
  <1>2. ASSUME NEW g \in Gens, Moves(g)
        PROVE  Generation'
    BY <1>2, WorkUndisturbing, GenerationUndisturbed
  <1>3. ASSUME NEW g \in Gens, StoreStops(g)
        PROVE  Generation'
    <2>1. Mutex'
      BY <1>3 DEF StoreStops, Generation, Mutex
    <2>2. OneStore'
      BY <1>3 DEF StoreStops, Generation, OneStore, At, globals
    <2>3. OneJanitor'
      BY <1>3 DEF StoreStops, Generation, OneJanitor, At, globals
    <2>4. Phases'
      BY <1>3 DEF StoreStops, Generation, Phases, At, globals
    <2> QED
      BY <2>1, <2>2, <2>3, <2>4 DEF Generation
  <1>4. ASSUME NEW g \in Gens, FlushAll(g)
        PROVE  Generation'
    <2>1. Mutex'
      BY <1>4 DEF FlushAll, Generation, Mutex
    <2>2. OneStore'
      BY <1>4 DEF FlushAll, Generation, OneStore, At, globals
    <2>3. OneJanitor'
      BY <1>4 DEF FlushAll, Generation, OneJanitor, At, globals
    <2>4. Phases'
      BY <1>4 DEF FlushAll, Generation, Phases, At, globals
    <2> QED
      BY <2>1, <2>2, <2>3, <2>4 DEF Generation
  <1>5. ASSUME NEW g \in Gens, JanitorReturns(g)
        PROVE  Generation'
    <2>1. Mutex'
      BY <1>5 DEF JanitorReturns, Generation, Mutex
    <2>2. OneStore'
      BY <1>5 DEF JanitorReturns, Generation, OneStore, At, globals
    <2>3. OneJanitor'
      BY <1>5 DEF JanitorReturns, Generation, OneJanitor, At, globals
    <2>4. Phases'
      BY <1>5 DEF JanitorReturns, Generation, Phases, At, globals
    <2> QED
      BY <2>1, <2>2, <2>3, <2>4 DEF Generation
  <1>6. ASSUME NEW c \in Configurers, NEW on \in BOOLEAN, NEW path \in Paths,
               Configure(c, on, path)
        PROVE  Generation'
    <2>1. Mutex'
      BY <1>6 DEF Configure, Generation, Mutex, Locked, Goto
    <2>2. OneStore'
      BY <1>6 DEF Configure, Generation, OneStore, At, Goto, globals, generations
    <2>3. OneJanitor'
      BY <1>6 DEF Configure, Generation, OneJanitor, At, Goto, globals, generations
    <2>4. Phases'
      BY <1>6 DEF Configure, Generation, Phases, At, Goto, globals
    <2> QED
      BY <2>1, <2>2, <2>3, <2>4 DEF Generation
  <1>7. ASSUME NEW c \in Configurers, Lock(c)
        PROVE  Generation'
    <2>1. Mutex'
      BY <1>7, ReqLogLifecycleAssumption, NextStepIs
      DEF Lock, Proceed, Typed, Control, Generation, Mutex, Locked, Goto
    <2>2. OneStore'
      BY <1>7 DEF Lock, Generation, OneStore, At, globals, generations
    <2>3. OneJanitor'
      BY <1>7 DEF Lock, Generation, OneJanitor, At, globals, generations
    <2>4. Phases'
      BY <1>7, NextStepIs
      DEF Lock, Proceed, Typed, Control, Generation, Phases, At, Goto, globals
    <2> QED
      BY <2>1, <2>2, <2>3, <2>4 DEF Generation
  <1>8. ASSUME NEW c \in Configurers, CloseAgg(c)
        PROVE  Generation'
    <2>1. Mutex'
      BY <1>8 DEF CloseAgg, Generation, Mutex
    <2>2. OneStore'
      BY <1>8 DEF CloseAgg, Generation, OneStore, At, globals
    <2>3. OneJanitor'
      BY <1>8, ReqLogLifecycleAssumption
      DEF CloseAgg, Generation, Mutex, OneJanitor, At, Locked, globals
    <2>4. Phases'
      BY <1>8 DEF CloseAgg, Generation, Phases, At, globals
    <2> QED
      BY <2>1, <2>2, <2>3, <2>4 DEF Generation
  <1>9. ASSUME NEW c \in Configurers, AggClosed(c)
        PROVE  Generation'
    <2>1. Mutex'
      BY <1>9, NextStepIs DEF AggClosed, Proceed, Generation, Mutex, Locked, Goto
    <2>2. OneStore'
      BY <1>9 DEF AggClosed, Generation, Mutex, OneStore, At, Locked, generations
    <2>3. OneJanitor'
      BY <1>9 DEF AggClosed, Generation, OneJanitor, generations
    <2>4. Phases'
      BY <1>9, ReqLogLifecycleAssumption, NextStepIs
      DEF AggClosed, Proceed, Typed, Control, Generation, Mutex, Phases, At, Locked,
          Goto
    <2> QED
      BY <2>1, <2>2, <2>3, <2>4 DEF Generation
  <1>10. ASSUME NEW c \in Configurers, CloseLog(c)
        PROVE  Generation'
    <2>1. Mutex'
      BY <1>10 DEF CloseLog, Generation, Mutex
    <2>2. OneStore'
      BY <1>10, ReqLogLifecycleAssumption
      DEF CloseLog, Typed, Globals, Generations, Generation, Mutex, OneStore, At,
          Locked, Gens
    <2>3. OneJanitor'
      BY <1>10 DEF CloseLog, Generation, OneJanitor, At
    <2>4. Phases'
      BY <1>10 DEF CloseLog, Generation, Phases, At
    <2> QED
      BY <2>1, <2>2, <2>3, <2>4 DEF Generation
  <1>11. ASSUME NEW c \in Configurers, LogClosed(c)
        PROVE  Generation'
    <2>1. Mutex'
      BY <1>11, NextStepIs DEF LogClosed, Proceed, Generation, Mutex, Locked, Goto
    <2>2. OneStore'
      BY <1>11 DEF LogClosed, Generation, OneStore, generations
    <2>3. OneJanitor'
      BY <1>11 DEF LogClosed, Generation, Mutex, OneJanitor, At, Locked, generations
    <2>4. Phases'
      BY <1>11, ReqLogLifecycleAssumption, NextStepIs
      DEF LogClosed, Proceed, Typed, Control, Generation, Mutex, Phases, At, Locked,
          Goto
    <2> QED
      BY <2>1, <2>2, <2>3, <2>4 DEF Generation
  <1>12. ASSUME NEW c \in Configurers, Open(c)
        PROVE  Generation'
    <2>1. Mutex'
      BY <1>12 DEF Open, Generation, Mutex, Locked, Goto
    <2>2. OneStore'
      BY <1>12, ReqLogLifecycleAssumption
      DEF Open, Typed, Globals, Generations, Generation, Mutex, OneStore, Phases,
          At, Locked, Gens
    <2>3. OneJanitor'
      BY <1>12, ReqLogLifecycleAssumption
      DEF Open, Typed, Globals, Generations, Generation, Mutex, OneJanitor, Phases,
          At, Locked, Gens
    <2>4. Phases'
      BY <1>12 DEF Open, Typed, Control, Generation, Mutex, Phases, At, Locked, Goto
    <2> QED
      BY <2>1, <2>2, <2>3, <2>4 DEF Generation
  <1>13. ASSUME NEW c \in Configurers, OpenFails(c)
        PROVE  Generation'
    <2>1. Mutex'
      BY <1>13 DEF OpenFails, Generation, Mutex, Locked, Goto
    <2>2. OneStore'
      BY <1>13 DEF OpenFails, Generation, OneStore, At, Goto, globals, generations
    <2>3. OneJanitor'
      BY <1>13 DEF OpenFails, Generation, OneJanitor, At, Goto, globals, generations
    <2>4. Phases'
      BY <1>13 DEF OpenFails, Generation, Phases, At, Goto, globals
    <2> QED
      BY <2>1, <2>2, <2>3, <2>4 DEF Generation
  <1>14. ASSUME NEW c \in Configurers, Unlock(c)
        PROVE  Generation'
    <2>1. Mutex'
      BY <1>14, ReqLogLifecycleAssumption
      DEF Unlock, Typed, Control, Generation, Mutex, Locked, Goto
    <2>2. OneStore'
      BY <1>14
      DEF Unlock, Generation, Mutex, OneStore, At, Locked, globals, generations
    <2>3. OneJanitor'
      BY <1>14
      DEF Unlock, Generation, Mutex, OneJanitor, At, Locked, globals, generations
    <2>4. Phases'
      BY <1>14 DEF Unlock, Generation, Mutex, Phases, At, Locked, globals
    <2> QED
      BY <2>1, <2>2, <2>3, <2>4 DEF Generation
  <1>15. CASE UNCHANGED vars
    BY <1>15, GenerationUndisturbed DEF vars, Undisturbed, globals, generations
  <1> QED
    BY <1>1, <1>2, <1>3, <1>4, <1>5, <1>6, <1>7, <1>8, <1>9, <1>10, <1>11, <1>12,
       <1>13, <1>14, <1>15
    DEF Next, Works, Tidies, Moves, Reconfigures

\* Every step leaves only janitors that have not returned with samples.
LEMMA BusyStep == Typed /\ Generation /\ Busy /\ [Next]_vars => Busy'
  <1> SUFFICES ASSUME Typed, Generation, Busy, [Next]_vars PROVE Busy'
    OBVIOUS
  <1>1. ASSUME NEW t \in Threads,
               (\E step \in {"readLog", "readAgg"} : Call(t, step))
                  \/ Reads(t) \/ Captures(t)
        PROVE  Busy'
    <2>1. UNCHANGED <<ready, jtx>>
      BY <1>1
      DEF Call, Reads, ReadLog, ReadAgg, Captures, Buffer, Complete, Evict, Load, Enqueue,
          FillBatch, Write, generations
    <2> QED
      BY <1>1, <2>1, CaptureUndisturbing DEF Undisturbed, Busy
  <1>2. ASSUME NEW g \in Gens, Moves(g)
        PROVE  Busy'
    <2>1. UNCHANGED <<janitor, reqLogLive>>
      BY <1>2, WorkUndisturbing DEF Undisturbed
    <2>2. \A h \in Gens : \/ ready'[h] # {} \/ jtx'[h] # {}
                             => \/ ready[h] # {} \/ jtx[h] # {}
                                \/ janitor[h] \in {"running", "stopping"}
      BY <1>2
      DEF Moves, Flush, Sweep, JanitorFinalize, JanitorFills, JanitorWrites, Typed,
          Generations
    <2>3. \A h \in Gens : jtx'[h] # {} => jtx[h] # {} \/ reqLogLive # 0
      BY <1>2
      DEF Moves, Flush, Sweep, JanitorFinalize, JanitorFills, JanitorWrites, Typed,
          Generations
    <2> QED
      BY <2>1, <2>2, <2>3 DEF Busy
  <1>3. ASSUME NEW g \in Gens, StoreStops(g) \/ FlushAll(g) \/ JanitorReturns(g)
        PROVE  Busy'
    BY <1>3 DEF StoreStops, FlushAll, JanitorReturns, globals, Typed, Generations, Busy
  <1>4. ASSUME NEW c \in Configurers,
               \/ \E on \in BOOLEAN, path \in Paths : Configure(c, on, path)
               \/ Lock(c) \/ AggClosed(c) \/ LogClosed(c) \/ OpenFails(c) \/ Unlock(c)
        PROVE  Busy'
    BY <1>4
    DEF Configure, Lock, AggClosed, LogClosed, OpenFails, Unlock, globals, generations, Busy
  <1>5. ASSUME NEW c \in Configurers, CloseAgg(c)
        PROVE  Busy'
    BY <1>5 DEF CloseAgg, globals, Typed, Generations, Busy
  <1>6. ASSUME NEW c \in Configurers, CloseLog(c)
        PROVE  Busy'
    <2>1. UNCHANGED <<ready, jtx, janitor>> /\ reqLogLive' \in {reqLogLive, 0}
      BY <1>6 DEF CloseLog, LiveAfterClose
    <2>2. CASE want[c].on
      BY <1>6, <2>1, <2>2 DEF CloseLog, LiveAfterClose, Busy
    <2>3. CASE ~want[c].on
      <3>1. reqLogAgg = 0
        BY <1>6, <2>3, ReqLogLifecycleAssumption
        DEF CloseLog, Generation, Mutex, Locked, Phases, At
      <3>2. \A g \in Gens : jtx[g] = {}
        BY <3>1 DEF Generation, OneJanitor, Busy, Gens
      <3> QED
        BY <2>1, <3>2 DEF Busy
    <2> QED
      BY <2>2, <2>3
  <1>7. ASSUME NEW c \in Configurers, Open(c)
        PROVE  Busy'
    <2>1. reqLogLive' # 0
      BY <1>7 DEF Open, Typed, Globals
    <2> QED
      BY <1>7, <2>1 DEF Open, Typed, Generations, Busy
  <1>8. CASE UNCHANGED vars
    BY <1>8 DEF vars, globals, generations, Busy
  <1> QED
    BY <1>1, <1>2, <1>3, <1>4, <1>5, <1>6, <1>7, <1>8
    DEF Next, Works, Tidies, Moves, Reconfigures

LEMMA TypedInit == Init => Typed /\ Generation /\ Busy
  <1> SUFFICES ASSUME Init PROVE Typed /\ Generation /\ Busy
    OBVIOUS
  <1> USE ReqLogLifecycleAssumption DEF Init
  <1>1. Globals /\ Generations /\ Past
    BY DEF Globals, Generations, Past, Samples
  <1>2. Control
    BY DEF Control, CapturePCs, ConfigPCs
  <1>3. Captured
    BY DEF Captured, MayHold, Samples
  <1>4. Generation
    BY DEF Generation, Mutex, Locked, OneStore, OneJanitor, Phases, At
  <1>5. Busy
    BY DEF Busy
  <1> QED
    BY <1>1, <1>2, <1>3, <1>4, <1>5 DEF Typed

LEMMA GenerationAlways == Spec => [](Typed /\ Generation /\ Busy)
  BY TypedInit, TypedStep, GenerationStep, BusyStep, PTL DEF Spec

\* The variables have their types whatever captures and reconfigurations do at
\* once: in particular add and enqueue never find nil where streamAgg,
\* currentReqLog or reqLogLive gave them an aggregator or a store, and a janitor
\* that writes a batch still finds its store in reqLogLive.
THEOREM TypeCorrect == Spec => []TypeOK
  <1>1. Typed /\ Busy => TypeOK
    BY DEF Busy, Typed, Globals, Control, Generations, Captured, MayHold, Past,
           CapturePCs, ConfigPCs, TypeOK
  <1> QED
    BY <1>1, GenerationAlways, PTL

\* However reconfigurations follow on one another and whichever fail to open,
\* once reqLogMu is free there is one store, with one aggregator, or none.
THEOREM OneGenerationLeft == Spec => []OneGeneration
  <1>1. Typed /\ Generation => OneGeneration
    <2> SUFFICES ASSUME Typed, Generation, writer = Nobody PROVE OneGeneration
      BY DEF OneGeneration
    <2>1. ~At("closeLog") /\ ~At("closeAgg") /\ reqLog = reqLogAgg
      BY DEF At, Generation, Phases
    <2>2. reqLog # 0 => reqLog \in Gens
      BY ReqLogLifecycleAssumption DEF Typed, Globals, Gens
    <2> QED
      BY <2>1, <2>2 DEF Generation, OneStore, OneJanitor, OneGeneration, Gens
  <1> QED
    BY <1>1, GenerationAlways, PTL

-----------------------------------------------------------------------------
(***************************************************************************)
(* What a closing log owes                                                 *)
(***************************************************************************)

\* A step takes nothing that is owed out of the log but to save it: it moves on
\* from the buffers to the janitor, to the batch, to the database, or a capture
\* takes it over.  The janitor may take the batch back out to write it.
Onward ==
    /\ owed'[FALSE] \subseteq owed[FALSE]
    /\ saved \subseteq saved'
    /\ At("closeLog") /\ ~want[writer].on =>
          owed'[FALSE] \cap Batched \subseteq saved' \cup Batched'
    /\ At("closeAgg") /\ ~want[writer].on =>
          /\ owed'[FALSE] \cap Batched \subseteq saved' \cup Batched' \cup Taken'
          /\ Taken \subseteq saved' \cup Batched' \cup Taken'
          /\ owed'[FALSE] \cap Buffered \subseteq Buffered' \cup Taken'
          /\ reqLogAgg # 0 /\ janitor[reqLogAgg] = "done" /\ Taken = {} => Taken' = {}

LEMMA OwingOnward ==
  ASSUME Typed, Owing, Undisturbed, Onward
  PROVE  Owing'
  <1> USE DEF Undisturbed, Onward
  <1>1. \A step : At(step)' <=> At(step)
    BY DEF At, Typed, Control
  <1>2. Settled'
    BY <1>1 DEF Owing, Settled
  <1>3. AggOwes'
    BY <1>1 DEF Owing, AggOwes
  <1>4. LogOwes'
    BY <1>1 DEF Owing, LogOwes
  <1> QED
    BY <1>2, <1>3, <1>4 DEF Owing

\* The globals name generations.
LEMMA Named ==
  ASSUME Typed
  PROVE  /\ reqLog # 0 => reqLog \in Gens
         /\ reqLogAgg # 0 => reqLogAgg \in Gens
         /\ \A t \in Threads : pc[t] = "add" => agg[t] \in Gens
         /\ reqLogLive # 0 => reqLogLive \in Gens
         /\ \A t \in Threads : pc[t] \in {"enqueue", "write"} => st[t] \in Gens
  <1>1. ASSUME NEW n \in 0 .. gens, n # 0 PROVE n \in Gens
    BY <1>1, ReqLogLifecycleAssumption DEF Typed, Globals, Gens
  <1> QED
    BY <1>1 DEF Typed, Globals, Captured, MayHold

\* A capture takes what it takes out of a buffer from what is owed, too.
LEMMA CaptureOnward ==
  ASSUME Typed, NEW t \in Threads,
         (\E step \in {"readLog", "readAgg"} : Call(t, step)) \/ Reads(t) \/ Captures(t)
  PROVE  Onward
  <1> USE Named DEF Onward, Batched, Buffered, Taken, generations, history, globals
  <1>1. CASE (\E step \in {"readLog", "readAgg"} : Call(t, step)) \/ Reads(t) \/ Load(t)
    BY <1>1 DEF Call, Reads, ReadLog, ReadAgg, Load
  <1>2. CASE Enqueue(t)
    <2>1. /\ batch' = [batch EXCEPT ![st[t]] = @ \cup hand[t]]
          /\ UNCHANGED <<reqLog, reqLogAgg, bufs, ready, jtx, saved, owed>>
      BY <1>2 DEF Enqueue
    <2>2. \A g \in Gens : batch[g] \subseteq batch'[g]
      BY <2>1 DEF Typed, Generations
    <2> QED
      BY <2>1, <2>2
  <1>3. CASE Buffer(t)
    <2>1. /\ bufs' = [bufs EXCEPT ![agg[t]] = @ \cup {own[t]}]
          /\ UNCHANGED <<reqLog, reqLogAgg, batch, ready, jtx, saved, owed>>
      BY <1>3 DEF Buffer
    <2>2. \A g \in Gens : bufs[g] \subseteq bufs'[g]
      BY <2>1 DEF Typed, Generations
    <2> QED
      BY <2>1, <2>2
  <1>4. CASE Complete(t) \/ Evict(t)
    <2>1. PICK S \in SUBSET bufs[agg[t]] :
             /\ bufs' = [bufs EXCEPT ![agg[t]] = @ \ S]
             /\ owed' = [on \in BOOLEAN |-> owed[on] \ S]
      BY <1>4 DEF Complete, Evict
    <2>2. UNCHANGED <<reqLog, reqLogAgg, batch, ready, jtx, saved>>
      BY <1>4 DEF Complete, Evict
    <2>3. owed'[FALSE] = owed[FALSE] \ S
      BY <2>1
    <2>4. \A g \in Gens : bufs[g] \ S \subseteq bufs'[g]
      BY <2>1 DEF Typed, Generations
    <2> QED
      BY <2>2, <2>3, <2>4
  <1>5. CASE FillBatch(t)
    <2>1. /\ batch' = [batch EXCEPT ![st[t]] = {}]
          /\ owed' = [on \in BOOLEAN |-> owed[on] \ batch[st[t]]]
          /\ UNCHANGED <<reqLog, reqLogAgg, bufs, ready, jtx, saved>>
      BY <1>5 DEF FillBatch
    <2>2. owed'[FALSE] = owed[FALSE] \ batch[st[t]]
      BY <2>1
    <2>3. \A g \in Gens : batch[g] \ batch[st[t]] \subseteq batch'[g]
      BY <2>1 DEF Typed, Generations
    <2> QED
      BY <2>1, <2>2, <2>3
  <1>6. CASE Write(t)
    BY <1>6 DEF Write, Written
  <1> QED
    BY <1>1, <1>2, <1>3, <1>4, <1>5, <1>6 DEF Captures

\* While the log closes its aggregator, the store is open, and in reqLogLive, and
\* no other aggregator has a janitor; when it closes the store, none has.
LEMMA ClosingAgg ==
  ASSUME Typed, Generation, Busy
  PROVE  /\ At("closeAgg") /\ ~want[writer].on =>
               /\ reqLog = reqLogAgg
               /\ reqLogAgg # 0 => reqLogLive = reqLog /\ store[reqLog] = "open"
         /\ At("closeLog") /\ ~want[writer].on => reqLogAgg = 0
         /\ \A g \in Gens : ready[g] # {} \/ jtx[g] # {} => g = reqLogAgg
  BY DEF Generation, Phases, OneStore, OneJanitor, Busy, At

\* The goroutines of a generation move samples on: a janitor finds the store in
\* reqLogLive while the log closes its aggregator.
LEMMA WorkOnward ==
  ASSUME Typed, Generation, Busy, NEW g \in Gens, Moves(g)
  PROVE  Onward
  <1> USE Named DEF Onward, Batched, Buffered, Taken, generations, history, globals
  <1>1. CASE Flush(g)
    <2>1. /\ saved' = saved \cup batch[g] /\ batch' = [batch EXCEPT ![g] = {}]
          /\ UNCHANGED <<reqLog, reqLogAgg, bufs, ready, jtx, owed>>
      BY <1>1 DEF Flush
    <2>2. \A h \in Gens : batch[h] \subseteq saved' \cup batch'[h]
      BY <2>1 DEF Typed, Generations
    <2> QED
      BY <2>1, <2>2
  <1>2. CASE Sweep(g)
    <2>1. PICK S \in SUBSET bufs[g] : /\ ready' = [ready EXCEPT ![g] = S]
                                      /\ bufs' = [bufs EXCEPT ![g] = @ \ S]
      BY <1>2 DEF Sweep
    <2>2. /\ UNCHANGED <<reqLog, reqLogAgg, batch, jtx, saved, owed>>
          /\ ready[g] = {} /\ janitor[g] \in {"running", "stopping"}
      BY <1>2 DEF Sweep
    <2>3. \A h \in Gens : /\ bufs[h] \subseteq bufs'[h] \cup ready'[h]
                          /\ ready[h] \subseteq ready'[h]
                          /\ h # g => ready'[h] = ready[h]
      BY <2>1, <2>2 DEF Typed, Generations
    <2> QED
      BY <2>2, <2>3
  <1>3. CASE JanitorFinalize(g)
    <2>1. PICK n \in ready[g] :
             /\ ready' = [ready EXCEPT ![g] = @ \ {n}]
             /\ reqLogLive # 0 => batch' = [batch EXCEPT ![reqLogLive] = @ \cup {n}]
             /\ reqLogLive = 0 => batch' = batch
      BY <1>3 DEF JanitorFinalize
    <2>2. UNCHANGED <<reqLog, reqLogAgg, bufs, jtx, saved, owed>>
      BY <1>3 DEF JanitorFinalize
    <2>3. \A h \in Gens : /\ batch[h] \subseteq batch'[h]
                          /\ h = reqLogLive => n \in batch'[h]
                          /\ ready[h] \subseteq ready'[h] \cup {n}
                          /\ ready'[h] \subseteq ready[h]
                          /\ h # g => ready'[h] = ready[h]
      <3>1. CASE reqLogLive = 0
        BY <2>1, <3>1 DEF Typed, Generations, Gens
      <3>2. CASE reqLogLive # 0
        BY <2>1, <3>2 DEF Typed, Generations
      <3> QED
        BY <3>1, <3>2
    <2>4. Taken \subseteq saved' \cup Batched' \cup Taken' \/ ~At("closeAgg") \/ want[writer].on
      BY <2>2, <2>3, ClosingAgg
    <2>5. Batched \subseteq Batched' /\ Buffered \subseteq Buffered' /\ Taken' \subseteq Taken
      BY <2>2, <2>3
    <2> QED
      BY <2>2, <2>4, <2>5
  <1>4. CASE JanitorFills(g)
    <2>1. PICK n \in ready[g] : /\ ready' = [ready EXCEPT ![g] = @ \ {n}]
                                /\ jtx' = [jtx EXCEPT ![g] = batch[reqLogLive] \cup {n}]
      BY <1>4 DEF JanitorFills
    <2>2. /\ batch' = [batch EXCEPT ![reqLogLive] = {}] /\ g = reqLogAgg
          /\ UNCHANGED <<reqLog, reqLogAgg, bufs, saved, owed>>
      BY <1>4, ClosingAgg DEF JanitorFills
    <2>3. /\ ready[g] \subseteq ready'[g] \cup jtx'[g] /\ jtx[g] = {}
          /\ batch[reqLogLive] \subseteq jtx'[g]
      BY <1>4, <2>1 DEF JanitorFills, Typed, Generations
    <2>4. reqLogAgg # 0 /\ reqLogAgg' = g
      BY <2>2 DEF Gens
    <2>5. Taken = ready[g] /\ Taken' = ready'[g] \cup jtx'[g]
      BY <2>2, <2>3, <2>4
    <2>6. Taken \subseteq Taken' /\ Taken # {} /\ Buffered = Buffered'
      BY <2>1, <2>2, <2>3, <2>4, <2>5
    <2>7. CASE At("closeAgg") /\ ~want[writer].on
      <3>1. Batched \subseteq Taken'
        BY <2>2, <2>3, <2>7, ClosingAgg
      <3> QED
        BY <2>2, <2>6, <2>7, <3>1 DEF At
    <2>8. CASE ~At("closeAgg") \/ want[writer].on
      <3>1. ~(At("closeLog") /\ ~want[writer].on)
        BY <2>4, ClosingAgg
      <3> QED
        BY <2>2, <2>8, <3>1
    <2> QED
      BY <2>7, <2>8
  <1>5. CASE JanitorWrites(g)
    <2>1. /\ jtx' = [jtx EXCEPT ![g] = {}] /\ g = reqLogAgg
          /\ saved \subseteq saved'
          /\ store[reqLogLive] = "open" => jtx[g] \subseteq saved'
          /\ UNCHANGED <<reqLog, reqLogAgg, batch, bufs, ready, owed>>
      BY <1>5, ClosingAgg DEF JanitorWrites, Written
    <2>2. jtx'[g] = {}
      BY <2>1 DEF Typed, Generations
    <2> QED
      BY <2>1, <2>2, ClosingAgg
  <1> QED
    BY <1>1, <1>2, <1>3, <1>4, <1>5 DEF Moves

\* Every step pays what a closing log owes, or leaves it where it will be paid.
LEMMA OwingStep == Typed /\ Generation /\ Busy /\ Owing /\ [Next]_vars => Owing'
  <1> SUFFICES ASSUME Typed, Generation, Busy, Owing, [Next]_vars PROVE Owing'
    OBVIOUS
  <1>1. ASSUME NEW t \in Threads,
               (\E step \in {"readLog", "readAgg"} : Call(t, step))
                  \/ Reads(t) \/ Captures(t)
        PROVE  Owing'
    BY <1>1, CaptureUndisturbing, CaptureOnward, OwingOnward
  <1>2. ASSUME NEW g \in Gens, Moves(g)
        PROVE  Owing'
    BY <1>2, WorkUndisturbing, WorkOnward, OwingOnward
  <1>3. ASSUME NEW g \in Gens, StoreStops(g)
        PROVE  Owing'
    <2>1. Settled'
      BY <1>3 DEF StoreStops, At, Owing, Settled
    <2>2. AggOwes'
      BY <1>3
      DEF StoreStops, Generation, OneStore, At, globals, Owing, AggOwes, Batched,
          Buffered, Taken
    <2>3. LogOwes'
      BY <1>3 DEF StoreStops, Generation, OneStore, At, Owing, LogOwes, Batched
    <2> QED
      BY <2>1, <2>2, <2>3 DEF Owing
  <1>4. ASSUME NEW g \in Gens, FlushAll(g)
        PROVE  Owing'
    <2>1. Settled'
      BY <1>4 DEF FlushAll, At, history, Owing, Settled
    <2>2. AggOwes'
      BY <1>4
      DEF FlushAll, Typed, Generations, Generation, OneJanitor, At, globals,
          history, Owing, AggOwes, Batched, Buffered, Taken
    <2>3. LogOwes'
      BY <1>4 DEF FlushAll, At, globals, history, Owing, LogOwes, Batched
    <2> QED
      BY <2>1, <2>2, <2>3 DEF Owing
  <1>5. ASSUME NEW g \in Gens, JanitorReturns(g)
        PROVE  Owing'
    <2>1. Settled'
      BY <1>5 DEF JanitorReturns, At, history, Owing, Settled
    <2>2. AggOwes'
      BY <1>5
      DEF JanitorReturns, Generation, OneJanitor, At, globals, history, Owing,
          AggOwes, Batched, Buffered, Taken
    <2>3. LogOwes'
      BY <1>5 DEF JanitorReturns, At, globals, history, Owing, LogOwes, Batched
    <2> QED
      BY <2>1, <2>2, <2>3 DEF Owing
  <1>6. ASSUME NEW c \in Configurers, NEW on \in BOOLEAN, NEW path \in Paths,
               Configure(c, on, path)
        PROVE  Owing'
    <2>1. Settled'
      BY <1>6
      DEF Configure, Typed, Control, Generation, Mutex, At, Locked, Goto, history,
          Owing, Settled
    <2>2. AggOwes'
      BY <1>6
      DEF Configure, Typed, Control, At, Goto, globals, generations, history, Owing,
          AggOwes, Batched, Buffered, Taken
    <2>3. LogOwes'
      BY <1>6
      DEF Configure, Typed, Control, At, Goto, globals, generations, history, Owing,
          LogOwes, Batched
    <2> QED
      BY <2>1, <2>2, <2>3 DEF Owing
  <1>7. ASSUME NEW c \in Configurers, Lock(c)
        PROVE  Owing'
    <2>1. /\ writer = Nobody /\ want[c].on \in BOOLEAN /\ owed[FALSE] \subseteq saved
          /\ UNCHANGED <<reqLog, reqLogAgg, want, janitor, batch, bufs, ready, jtx, saved>>
      BY <1>7 DEF Lock, globals, generations, Typed, Control, Owing, Settled
    <2>2. CASE UNCHANGED <<writer, owed>>
      BY <2>1, <2>2 DEF Owing, Settled, AggOwes, LogOwes, At
    <2>3. CASE /\ writer' = c /\ Proceed(c)
               /\ owed' = [owed EXCEPT ![want[c].on] = @ \cup Batched \cup
                            (IF reqLogAgg = 0 THEN {} ELSE bufs[reqLogAgg] \cup ready[reqLogAgg]
                                                              \cup jtx[reqLogAgg])]
      <3>1. /\ writer' # Nobody
            /\ pc'[writer'] = IF want[c].on THEN "closeLog" ELSE "closeAgg"
        BY <1>7, <2>3, NextStepIs, ReqLogLifecycleAssumption
        DEF Lock, Proceed, Goto, Typed, Control
      <3>2. CASE want[c].on
        <4>1. owed'[FALSE] = owed[FALSE]
          BY <2>1, <2>3, <3>2 DEF Typed, Past
        <4> QED
          BY <2>1, <2>3, <3>1, <3>2, <4>1 DEF Owing, Settled, AggOwes, LogOwes, At
      <3>3. CASE ~want[c].on
        <4>1. owed'[FALSE] \subseteq saved' \cup Batched' \cup Buffered' \cup Taken'
          BY <2>1, <2>3, <3>3, ZenonT(30) DEF Typed, Past, Batched, Buffered, Taken
        <4>2. reqLogAgg # 0 => janitor[reqLogAgg] = "running"
          BY <2>1 DEF Generation, OneJanitor, At
        <4> QED
          BY <2>1, <2>3, <3>1, <3>3, <4>1, <4>2
          DEF Owing, Settled, AggOwes, LogOwes, At
      <3> QED
        BY <3>2, <3>3
    <2> QED
      BY <1>7, <2>2, <2>3 DEF Lock, Batched
  <1>8. ASSUME NEW c \in Configurers, CloseAgg(c)
        PROVE  Owing'
    <2>1. /\ reqLogAgg \in Gens /\ janitor' = [janitor EXCEPT ![reqLogAgg] = "stopping"]
          /\ UNCHANGED <<reqLog, reqLogAgg, writer, pc, want, store, batch, bufs, ready,
                         jtx, saved, owed>>
      BY <1>8, Named DEF CloseAgg, globals, history
    <2>2. janitor'[reqLogAgg'] = "stopping"
      BY <2>1 DEF Typed, Generations
    <2>3. Settled' /\ LogOwes'
      BY <2>1 DEF Owing, Settled, LogOwes, At, Batched
    <2>4. AggOwes'
      BY <2>1, <2>2 DEF Owing, AggOwes, At, Batched, Buffered, Taken
    <2> QED
      BY <2>3, <2>4 DEF Owing
  <1>9. ASSUME NEW c \in Configurers, AggClosed(c)
        PROVE  Owing'
    <2>1. Settled'
      BY <1>9, NextStepIs
      DEF AggClosed, Proceed, Typed, Control, At, Goto, history, Owing, Settled
    <2>2. AggOwes'
      BY <1>9
      DEF AggClosed, Generation, Mutex, At, Locked, generations, history, Owing,
          AggOwes, Batched, Buffered, Taken
    <2>3. LogOwes'
      BY <1>9
      DEF AggClosed, Generation, Mutex, OneStore, At, Locked, generations, history,
          Owing, AggOwes, LogOwes, Batched, Buffered, Taken
    <2> QED
      BY <2>1, <2>2, <2>3 DEF Owing
  <1>10. ASSUME NEW c \in Configurers, CloseLog(c)
        PROVE  Owing'
    <2>1. /\ reqLog \in Gens /\ store' = [store EXCEPT ![reqLog] = "stopping"]
          /\ UNCHANGED <<reqLog, reqLogAgg, writer, pc, want, janitor, batch, bufs, ready,
                         jtx, saved, owed>>
      BY <1>10, Named DEF CloseLog, history
    <2>2. store'[reqLog'] = "stopping"
      BY <2>1 DEF Typed, Generations
    <2>3. Settled' /\ AggOwes'
      BY <2>1 DEF Owing, Settled, AggOwes, At, Batched, Buffered, Taken
    <2>4. LogOwes'
      BY <2>1, <2>2 DEF Owing, LogOwes, At, Batched
    <2> QED
      BY <2>3, <2>4 DEF Owing
  <1>11. ASSUME NEW c \in Configurers, LogClosed(c)
        PROVE  Owing'
    <2>1. Settled'
      BY <1>11
      DEF LogClosed, Generation, Mutex, At, Locked, history, Owing, Settled,
          LogOwes, Batched
    <2>2. AggOwes'
      BY <1>11
      DEF LogClosed, Generation, Mutex, Phases, At, Locked, history, Owing, AggOwes,
          LogOwes, Batched
    <2>3. LogOwes'
      BY <1>11
      DEF LogClosed, Generation, Mutex, At, Locked, history, Owing, LogOwes, Batched
    <2> QED
      BY <2>1, <2>2, <2>3 DEF Owing
  <1>12. ASSUME NEW c \in Configurers, Open(c)
        PROVE  Owing'
    <2>1. Settled'
      BY <1>12 DEF Open, Generation, Mutex, Locked, history, Owing, Settled
    <2>2. AggOwes'
      BY <1>12 DEF Open, Generation, Mutex, Locked, AggOwes
    <2>3. LogOwes'
      BY <1>12 DEF Open, Generation, Mutex, Locked, LogOwes
    <2> QED
      BY <2>1, <2>2, <2>3 DEF Owing
  <1>13. ASSUME NEW c \in Configurers, OpenFails(c)
        PROVE  Owing'
    <2>1. Settled'
      BY <1>13 DEF OpenFails, Generation, Mutex, Locked, history, Owing, Settled
    <2>2. AggOwes'
      BY <1>13 DEF OpenFails, Generation, Mutex, Locked, AggOwes
    <2>3. LogOwes'
      BY <1>13 DEF OpenFails, Generation, Mutex, Locked, LogOwes
    <2> QED
      BY <2>1, <2>2, <2>3 DEF Owing
  <1>14. ASSUME NEW c \in Configurers, Unlock(c)
        PROVE  Owing'
    <2>1. Settled'
      BY <1>14 DEF Unlock, Generation, Mutex, At, Locked, history, Owing, Settled
    <2>2. AggOwes'
      BY <1>14 DEF Unlock, At, AggOwes
    <2>3. LogOwes'
      BY <1>14 DEF Unlock, At, LogOwes
    <2> QED
      BY <2>1, <2>2, <2>3 DEF Owing
  <1>15. CASE UNCHANGED vars
    BY <1>15
    DEF vars, At, globals, generations, history, Owing, Settled, AggOwes, LogOwes,
        Batched, Buffered, Taken
  <1> QED
    BY <1>1, <1>2, <1>3, <1>4, <1>5, <1>6, <1>7, <1>8, <1>9, <1>10, <1>11, <1>12,
       <1>13, <1>14, <1>15
    DEF Next, Works, Tidies, Moves, Reconfigures

LEMMA OwingInit == Init => Owing
  BY ReqLogLifecycleAssumption DEF Init, Owing, Settled, AggOwes, LogOwes, At

\* When reqLogMu is free, everything that a log held when it was disabled is in
\* its database, but for what captures took out meanwhile: buffers that they
\* evicted or completed, and the batch that one of them filled.
THEOREM DisablingSavesAll == Spec => []DisableKeepsAll
  <1>1. Owing => DisableKeepsAll
    BY DEF Owing, Settled, DisableKeepsAll
  <1> QED
    BY <1>1, OwingInit, OwingStep, GenerationAlways, PTL DEF Spec

-----------------------------------------------------------------------------
(***************************************************************************)
(* Every sample is in one place                                            *)
(***************************************************************************)

\* Two holders of the same kind, of the same goroutine or generation, are one.
LEMMA SameHolder ==
  ASSUME NEW h \in Holders, NEW k \in Holders, h.kind = k.kind, h.of = k.of
  PROVE  h = k
  <1>1. h = [kind |-> h.kind, of |-> h.of] /\ k = [kind |-> k.kind, of |-> k.of]
    BY DEF Holders
  <1> QED
    BY <1>1

\* A sample has one holder at most.
LEMMA OneHolder ==
  ASSUME SampleOnce, NEW n \in Samples, NEW h \in Holders, NEW k \in Holders,
         n \in HeldBy(h), n \in HeldBy(k)
  PROVE  h = k
  BY DEF SampleOnce

\* What h holds, X, becomes Y when the samples of M leave the holders of F for to.
Moved(X, Y, h, M, F, to) ==
    Y = IF h = to THEN X \cup M ELSE IF h \in F THEN X \ M ELSE X

\* The samples of M leave the holders of F for to.
MovesTo(M, F, to) == \A h \in Holders : Moved(HeldBy(h), HeldBy(h)', h, M, F, to)

\* Samples that move on stay in one place.
LEMMA MoveOnce ==
  ASSUME SampleOnce, Samples' = Samples, NEW to \in Holders,
         NEW F \in SUBSET (Holders \ {to}), NEW M \in SUBSET Samples,
         \A n \in M : \E f \in F : n \in HeldBy(f),
         MovesTo(M, F, to)
  PROVE  SampleOnce'
  <1> SUFFICES ASSUME NEW n \in Samples
               PROVE  \E h \in Holders : /\ n \in HeldBy(h)'
                                         /\ \A other \in Holders \ {h} : n \notin HeldBy(other)'
    BY DEF SampleOnce
  <1>1. CASE n \in M
    <2>1. PICK f \in F : n \in HeldBy(f)
      BY <1>1
    <2>2. n \in HeldBy(to)'
      BY <1>1 DEF MovesTo, Moved
    <2>3. ASSUME NEW other \in Holders \ {to} PROVE n \notin HeldBy(other)'
      <3>1. CASE other = f
        BY <1>1, <2>1, <3>1 DEF MovesTo, Moved
      <3>2. CASE other # f
        BY <2>1, <3>2, <2>3, OneHolder DEF MovesTo, Moved
      <3> QED
        BY <3>1, <3>2
    <2> QED
      BY <2>2, <2>3
  <1>2. CASE n \notin M
    <2>1. \A h \in Holders : n \in HeldBy(h)' <=> n \in HeldBy(h)
      BY <1>2 DEF MovesTo, Moved
    <2> QED
      BY <2>1 DEF SampleOnce
  <1> QED
    BY <1>1, <1>2

\* A sample that is captured is in one place.
LEMMA NewOnce ==
  ASSUME SampleOnce, NEW n, n \notin Samples, Samples' = Samples \cup {n}, NEW to \in Holders,
         \A h \in Holders : HeldBy(h) \subseteq Samples,
         MovesTo({n}, {}, to)
  PROVE  SampleOnce'
  <1> SUFFICES ASSUME NEW m \in Samples'
               PROVE  \E h \in Holders : /\ m \in HeldBy(h)'
                                         /\ \A other \in Holders \ {h} : m \notin HeldBy(other)'
    BY DEF SampleOnce
  <1>1. \A h \in Holders : HeldBy(h)' = IF h = to THEN HeldBy(h) \cup {n} ELSE HeldBy(h)
    BY DEF MovesTo, Moved
  <1>2. CASE m = n
    BY <1>1, <1>2
  <1>3. CASE m # n
    <2>1. m \in Samples /\ \A h \in Holders : m \in HeldBy(h)' <=> m \in HeldBy(h)
      BY <1>1, <1>3
    <2> QED
      BY <2>1 DEF SampleOnce
  <1> QED
    BY <1>2, <1>3

\* The holders, kind by kind.
Own(t) == [kind |-> "own", of |-> t]
Hand(t) == [kind |-> "hand", of |-> t]
Bufs(g) == [kind |-> "bufs", of |-> g]
Tx(t) == [kind |-> "tx", of |-> t]
Ready(g) == [kind |-> "ready", of |-> g]
Jtx(g) == [kind |-> "jtx", of |-> g]
Batch(g) == [kind |-> "batch", of |-> g]
Saved == [kind |-> "saved", of |-> Nobody]
Discarded == [kind |-> "discarded", of |-> Nobody]
Dropped == [kind |-> "dropped", of |-> Nobody]

LEMMA HolderCases ==
  ASSUME NEW h \in Holders
  PROVE  \/ \E t \in Threads : h = Own(t) \/ h = Hand(t) \/ h = Tx(t)
         \/ \E g \in Gens : h = Bufs(g) \/ h = Ready(g) \/ h = Jtx(g) \/ h = Batch(g)
         \/ h = Saved \/ h = Discarded \/ h = Dropped
  BY DEF Holders, Own, Hand, Tx, Bufs, Ready, Jtx, Batch, Saved, Discarded, Dropped

LEMMA AreHolders ==
  /\ \A t \in Threads : Own(t) \in Holders /\ Hand(t) \in Holders /\ Tx(t) \in Holders
  /\ \A g \in Gens : /\ Bufs(g) \in Holders /\ Ready(g) \in Holders
                     /\ Jtx(g) \in Holders /\ Batch(g) \in Holders
  /\ Saved \in Holders /\ Discarded \in Holders /\ Dropped \in Holders
  BY DEF Holders, Own, Hand, Tx, Bufs, Ready, Jtx, Batch, Saved, Discarded, Dropped

\* Distinct holders.
LEMMA Distinct ==
  /\ \A t, u : /\ Own(t) = Own(u) => t = u
               /\ Hand(t) = Hand(u) => t = u
               /\ Tx(t) = Tx(u) => t = u
               /\ Bufs(t) = Bufs(u) => t = u
               /\ Ready(t) = Ready(u) => t = u
               /\ Jtx(t) = Jtx(u) => t = u
               /\ Batch(t) = Batch(u) => t = u
               /\ Own(t) # Hand(u) /\ Own(t) # Tx(u) /\ Own(t) # Bufs(u)
               /\ Own(t) # Ready(u) /\ Own(t) # Jtx(u) /\ Own(t) # Batch(u)
               /\ Own(t) # Saved /\ Own(t) # Discarded /\ Own(t) # Dropped
               /\ Hand(t) # Tx(u) /\ Hand(t) # Bufs(u) /\ Hand(t) # Ready(u)
               /\ Hand(t) # Jtx(u) /\ Hand(t) # Batch(u) /\ Hand(t) # Saved
               /\ Hand(t) # Discarded /\ Hand(t) # Dropped
               /\ Tx(t) # Bufs(u) /\ Tx(t) # Ready(u) /\ Tx(t) # Jtx(u)
               /\ Tx(t) # Batch(u) /\ Tx(t) # Saved /\ Tx(t) # Discarded
               /\ Tx(t) # Dropped
               /\ Bufs(t) # Ready(u) /\ Bufs(t) # Jtx(u) /\ Bufs(t) # Batch(u)
               /\ Bufs(t) # Saved /\ Bufs(t) # Discarded /\ Bufs(t) # Dropped
               /\ Ready(t) # Jtx(u) /\ Ready(t) # Batch(u) /\ Ready(t) # Saved
               /\ Ready(t) # Discarded /\ Ready(t) # Dropped
               /\ Jtx(t) # Batch(u) /\ Jtx(t) # Saved /\ Jtx(t) # Discarded
               /\ Jtx(t) # Dropped
               /\ Batch(t) # Saved /\ Batch(t) # Discarded /\ Batch(t) # Dropped
  /\ Saved # Discarded /\ Saved # Dropped /\ Discarded # Dropped
  BY DEF Own, Hand, Tx, Bufs, Ready, Jtx, Batch, Saved, Discarded, Dropped

\* What they hold.
LEMMA Holds ==
  /\ \A t : HeldBy(Own(t)) = {own[t]} \ {0} /\ HeldBy(Hand(t)) = hand[t]
            /\ HeldBy(Tx(t)) = tx[t]
  /\ \A g : HeldBy(Bufs(g)) = bufs[g] /\ HeldBy(Ready(g)) = ready[g]
            /\ HeldBy(Jtx(g)) = jtx[g] /\ HeldBy(Batch(g)) = batch[g]
  /\ HeldBy(Saved) = saved /\ HeldBy(Discarded) = discarded /\ HeldBy(Dropped) = dropped
  BY DEF HeldBy, Own, Hand, Tx, Bufs, Ready, Jtx, Batch, Saved, Discarded, Dropped

LEMMA HoldsNext ==
  /\ \A t : HeldBy(Own(t))' = {own'[t]} \ {0} /\ HeldBy(Hand(t))' = hand'[t]
            /\ HeldBy(Tx(t))' = tx'[t]
  /\ \A g : HeldBy(Bufs(g))' = bufs'[g] /\ HeldBy(Ready(g))' = ready'[g]
            /\ HeldBy(Jtx(g))' = jtx'[g] /\ HeldBy(Batch(g))' = batch'[g]
  /\ HeldBy(Saved)' = saved' /\ HeldBy(Discarded)' = discarded' /\ HeldBy(Dropped)' = dropped'
  BY DEF HeldBy, Own, Hand, Tx, Bufs, Ready, Jtx, Batch, Saved, Discarded, Dropped

\* A move, kind by kind.
MovesByKind(M, F, to) ==
    /\ \A t \in Threads : /\ Moved({own[t]} \ {0}, {own'[t]} \ {0}, Own(t), M, F, to)
                          /\ Moved(hand[t], hand'[t], Hand(t), M, F, to)
                          /\ Moved(tx[t], tx'[t], Tx(t), M, F, to)
    /\ \A g \in Gens : /\ Moved(bufs[g], bufs'[g], Bufs(g), M, F, to)
                       /\ Moved(ready[g], ready'[g], Ready(g), M, F, to)
                       /\ Moved(jtx[g], jtx'[g], Jtx(g), M, F, to)
                       /\ Moved(batch[g], batch'[g], Batch(g), M, F, to)
    /\ Moved(saved, saved', Saved, M, F, to)
    /\ Moved(discarded, discarded', Discarded, M, F, to)
    /\ Moved(dropped, dropped', Dropped, M, F, to)

LEMMA MovesKinds ==
  ASSUME NEW M, NEW F, NEW to, MovesByKind(M, F, to)
  PROVE  MovesTo(M, F, to)
  <1> SUFFICES ASSUME NEW h \in Holders
               PROVE  Moved(HeldBy(h), HeldBy(h)', h, M, F, to)
    BY DEF MovesTo
  <1>1. CASE \E t \in Threads : h = Own(t) \/ h = Hand(t) \/ h = Tx(t)
    <2>1. PICK t \in Threads : h = Own(t) \/ h = Hand(t) \/ h = Tx(t)
      BY <1>1
    <2>2. CASE h = Own(t)
      BY <2>2, Holds, HoldsNext DEF MovesByKind
    <2>3. CASE h = Hand(t)
      <3>1. HeldBy(h) = hand[t] /\ HeldBy(h)' = hand'[t]
        BY <2>3, Holds, HoldsNext
      <3>2. Moved(hand[t], hand'[t], Hand(t), M, F, to)
        BY DEF MovesByKind
      <3> QED
        BY <2>3, <3>1, <3>2
    <2>4. CASE h = Tx(t)
      <3>1. HeldBy(h) = tx[t] /\ HeldBy(h)' = tx'[t]
        BY <2>4, Holds, HoldsNext
      <3>2. Moved(tx[t], tx'[t], Tx(t), M, F, to)
        BY DEF MovesByKind
      <3> QED
        BY <2>4, <3>1, <3>2
    <2> QED
      BY <2>1, <2>2, <2>3, <2>4
  <1>2. CASE \E g \in Gens : h = Bufs(g) \/ h = Ready(g) \/ h = Jtx(g) \/ h = Batch(g)
    BY <1>2, Holds, HoldsNext DEF MovesByKind
  <1>3. CASE h = Saved \/ h = Discarded \/ h = Dropped
    BY <1>3, Holds, HoldsNext DEF MovesByKind
  <1> QED
    BY <1>1, <1>2, <1>3, HolderCases

\* Every holder holds samples.
LEMMA HeldAreSamples ==
  ASSUME Typed, NEW h \in Holders
  PROVE  HeldBy(h) \subseteq Samples
  <1>1. \A t \in Threads : {own[t]} \ {0} \subseteq Samples
    BY DEF Typed, Globals, Captured, Samples
  <1> QED
    BY <1>1, HolderCases, Holds DEF Typed, Captured, Generations, Past

\* Nothing moves.
LEMMA OnceUnmoved ==
  ASSUME SampleOnce, UNCHANGED <<own, hand, tx, samples, bufs, ready, jtx, batch, saved, discarded, dropped>>
  PROVE  SampleOnce'
  BY DEF SampleOnce, Samples, HeldBy

\* What a host goroutine captures, buffers, takes out and enqueues.
LEMMA OnceReads ==
  ASSUME Typed, SampleOnce, NEW t \in Threads, ReadLog(t) \/ ReadAgg(t)
  PROVE  SampleOnce'
  <1>1. /\ UNCHANGED <<bufs, ready, jtx, batch, saved, discarded, dropped>> /\ samples \in Nat
        /\ own[t] = 0 /\ hand[t] = {}
    BY DEF ReadLog, ReadAgg, generations, history, Typed, Globals, Captured, MayHold
  <1>2. CASE UNCHANGED hosts
    BY <1>1, <1>2, OnceUnmoved DEF hosts
  <1>3. samples' = samples + 1 => samples' \notin Samples /\ Samples' = Samples \cup {samples'}
    BY <1>1 DEF Samples
  <1>4. CASE /\ samples' = samples + 1 /\ hand' = [hand EXCEPT ![t] = {samples'}]
             /\ UNCHANGED <<own, tx>>
    <2>1. \A u \in Threads : hand'[u] = IF u = t THEN {samples'} ELSE hand[u]
      BY <1>4 DEF Typed, Captured
    <2>2. MovesByKind({samples'}, {}, Hand(t))
      BY <1>1, <1>4, <2>1, Distinct DEF MovesByKind, Moved
    <2> QED
      BY <1>3, <1>4, <2>2, MovesKinds, NewOnce, HeldAreSamples, AreHolders
  <1>5. CASE /\ samples' = samples + 1 /\ own' = [own EXCEPT ![t] = samples']
             /\ UNCHANGED <<hand, tx>>
    <2>1. \A u \in Threads : {own'[u]} \ {0} = IF u = t THEN {samples'} ELSE {own[u]} \ {0}
      BY <1>1, <1>5 DEF Typed, Captured
    <2>2. MovesByKind({samples'}, {}, Own(t))
      BY <1>1, <1>5, <2>1, Distinct DEF MovesByKind, Moved
    <2> QED
      BY <1>3, <1>5, <2>2, MovesKinds, NewOnce, HeldAreSamples, AreHolders
  <1> QED
    BY <1>2, <1>4, <1>5 DEF ReadLog, ReadAgg

LEMMA OnceEnqueue ==
  ASSUME Typed, SampleOnce, NEW t \in Threads, Enqueue(t)
  PROVE  SampleOnce'
  <1>1. /\ UNCHANGED <<own, tx, bufs, ready, jtx, saved, discarded, dropped>> /\ Samples' = Samples
        /\ st[t] \in Gens
    BY Named DEF Enqueue, history, Samples
  <1>2. /\ \A u \in Threads : hand'[u] = IF u = t THEN {} ELSE hand[u]
        /\ \A g \in Gens : batch'[g] = IF g = st[t] THEN batch[g] \cup hand[t] ELSE batch[g]
    BY DEF Enqueue, Typed, Captured, Generations
  <1>3. MovesByKind(hand[t], {Hand(t)}, Batch(st[t]))
    BY <1>1, <1>2, Distinct DEF MovesByKind, Moved
  <1>4. hand[t] \in SUBSET Samples /\ \A n \in hand[t] : n \in HeldBy(Hand(t))
    BY Holds DEF Typed, Captured
  <1>5. Batch(st[t]) \in Holders /\ {Hand(t)} \in SUBSET (Holders \ {Batch(st[t])})
    BY <1>1, Distinct, AreHolders
  <1> QED
    BY <1>1, <1>3, <1>4, <1>5, MovesKinds, MoveOnce

LEMMA OnceFillBatch ==
  ASSUME Typed, SampleOnce, NEW t \in Threads, FillBatch(t)
  PROVE  SampleOnce'
  <1>1. /\ UNCHANGED <<own, bufs, ready, jtx, saved, discarded, dropped>>
        /\ Samples' = Samples /\ st[t] \in Gens /\ tx[t] = {}
    BY Named DEF FillBatch, Samples, Typed, Captured, MayHold
  <1> DEFINE M == batch[st[t]] \cup hand[t]
             F == {Hand(t), Batch(st[t])}
  <1>2. /\ \A u \in Threads : hand'[u] = IF u = t THEN {} ELSE hand[u]
        /\ \A u \in Threads : tx'[u] = IF u = t THEN M ELSE tx[u]
        /\ \A g \in Gens : batch'[g] = IF g = st[t] THEN {} ELSE batch[g]
    BY DEF FillBatch, Typed, Captured, Generations
  <1>3. M \in SUBSET Samples /\ \A n \in M : \E f \in F : n \in HeldBy(f)
    BY <1>1, Holds DEF Typed, Captured, Generations
  <1>4. Tx(t) \in Holders /\ F \in SUBSET (Holders \ {Tx(t)})
    BY <1>1, Distinct, AreHolders
  <1>5. MovesByKind(M, F, Tx(t))
    BY <1>1, <1>2, Distinct, ZenonT(30) DEF MovesByKind, Moved
  <1> HIDE DEF M, F
  <1> QED
    BY <1>1, <1>3, <1>4, <1>5, MovesKinds, MoveOnce

LEMMA OnceWrite ==
  ASSUME Typed, SampleOnce, NEW t \in Threads, Write(t)
  PROVE  SampleOnce'
  <1>1. UNCHANGED <<own, hand, bufs, ready, jtx, batch, discarded>> /\ Samples' = Samples
    BY DEF Write, generations, Samples
  <1>2. \A u \in Threads : tx'[u] = IF u = t THEN {} ELSE tx[u]
    BY DEF Write, Typed, Captured
  <1>3. tx[t] \in SUBSET Samples /\ \A n \in tx[t] : n \in HeldBy(Tx(t))
    BY Holds DEF Typed, Captured
  <1>4. CASE dropped' = dropped \cup tx[t] /\ UNCHANGED saved
    <2>1. MovesByKind(tx[t], {Tx(t)}, Dropped)
      BY <1>1, <1>2, <1>4, Distinct DEF MovesByKind, Moved
    <2>2. Dropped \in Holders /\ {Tx(t)} \in SUBSET (Holders \ {Dropped})
      BY Distinct, AreHolders
    <2> QED
      BY <1>1, <1>3, <2>1, <2>2, MovesKinds, MoveOnce
  <1>5. CASE saved' = saved \cup tx[t] /\ UNCHANGED dropped
    <2>1. MovesByKind(tx[t], {Tx(t)}, Saved)
      BY <1>1, <1>2, <1>5, Distinct DEF MovesByKind, Moved
    <2>2. Saved \in Holders /\ {Tx(t)} \in SUBSET (Holders \ {Saved})
      BY Distinct, AreHolders
    <2> QED
      BY <1>1, <1>3, <2>1, <2>2, MovesKinds, MoveOnce
  <1> QED
    BY <1>4, <1>5 DEF Write, Written

LEMMA OnceBuffer ==
  ASSUME Typed, SampleOnce, NEW t \in Threads, Buffer(t)
  PROVE  SampleOnce'
  <1>1. /\ UNCHANGED <<hand, tx, ready, jtx, batch, saved, discarded, dropped>> /\ Samples' = Samples
        /\ agg[t] \in Gens /\ own[t] # 0
    BY Named DEF Buffer, history, Samples, Typed, Captured, MayHold
  <1>2. /\ \A u \in Threads : {own'[u]} \ {0} = IF u = t THEN {} ELSE {own[u]} \ {0}
        /\ \A g \in Gens : bufs'[g] = IF g = agg[t] THEN bufs[g] \cup {own[t]} ELSE bufs[g]
    BY DEF Buffer, Typed, Captured, Generations
  <1>3. MovesByKind({own[t]}, {Own(t)}, Bufs(agg[t]))
    BY <1>1, <1>2, Distinct DEF MovesByKind, Moved
  <1>4. {own[t]} \in SUBSET Samples /\ \A n \in {own[t]} : n \in HeldBy(Own(t))
    BY <1>1, Holds, HeldAreSamples, AreHolders
  <1>5. Bufs(agg[t]) \in Holders /\ {Own(t)} \in SUBSET (Holders \ {Bufs(agg[t])})
    BY <1>1, Distinct, AreHolders
  <1> QED
    BY <1>1, <1>3, <1>4, <1>5, MovesKinds, MoveOnce

LEMMA OnceComplete ==
  ASSUME Typed, SampleOnce, NEW t \in Threads, Complete(t)
  PROVE  SampleOnce'
  <1>1. /\ UNCHANGED <<tx, ready, jtx, batch, saved, discarded, dropped>> /\ Samples' = Samples
        /\ agg[t] \in Gens /\ own[t] # 0 /\ hand[t] = {}
    BY Named DEF Complete, Samples, Typed, Captured, MayHold
  <1>2. PICK S \in SUBSET bufs[agg[t]] :
           /\ hand' = [hand EXCEPT ![t] = S \cup {own[t]}]
           /\ bufs' = [bufs EXCEPT ![agg[t]] = @ \ S]
    BY DEF Complete
  <1>3. own' = [own EXCEPT ![t] = 0]
    BY DEF Complete
  <1> DEFINE M == S \cup {own[t]}
             F == {Own(t), Bufs(agg[t])}
  <1>4. S \in SUBSET Samples /\ own[t] \in Samples
    BY <1>1 DEF Typed, Captured, Generations, Samples, Globals
  <1>5. ASSUME NEW g \in Gens, own[t] \in bufs[g] PROVE FALSE
    <2>1. own[t] \in HeldBy(Own(t)) /\ own[t] \in HeldBy(Bufs(g))
      BY <1>1, <1>5, Holds
    <2>2. Own(t) = Bufs(g)
      BY <1>4, <2>1, OneHolder, AreHolders
    <2> QED
      BY <2>2, Distinct
  <1>6. /\ \A u \in Threads : {own'[u]} \ {0} = IF u = t THEN {} ELSE {own[u]} \ {0}
        /\ \A u \in Threads : hand'[u] = IF u = t THEN M ELSE hand[u]
        /\ \A g \in Gens : bufs'[g] = IF g = agg[t] THEN bufs[g] \ M ELSE bufs[g]
    BY <1>2, <1>3, <1>5, ZenonT(30) DEF Typed, Captured, Generations
  <1>7. MovesByKind(M, F, Hand(t))
    BY <1>1, <1>6, Distinct, ZenonT(30) DEF MovesByKind, Moved
  <1>8. M \in SUBSET Samples /\ \A n \in M : \E f \in F : n \in HeldBy(f)
    BY <1>1, <1>2, <1>4, Holds
  <1>9. Hand(t) \in Holders /\ F \in SUBSET (Holders \ {Hand(t)})
    BY <1>1, Distinct, AreHolders
  <1> HIDE DEF M, F
  <1> QED
    BY <1>1, <1>7, <1>8, <1>9, MovesKinds, MoveOnce

LEMMA OnceEvict ==
  ASSUME Typed, SampleOnce, NEW t \in Threads, Evict(t)
  PROVE  SampleOnce'
  <1>1. /\ UNCHANGED <<own, tx, ready, jtx, batch, saved, discarded, dropped>> /\ Samples' = Samples
        /\ agg[t] \in Gens /\ hand[t] = {}
    BY Named DEF Evict, Samples, Typed, Captured, MayHold
  <1>2. PICK n \in bufs[agg[t]] :
           /\ hand' = [hand EXCEPT ![t] = {n}]
           /\ bufs' = [bufs EXCEPT ![agg[t]] = @ \ {n}]
    BY DEF Evict
  <1>3. /\ \A u \in Threads : hand'[u] = IF u = t THEN {n} ELSE hand[u]
        /\ \A g \in Gens : bufs'[g] = IF g = agg[t] THEN bufs[g] \ {n} ELSE bufs[g]
    BY <1>2 DEF Typed, Captured, Generations
  <1>4. MovesByKind({n}, {Bufs(agg[t])}, Hand(t))
    BY <1>1, <1>3, Distinct, ZenonT(30) DEF MovesByKind, Moved
  <1>5. {n} \in SUBSET Samples /\ \A m \in {n} : m \in HeldBy(Bufs(agg[t]))
    BY <1>1, Holds DEF Typed, Generations
  <1>6. Hand(t) \in Holders /\ {Bufs(agg[t])} \in SUBSET (Holders \ {Hand(t)})
    BY <1>1, Distinct, AreHolders, SMTT(20)
  <1> QED
    BY <1>1, <1>4, <1>5, <1>6, MovesKinds, MoveOnce

LEMMA OnceLoad ==
  ASSUME Typed, SampleOnce, NEW t \in Threads, Load(t)
  PROVE  SampleOnce'
  <1>1. /\ UNCHANGED <<own, tx, bufs, ready, jtx, batch, saved, dropped>> /\ samples' = samples
        /\ Samples' = Samples
    BY DEF Load, generations, Samples
  <1>2. CASE UNCHANGED <<hand, discarded>>
    BY <1>1, <1>2, OnceUnmoved
  <1>3. CASE discarded' = discarded \cup hand[t] /\ hand' = [hand EXCEPT ![t] = {}]
    <2>1. \A u \in Threads : hand'[u] = IF u = t THEN {} ELSE hand[u]
      BY <1>3 DEF Typed, Captured
    <2>2. MovesByKind(hand[t], {Hand(t)}, Discarded)
      BY <1>1, <1>3, <2>1, Distinct DEF MovesByKind, Moved
    <2>3. hand[t] \in SUBSET Samples /\ \A n \in hand[t] : n \in HeldBy(Hand(t))
      BY Holds DEF Typed, Captured
    <2>4. Discarded \in Holders /\ {Hand(t)} \in SUBSET (Holders \ {Discarded})
      BY Distinct, AreHolders
    <2> QED
      BY <1>1, <2>2, <2>3, <2>4, MovesKinds, MoveOnce
  <1> QED
    BY <1>2, <1>3 DEF Load

\* What the worker writes.
LEMMA OnceFlush ==
  ASSUME Typed, SampleOnce, NEW g \in Gens, Flush(g) \/ StoreStops(g)
  PROVE  SampleOnce'
  <1>1. /\ UNCHANGED <<own, hand, tx, bufs, ready, jtx, discarded, dropped>> /\ Samples' = Samples
        /\ saved' = saved \cup batch[g]
    BY DEF Flush, StoreStops, hosts, Samples
  <1>2. \A h \in Gens : batch'[h] = IF h = g THEN {} ELSE batch[h]
    BY DEF Flush, StoreStops, Typed, Generations
  <1>3. MovesByKind(batch[g], {Batch(g)}, Saved)
    BY <1>1, <1>2, Distinct DEF MovesByKind, Moved
  <1>4. batch[g] \in SUBSET Samples /\ \A n \in batch[g] : n \in HeldBy(Batch(g))
    BY Holds DEF Typed, Generations
  <1>5. Saved \in Holders /\ {Batch(g)} \in SUBSET (Holders \ {Saved})
    BY Distinct, AreHolders
  <1> QED
    BY <1>1, <1>3, <1>4, <1>5, MovesKinds, MoveOnce

\* What the janitor takes out, and finalizes.
LEMMA OnceSweep ==
  ASSUME Typed, SampleOnce, NEW g \in Gens, Sweep(g) \/ FlushAll(g)
  PROVE  SampleOnce'
  <1>1. /\ UNCHANGED <<own, hand, tx, jtx, batch, saved, discarded, dropped>> /\ Samples' = Samples
        /\ ready[g] = {}
    BY DEF Sweep, FlushAll, hosts, history, Samples
  <1>2. PICK S \in SUBSET bufs[g] : /\ ready' = [ready EXCEPT ![g] = S]
                                    /\ bufs' = [bufs EXCEPT ![g] = @ \ S]
    <2>1. CASE FlushAll(g)
      <3>1. bufs[g] \ bufs[g] = {}
        OBVIOUS
      <3> QED
        BY <2>1, <3>1 DEF FlushAll
    <2> QED
      BY <2>1 DEF Sweep
  <1>3. \A h \in Gens : /\ ready'[h] = IF h = g THEN S ELSE ready[h]
                        /\ bufs'[h] = IF h = g THEN bufs[h] \ S ELSE bufs[h]
    BY <1>2 DEF Typed, Generations
  <1>4. MovesByKind(S, {Bufs(g)}, Ready(g))
    BY <1>1, <1>3, Distinct DEF MovesByKind, Moved
  <1>5. S \in SUBSET Samples /\ \A n \in S : n \in HeldBy(Bufs(g))
    BY Holds DEF Typed, Generations
  <1>6. Ready(g) \in Holders /\ {Bufs(g)} \in SUBSET (Holders \ {Ready(g)})
    BY Distinct, AreHolders
  <1> QED
    BY <1>1, <1>4, <1>5, <1>6, MovesKinds, MoveOnce

LEMMA OnceFinalize ==
  ASSUME Typed, SampleOnce, NEW g \in Gens, JanitorFinalize(g)
  PROVE  SampleOnce'
  <1>1. UNCHANGED <<own, hand, tx, bufs, jtx, saved, dropped>> /\ Samples' = Samples
    BY DEF JanitorFinalize, hosts, Samples
  <1>2. PICK n \in ready[g] :
           /\ ready' = [ready EXCEPT ![g] = @ \ {n}]
           /\ IF reqLogLive = 0
                 THEN discarded' = discarded \cup {n} /\ UNCHANGED batch
                 ELSE /\ batch' = [batch EXCEPT ![reqLogLive] = @ \cup {n}]
                      /\ UNCHANGED discarded
    BY DEF JanitorFinalize
  <1>3. \A h \in Gens : ready'[h] = IF h = g THEN ready[h] \ {n} ELSE ready[h]
    BY <1>2 DEF Typed, Generations
  <1>4. {n} \in SUBSET Samples /\ \A m \in {n} : m \in HeldBy(Ready(g))
    BY Holds DEF Typed, Generations
  <1>5. CASE reqLogLive = 0
    <2>1. MovesByKind({n}, {Ready(g)}, Discarded)
      BY <1>1, <1>2, <1>3, <1>5, Distinct DEF MovesByKind, Moved
    <2>2. Discarded \in Holders /\ {Ready(g)} \in SUBSET (Holders \ {Discarded})
      BY Distinct, AreHolders
    <2> QED
      BY <1>1, <1>4, <2>1, <2>2, MovesKinds, MoveOnce
  <1>6. CASE reqLogLive # 0
    <2>1. reqLogLive \in Gens
      BY <1>6, ReqLogLifecycleAssumption DEF Typed, Globals, Gens
    <2>2. \A h \in Gens : batch'[h] = IF h = reqLogLive THEN batch[h] \cup {n} ELSE batch[h]
      BY <1>2, <1>6 DEF Typed, Generations
    <2>3. MovesByKind({n}, {Ready(g)}, Batch(reqLogLive))
      BY <1>1, <1>2, <1>3, <1>6, <2>2, Distinct DEF MovesByKind, Moved
    <2>4. /\ Batch(reqLogLive) \in Holders
          /\ {Ready(g)} \in SUBSET (Holders \ {Batch(reqLogLive)})
      BY <2>1, Distinct, AreHolders
    <2> QED
      BY <1>1, <1>4, <2>3, <2>4, MovesKinds, MoveOnce
  <1> QED
    BY <1>5, <1>6

LEMMA OnceJanitorFills ==
  ASSUME Typed, SampleOnce, NEW g \in Gens, JanitorFills(g)
  PROVE  SampleOnce'
  <1>1. /\ UNCHANGED <<own, hand, tx, bufs, saved, discarded, dropped>>
        /\ Samples' = Samples /\ reqLogLive \in Gens /\ jtx[g] = {}
    BY Named DEF JanitorFills, hosts, history, Samples
  <1>2. PICK n \in ready[g] : /\ ready' = [ready EXCEPT ![g] = @ \ {n}]
                              /\ jtx' = [jtx EXCEPT ![g] = batch[reqLogLive] \cup {n}]
    BY DEF JanitorFills
  <1> DEFINE M == batch[reqLogLive] \cup {n}
             F == {Ready(g), Batch(reqLogLive)}
  <1>3. ASSUME NEW m \in batch[reqLogLive], m \in ready[g] PROVE FALSE
    <2>1. m \in HeldBy(Ready(g)) /\ m \in HeldBy(Batch(reqLogLive)) /\ m \in Samples
      BY <1>3, Holds DEF Typed, Generations
    <2>2. Ready(g) = Batch(reqLogLive)
      BY <1>1, <2>1, OneHolder, AreHolders
    <2> QED
      BY <2>2, Distinct
  <1>4. batch' = [batch EXCEPT ![reqLogLive] = {}]
    BY DEF JanitorFills
  <1>5. /\ \A h \in Gens : ready'[h] = IF h = g THEN ready[h] \ M ELSE ready[h]
        /\ \A h \in Gens : jtx'[h] = IF h = g THEN M ELSE jtx[h]
        /\ \A h \in Gens : batch'[h] = IF h = reqLogLive THEN batch[h] \ M ELSE batch[h]
    BY <1>2, <1>3, <1>4, ZenonT(30) DEF Typed, Generations
  <1>6. M \in SUBSET Samples /\ \A m \in M : \E f \in F : m \in HeldBy(f)
    BY <1>1, Holds DEF Typed, Generations
  <1>7. Jtx(g) \in Holders /\ F \in SUBSET (Holders \ {Jtx(g)})
    BY <1>1, Distinct, AreHolders
  <1>8. MovesByKind(M, F, Jtx(g))
    BY <1>1, <1>5, Distinct, ZenonT(30) DEF MovesByKind, Moved
  <1> HIDE DEF M, F
  <1> QED
    BY <1>1, <1>6, <1>7, <1>8, MovesKinds, MoveOnce

LEMMA OnceJanitorWrites ==
  ASSUME Typed, SampleOnce, NEW g \in Gens, JanitorWrites(g)
  PROVE  SampleOnce'
  <1>1. UNCHANGED <<own, hand, tx, bufs, ready, batch, discarded>> /\ Samples' = Samples
    BY DEF JanitorWrites, hosts, Samples
  <1>2. \A h \in Gens : jtx'[h] = IF h = g THEN {} ELSE jtx[h]
    BY DEF JanitorWrites, Typed, Generations
  <1>3. jtx[g] \in SUBSET Samples /\ \A n \in jtx[g] : n \in HeldBy(Jtx(g))
    BY Holds DEF Typed, Generations
  <1>4. CASE dropped' = dropped \cup jtx[g] /\ UNCHANGED saved
    <2>1. MovesByKind(jtx[g], {Jtx(g)}, Dropped)
      BY <1>1, <1>2, <1>4, Distinct DEF MovesByKind, Moved
    <2>2. Dropped \in Holders /\ {Jtx(g)} \in SUBSET (Holders \ {Dropped})
      BY Distinct, AreHolders
    <2> QED
      BY <1>1, <1>3, <2>1, <2>2, MovesKinds, MoveOnce
  <1>5. CASE saved' = saved \cup jtx[g] /\ UNCHANGED dropped
    <2>1. MovesByKind(jtx[g], {Jtx(g)}, Saved)
      BY <1>1, <1>2, <1>5, Distinct DEF MovesByKind, Moved
    <2>2. Saved \in Holders /\ {Jtx(g)} \in SUBSET (Holders \ {Saved})
      BY Distinct, AreHolders
    <2> QED
      BY <1>1, <1>3, <2>1, <2>2, MovesKinds, MoveOnce
  <1> QED
    BY <1>4, <1>5 DEF JanitorWrites, Written

LEMMA OnceStep == Typed /\ SampleOnce /\ [Next]_vars => SampleOnce'
  <1> SUFFICES ASSUME Typed, SampleOnce, [Next]_vars PROVE SampleOnce'
    OBVIOUS
  <1>1. ASSUME NEW t \in Threads, Reads(t) \/ Captures(t)
        PROVE  SampleOnce'
    BY <1>1, OnceReads, OnceEnqueue, OnceFillBatch, OnceWrite, OnceBuffer, OnceComplete,
       OnceEvict, OnceLoad
    DEF Reads, Captures
  <1>2. ASSUME NEW g \in Gens, Works(g) \/ Moves(g) \/ FlushAll(g)
        PROVE  SampleOnce'
    BY <1>2, OnceFlush, OnceSweep, OnceFinalize, OnceJanitorFills, OnceJanitorWrites
    DEF Works, Moves
  <1>3. ASSUME NEW g \in Gens, JanitorReturns(g)
        PROVE  SampleOnce'
    BY <1>3, OnceUnmoved DEF JanitorReturns, hosts, history
  <1>4. ASSUME NEW t \in Threads, NEW step \in {"readLog", "readAgg"}, Call(t, step)
        PROVE  SampleOnce'
    BY <1>4, OnceUnmoved DEF Call, generations, hosts, history
  <1>5. ASSUME NEW c \in Configurers, NEW on \in BOOLEAN, NEW path \in Paths,
               Configure(c, on, path)
        PROVE  SampleOnce'
    BY <1>5, OnceUnmoved DEF Configure, generations, hosts, history
  <1>6. ASSUME NEW c \in Configurers, Lock(c) \/ Reconfigures(c)
        PROVE  SampleOnce'
    BY <1>6, OnceUnmoved
    DEF Lock, Reconfigures, CloseAgg, AggClosed, CloseLog, LogClosed, Open,
        OpenFails, Unlock, generations, hosts, history
  <1>7. CASE UNCHANGED vars
    BY <1>7, OnceUnmoved DEF vars, generations, hosts, history
  <1> QED
    BY <1>1, <1>2, <1>3, <1>4, <1>5, <1>6, <1>7 DEF Next, Tidies, Moves

LEMMA OnceInit == Init => SampleOnce
  BY DEF Init, SampleOnce, Samples

\* No sample is duplicated, and none vanishes: not when its store is replaced, not
\* when its buffer is evicted, flushed or completed at the same time.
THEOREM SamplesInOnePlace == Spec => []SampleOnce
  BY OnceInit, OnceStep, GenerationAlways, PTL DEF Spec
=============================================================================
