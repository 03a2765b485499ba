------------------------- MODULE ReqLogStoreProofs -------------------------
(***************************************************************************)
(* Proofs about ReqLogStore, for any set of request halves, any finite set *)
(* of host goroutines and any batch size.                                  *)
(***************************************************************************)
EXTENDS ReqLogStore, FiniteSetTheorems, TLAPS

-----------------------------------------------------------------------------
(***************************************************************************)
(* Type correctness                                                        *)
(*                                                                         *)
(* The row an upsert leaves is the maximum of a set, which has to exist.   *)
(* That every non-empty set of samples has one is carried along as an      *)
(* invariant of its own: it is kept when one more sample is appended.      *)
(***************************************************************************)

MaxExists ==
    \A S \in SUBSET Samples :
        S # {} => \E m \in S : \A n \in S : n <= m

TypeInv == TypeOK /\ MaxExists

\* Sets of samples are finite.
LEMMA SamplesFinite ==
  ASSUME TypeOK, NEW S \in SUBSET Samples
  PROVE  IsFiniteSet(S) /\ Cardinality(S) \in Nat
  <1>1. Len(keys) \in Nat
    BY DEF TypeOK
  <1>2. IsFiniteSet(Samples)
    BY <1>1, FS_Interval DEF Samples
  <1> QED
    BY <1>2, FS_Subset, FS_CardinalityType

\* The sample that an upsert leaves in a row is one of those it wrote to that
\* row, and none of them is later.
LEMMA LatestExists ==
  ASSUME TypeInv, NEW S \in SUBSET Samples, NEW k, \E n \in S : keys[n] = k
  PROVE  /\ Latest(S, k) \in S
         /\ keys[Latest(S, k)] = k
         /\ \A m \in S : keys[m] = k => m <= Latest(S, k)
  <1> DEFINE T == {n \in S : keys[n] = k}
  <1>1. PICK m \in T : \A n \in T : n <= m
    BY DEF TypeInv, MaxExists
  <1>2. m \in S /\ keys[m] = k /\ \A n \in S : keys[n] = k => n <= m
    BY <1>1
  <1> QED
    BY <1>2 DEF Latest

\* The next control state of a goroutine that leaves flush.
LEMMA AfterFlushType ==
  ASSUME NEW a \in Actors
  PROVE  /\ AfterFlush(a) \in {"idle", "done", "prune"}
         /\ a \in Threads => AfterFlush(a) = "idle"
         /\ a = Worker => AfterFlush(a) \in {"done", "prune"}
  BY ReqLogStoreAssumption DEF AfterFlush, Actors

\* A batch that was given up leaves everything well typed.
LEMMA GiveUpType ==
  ASSUME TypeOK, NEW a \in Actors, NEW n \in Nat, GiveUp(a, n)
  PROVE  TypeOK'
  <1>1. hold[a] \subseteq Samples
    BY DEF TypeOK
  <1>2. hold' \in [Actors -> SUBSET Samples]
    BY DEF GiveUp, TypeOK
  <1>3. lost' \subseteq Samples
    BY <1>1 DEF GiveUp, TypeOK
  <1>4. /\ pc' \in [Actors -> {"idle", "count", "countFull", "flush", "begin",
                               "write", "select", "prune", "done"}]
        /\ \A t \in Threads : pc'[t] \notin {"select", "prune", "done"}
        /\ pc'[Worker] \notin {"idle", "count", "countFull"}
        /\ \A b \in Actors : hold'[b] # {} <=> pc'[b] \in {"begin", "write"}
    BY AfterFlushType, ReqLogStoreAssumption DEF GiveUp, TypeOK, Actors
  <1>5. Samples' = Samples
    BY DEF GiveUp, Samples
  <1>6. dropped' \in Nat
    BY DEF GiveUp, TypeOK
  <1> QED
    BY <1>2, <1>3, <1>4, <1>5, <1>6 DEF GiveUp, TypeOK, closeVars

LEMMA TypeEnqueue ==
  ASSUME TypeInv, NEW t \in Threads, NEW k \in Keys, EnqueueSample(t, k)
  PROVE  TypeInv'
  <1>1. /\ keys' \in Seq(Keys) /\ Len(keys) \in Nat
        /\ Len(keys') = Len(keys) + 1
    BY DEF EnqueueSample, TypeInv, TypeOK
  <1>2. Samples' = Samples \cup {Len(keys) + 1}
    BY <1>1 DEF Samples
  <1>3. /\ pc' \in [Actors -> {"idle", "count", "countFull", "flush", "begin",
                               "write", "select", "prune", "done"}]
        /\ \A u \in Threads : pc'[u] \notin {"select", "prune", "done"}
        /\ pc'[Worker] \notin {"idle", "count", "countFull"}
        /\ \A a \in Actors : hold'[a] # {} <=> pc'[a] \in {"begin", "write"}
    BY ReqLogStoreAssumption DEF EnqueueSample, TypeInv, TypeOK, Actors
  <1>4. /\ batch' \subseteq Samples'
        /\ hold' \in [Actors -> SUBSET Samples']
        /\ committed' \subseteq Samples' /\ lost' \subseteq Samples'
        /\ raced' \subseteq Samples'
    BY <1>2 DEF EnqueueSample, dbVars, TypeInv, TypeOK
  <1>5. /\ table' \in [Keys -> 0 .. Len(keys')]
        /\ expired' \in 0 .. Len(keys') /\ atStop' \in 0 .. Len(keys')
    BY <1>1 DEF EnqueueSample, dbVars, closeVars, TypeInv, TypeOK
  <1>6. TypeOK'
    BY <1>1, <1>3, <1>4, <1>5 DEF EnqueueSample, dbVars, closeVars, TypeInv, TypeOK
  <1>7. MaxExists'
    <2> SUFFICES ASSUME NEW S \in SUBSET Samples', S # {}
                 PROVE  \E m \in S : \A n \in S : n <= m
      BY DEF MaxExists
    <2>1. CASE Len(keys) + 1 \in S
      BY <1>1, <1>2, <2>1 DEF Samples
    <2>2. CASE Len(keys) + 1 \notin S
      BY <1>2, <2>2 DEF TypeInv, MaxExists
    <2> QED
      BY <2>1, <2>2
  <1> QED
    BY <1>6, <1>7 DEF TypeInv

LEMMA TypeCommit ==
  ASSUME TypeInv, NEW a \in Actors, Commit(a)
  PROVE  TypeOK'
  <1>1. PICK ok \in SUBSET hold[a] :
           /\ table' = [k \in Keys |-> IF \E n \in ok : keys[n] = k
                                          THEN Latest(ok, k)
                                          ELSE table[k]]
           /\ written' = written + Cardinality(ok)
           /\ committed' = committed \cup ok
           /\ lost' = lost \cup (hold[a] \ ok)
    BY DEF Commit
  <1>2. ok \in SUBSET Samples /\ hold[a] \in SUBSET Samples
    BY DEF TypeInv, TypeOK
  <1>3. table' \in [Keys -> 0 .. Len(keys)]
    <2> SUFFICES ASSUME NEW k \in Keys
                 PROVE  (IF \E n \in ok : keys[n] = k THEN Latest(ok, k)
                                                      ELSE table[k]) \in 0 .. Len(keys)
      BY <1>1
    <2>1. ASSUME \E n \in ok : keys[n] = k PROVE Latest(ok, k) \in 0 .. Len(keys)
      <3>1. Latest(ok, k) \in Samples
        BY <1>2, <2>1, LatestExists
      <3> QED
        BY <3>1 DEF Samples, TypeInv, TypeOK
    <2> QED
      BY <2>1 DEF TypeInv, TypeOK
  <1>4. written' \in Nat
    <2>1. TypeOK /\ written \in Nat
      BY DEF TypeInv, TypeOK
    <2>2. Cardinality(ok) \in Nat
      BY <1>2, <2>1, SamplesFinite
    <2> QED
      BY <1>1, <2>1, <2>2
  <1>5. /\ pc' \in [Actors -> {"idle", "count", "countFull", "flush", "begin",
                               "write", "select", "prune", "done"}]
        /\ \A t \in Threads : pc'[t] \notin {"select", "prune", "done"}
        /\ pc'[Worker] \notin {"idle", "count", "countFull"}
        /\ \A b \in Actors : hold'[b] # {} <=> pc'[b] \in {"begin", "write"}
    BY AfterFlushType, ReqLogStoreAssumption DEF Commit, TypeInv, TypeOK, Actors
  <1>6. hold' \in [Actors -> SUBSET Samples]
    BY DEF Commit, TypeInv, TypeOK
  <1>7. committed' \subseteq Samples /\ lost' \subseteq Samples
    BY <1>1, <1>2 DEF TypeInv, TypeOK
  <1>8. Samples' = Samples /\ UNCHANGED <<keys, batch, final, queued, dropped,
                                          expired, raced, stop, closed, atStop>>
    BY DEF Commit, Samples, closeVars
  <1> QED
    BY <1>3, <1>4, <1>5, <1>6, <1>7, <1>8 DEF TypeInv, TypeOK

\* The steps of flush that any goroutine takes.
LEMMA TypeFlush ==
  ASSUME TypeInv, NEW a \in Actors, FlushStep(a)
  PROVE  TypeOK'
  <1> USE DEF TypeInv
  <1>1. CASE Swap(a)
    <2>1. raced' \subseteq Samples
      BY <1>1 DEF Swap, Raced, TypeOK
    <2> QED
      BY <1>1, <2>1, ReqLogStoreAssumption
      DEF Swap, TypeOK, Samples, dbVars, closeVars, Actors
  <1>2. CASE NothingToFlush(a)
    BY <1>2, AfterFlushType, ReqLogStoreAssumption
    DEF NothingToFlush, TypeOK, Samples, dbVars, closeVars, Actors
  <1>3. CASE Begin(a)
    BY <1>3, ReqLogStoreAssumption DEF Begin, TypeOK, Samples, dbVars, closeVars, Actors
  <1>4. CASE BeginFails(a)
    <2>1. Cardinality(hold[a]) \in Nat
      BY SamplesFinite DEF TypeOK
    <2> QED
      BY <1>4, <2>1, GiveUpType DEF BeginFails
  <1>5. CASE CommitFails(a)
    <2>1. PICK ok \in SUBSET hold[a] : GiveUp(a, Cardinality(hold[a] \ ok))
      BY <1>5 DEF CommitFails
    <2>2. Cardinality(hold[a] \ ok) \in Nat
      BY SamplesFinite DEF TypeOK
    <2> QED
      BY <2>1, <2>2, GiveUpType
  <1>6. CASE Commit(a)
    BY <1>6, TypeCommit
  <1> QED
    BY <1>1, <1>2, <1>3, <1>4, <1>5, <1>6 DEF FlushStep

LEMMA TypeStep == TypeInv /\ [Next]_vars => TypeInv'
  <1> SUFFICES ASSUME TypeInv, [Next]_vars PROVE TypeInv'
    OBVIOUS
  <1>1. ASSUME NEW t \in Threads, NEW k \in Keys, EnqueueSample(t, k)
        PROVE  TypeInv'
    BY <1>1, TypeEnqueue
  <1>2. ASSUME UNCHANGED keys PROVE MaxExists'
    BY <1>2 DEF TypeInv, MaxExists, Samples
  <1>3. ASSUME NEW t \in Threads, Count(t) PROVE TypeInv'
    <2>1. TypeOK' /\ UNCHANGED keys
      BY <1>3, ReqLogStoreAssumption
      DEF Count, Counting, TypeInv, TypeOK, Samples, dbVars, closeVars, Actors
    <2> QED
      BY <1>2, <2>1 DEF TypeInv
  <1>4. ASSUME NEW a \in Actors, FlushStep(a) PROVE TypeInv'
    <2>1. UNCHANGED keys
      BY <1>4 DEF FlushStep, Swap, NothingToFlush, Begin, BeginFails,
                  CommitFails, GiveUp, Commit
    <2> QED
      BY <1>2, <1>4, <2>1, TypeFlush DEF TypeInv
  <1>5. ASSUME Tick \/ Stopping \/ SkipPrune PROVE TypeInv'
    <2>1. TypeOK' /\ UNCHANGED keys
      BY <1>5, ReqLogStoreAssumption
      DEF Tick, Stopping, SkipPrune, TypeInv, TypeOK, Samples, dbVars, closeVars, Actors
    <2> QED
      BY <1>2, <2>1 DEF TypeInv
  <1>6. ASSUME Prune PROVE TypeInv'
    <2>1. table' \in [Keys -> 0 .. Len(keys)]
      BY <1>6 DEF Prune, TypeInv, TypeOK
    <2>2. TypeOK' /\ UNCHANGED keys
      BY <1>6, <2>1, ReqLogStoreAssumption
      DEF Prune, TypeInv, TypeOK, Samples, closeVars, Actors
    <2> QED
      BY <1>2, <2>2 DEF TypeInv
  <1>7. ASSUME Expire \/ Stop \/ CloseDB PROVE TypeInv'
    <2> USE DEF TypeInv, TypeOK, Samples, dbVars, closeVars
    <2>1. CASE Expire
      <3>1. expired' \in 0 .. Len(keys)
        BY <2>1 DEF Expire
      <3> QED
        BY <1>2, <2>1, <3>1 DEF Expire
    <2>2. CASE Stop
      <3>1. atStop' \in 0 .. Len(keys)
        BY <2>2 DEF Stop
      <3> QED
        BY <1>2, <2>2, <3>1 DEF Stop
    <2>3. CASE CloseDB
      BY <1>2, <2>3 DEF CloseDB
    <2> QED
      BY <1>7, <2>1, <2>2, <2>3
  <1>8. ASSUME UNCHANGED vars PROVE TypeInv'
    BY <1>8 DEF vars, TypeInv, TypeOK, MaxExists, Samples, dbVars, closeVars
  <1>9. Worker \in Actors /\ Threads \subseteq Actors
    BY DEF Actors
  <1> QED
    BY <1>1, <1>3, <1>4, <1>5, <1>6, <1>7, <1>8, <1>9 DEF Next, ThreadStep, WorkerStep

LEMMA TypeInit == Init => TypeInv
  <1> SUFFICES ASSUME Init PROVE TypeInv
    OBVIOUS
  <1>1. Len(keys) = 0 /\ keys \in Seq(Keys) /\ Samples = {}
    BY DEF Init, Samples
  <1>2. MaxExists
    BY <1>1 DEF MaxExists
  <1>3. /\ pc \in [Actors -> {"idle", "select"}]
        /\ pc[Worker] = "select"
        /\ \A t \in Threads : pc[t] = "idle"
        /\ hold \in [Actors -> SUBSET Samples]
        /\ \A a \in Actors : hold[a] = {}
    BY ReqLogStoreAssumption DEF Init, Actors
  <1>4. table \in [Keys -> 0 .. Len(keys)] /\ Len(keys) \in 0 .. Len(keys)
    BY <1>1 DEF Init
  <1>5. TypeOK
    BY <1>1, <1>3, <1>4 DEF Init, TypeOK
  <1> QED
    BY <1>2, <1>5 DEF TypeInv

LEMMA TypeAlways == Spec => []TypeInv
  BY TypeInit, TypeStep, PTL DEF Spec

\* The variables of the store always have the values TypeOK lists: in
\* particular only the goroutine inside flush holds a batch, and a row always
\* holds a sample that was enqueued.
THEOREM TypeCorrect == Spec => []TypeOK
  <1>1. TypeInv => TypeOK
    BY DEF TypeInv
  <1> QED
    BY <1>1, TypeAlways, PTL

-----------------------------------------------------------------------------
(***************************************************************************)
(* Every sample is somewhere, and in one place only                        *)
(*                                                                         *)
(* Samples move from the batch to a hand and from there to committed or    *)
(* lost, always all at once.  Apart keeps the places disjoint, Located     *)
(* keeps every sample in one of them; both are inductive given the types.  *)
(***************************************************************************)

Apart ==
    /\ committed \cap lost = {}
    /\ batch \cap (committed \cup lost) = {}
    /\ \A a \in Actors : hold[a] \cap (batch \cup committed \cup lost) = {}
    /\ \A a, b \in Actors : a # b => hold[a] \cap hold[b] = {}

Located ==
    \A n \in Samples : \/ n \in batch \cup committed \cup lost
                       \/ \E a \in Actors : n \in hold[a]

LEMMA SampleOnceParts ==
  ASSUME TypeOK PROVE SampleOnce <=> Apart /\ Located
  <1>1. Samples = batch \cup committed \cup lost \cup UNION {hold[a] : a \in Actors}
          <=> Located
    <2>1. batch \cup committed \cup lost \cup UNION {hold[a] : a \in Actors}
             \subseteq Samples
      BY DEF TypeOK
    <2> QED
      BY <2>1 DEF Located
  <1> QED
    BY <1>1 DEF SampleOnce, Apart

LEMMA GiveUpApart ==
  ASSUME TypeOK, Apart, Located, NEW a \in Actors, NEW n, GiveUp(a, n)
  PROVE  Apart' /\ Located'
  <1>1. /\ hold' = [hold EXCEPT ![a] = {}] /\ lost' = lost \cup hold[a]
        /\ UNCHANGED <<keys, batch, committed>>
    BY DEF GiveUp
  <1>2. Apart'
    BY <1>1 DEF Apart, TypeOK
  <1>3. Located'
    BY <1>1 DEF Located, Samples, TypeOK
  <1> QED
    BY <1>2, <1>3

LEMMA ApartStep ==
  TypeInv /\ Apart /\ Located /\ [Next]_vars => Apart' /\ Located'
  <1> SUFFICES ASSUME TypeInv, Apart, Located, [Next]_vars
               PROVE  Apart' /\ Located'
    OBVIOUS
  <1> USE DEF TypeInv
  <1>1. ASSUME NEW t \in Threads, NEW k \in Keys, EnqueueSample(t, k)
        PROVE  Apart' /\ Located'
    <2>1. /\ Len(keys) + 1 \notin Samples /\ Samples' = Samples \cup {Len(keys) + 1}
          /\ batch' = batch \cup {Len(keys) + 1}
          /\ UNCHANGED <<hold, committed, lost>>
      BY <1>1 DEF EnqueueSample, dbVars, Samples, TypeOK
    <2>2. Apart'
      BY <2>1 DEF Apart, TypeOK
    <2>3. Located'
      BY <2>1 DEF Located
    <2> QED
      BY <2>2, <2>3
  <1>2. ASSUME UNCHANGED <<keys, batch, hold, committed, lost>>
        PROVE  Apart' /\ Located'
    BY <1>2 DEF Apart, Located, Samples
  <1>3. ASSUME NEW a \in Actors, FlushStep(a) PROVE Apart' /\ Located'
    <2>1. CASE Swap(a)
      <3>1. /\ hold[a] = {} /\ hold' = [hold EXCEPT ![a] = batch] /\ batch' = {}
            /\ UNCHANGED <<keys, committed, lost>>
        BY <2>1 DEF Swap, dbVars, TypeOK
      <3>2. Apart'
        BY <3>1 DEF Apart, TypeOK
      <3>3. Located'
        BY <3>1 DEF Located, Samples, TypeOK
      <3> QED
        BY <3>2, <3>3
    <2>2. CASE NothingToFlush(a) \/ Begin(a)
      BY <1>2, <2>2 DEF NothingToFlush, Begin, dbVars
    <2>3. CASE BeginFails(a) \/ CommitFails(a)
      BY <2>3, GiveUpApart DEF BeginFails, CommitFails
    <2>4. CASE Commit(a)
      <3>1. PICK ok \in SUBSET hold[a] :
               committed' = committed \cup ok /\ lost' = lost \cup (hold[a] \ ok)
        BY <2>4 DEF Commit
      <3>2. hold' = [hold EXCEPT ![a] = {}] /\ UNCHANGED <<keys, batch>>
        BY <2>4 DEF Commit
      <3>3. Apart'
        BY <3>1, <3>2 DEF Apart, TypeOK
      <3>4. Located'
        BY <3>1, <3>2 DEF Located, Samples, TypeOK
      <3> QED
        BY <3>3, <3>4
    <2> QED
      BY <1>3, <2>1, <2>2, <2>3, <2>4 DEF FlushStep
  <1>4. ASSUME \/ \E t \in Threads : Count(t)
               \/ Tick \/ Stopping \/ SkipPrune \/ Prune \/ Expire \/ Stop
               \/ CloseDB \/ UNCHANGED vars
        PROVE  Apart' /\ Located'
    BY <1>2, <1>4 DEF Count, Tick, Stopping, SkipPrune, Prune, Expire, Stop,
                      CloseDB, vars, dbVars
  <1>5. Worker \in Actors /\ Threads \subseteq Actors
    BY DEF Actors
  <1> QED
    BY <1>1, <1>3, <1>4, <1>5 DEF Next, ThreadStep, WorkerStep

LEMMA ApartInit == Init => Apart /\ Located
  BY DEF Init, Apart, Located, Samples

LEMMA ApartAlways == Spec => [](Apart /\ Located)
  BY TypeAlways, ApartInit, ApartStep, PTL DEF Spec

\* However many goroutines flush at the same time, no sample is written twice
\* and none is left behind: each is in the batch, in one hand, committed or
\* lost.
THEOREM SamplesExactlyOnce == Spec => []SampleOnce
  <1>1. TypeInv /\ Apart /\ Located => SampleOnce
    BY SampleOnceParts DEF TypeInv
  <1> QED
    BY <1>1, TypeAlways, ApartAlways, PTL

-----------------------------------------------------------------------------
(***************************************************************************)
(* What close leaves behind                                                *)
(*                                                                         *)
(* Once the worker has swapped the batch out for the last time, the batch  *)
(* only gets samples that were appended after s.stop was closed.           *)
(***************************************************************************)

StopInv ==
    /\ final => stop
    /\ closed => pc[Worker] = "done"
    /\ pc[Worker] = "done" => final
    /\ final => pc[Worker] \in {"flush", "begin", "write", "done"}
    /\ final /\ pc[Worker] # "flush" => \A n \in batch : n > atStop

LEMMA StopStep == TypeInv /\ StopInv /\ [Next]_vars => StopInv'
  <1> SUFFICES ASSUME TypeInv, StopInv, [Next]_vars PROVE StopInv'
    OBVIOUS
  <1> USE ReqLogStoreAssumption DEF TypeInv
  <1>1. ASSUME NEW t \in Threads, NEW k \in Keys, EnqueueSample(t, k)
        PROVE  StopInv'
    <2>1. pc'[Worker] = pc[Worker] /\ UNCHANGED <<final, stop, closed, atStop>>
      BY <1>1 DEF EnqueueSample, closeVars, TypeOK, Actors
    <2>2. batch' = batch \cup {Len(keys) + 1} /\ Len(keys) + 1 > atStop
      BY <1>1 DEF EnqueueSample, TypeOK
    <2> QED
      BY <2>1, <2>2 DEF StopInv
  <1>2. ASSUME NEW t \in Threads, Count(t) PROVE StopInv'
    BY <1>2 DEF Count, Counting, StopInv, closeVars, TypeOK, Actors
  <1>3. ASSUME NEW a \in Actors, FlushStep(a) PROVE StopInv'
    <2>1. /\ batch' \subseteq batch /\ UNCHANGED <<final, stop, closed, atStop>>
          /\ \A b \in Actors : b # a => pc'[b] = pc[b]
      BY <1>3 DEF FlushStep, Swap, NothingToFlush, Begin, BeginFails,
                  CommitFails, GiveUp, Commit, closeVars, TypeOK
    <2>2. CASE a # Worker
      <3>1. pc'[Worker] = pc[Worker]
        BY <2>1, <2>2 DEF Actors
      <3> QED
        BY <2>1, <3>1 DEF StopInv
    <2>3. CASE a = Worker
      <3>1. /\ pc[Worker] \in {"flush", "begin", "write"}
            /\ pc'[Worker] \in {"begin", "write", AfterFlush(Worker)}
        BY <1>3, <2>3 DEF FlushStep, Swap, NothingToFlush, Begin, BeginFails,
                          CommitFails, GiveUp, Commit, TypeOK
      <3>2. pc[Worker] = "flush" => batch' = {}
        BY <1>3, <2>3 DEF FlushStep, Swap, NothingToFlush, Begin, BeginFails,
                          CommitFails, GiveUp, Commit
      <3>3. AfterFlush(Worker) = IF final THEN "done" ELSE "prune"
        BY DEF AfterFlush
      <3> QED
        BY <2>1, <3>1, <3>2, <3>3 DEF StopInv
    <2> QED
      BY <2>2, <2>3
  <1>4. ASSUME Tick \/ Stopping \/ SkipPrune \/ Prune PROVE StopInv'
    BY <1>4 DEF Tick, Stopping, SkipPrune, Prune, StopInv, closeVars, TypeOK, Actors
  <1>5. ASSUME Stop PROVE StopInv'
    BY <1>5 DEF Stop, StopInv
  <1>6. ASSUME CloseDB PROVE StopInv'
    BY <1>6 DEF CloseDB, StopInv
  <1>7. ASSUME Expire \/ UNCHANGED vars PROVE StopInv'
    BY <1>7 DEF Expire, vars, StopInv, closeVars
  <1>8. Worker \in Actors /\ Threads \subseteq Actors
    BY DEF Actors
  <1> QED
    BY <1>1, <1>2, <1>3, <1>4, <1>5, <1>6, <1>7, <1>8
    DEF Next, ThreadStep, WorkerStep

LEMMA StopInit == Init => StopInv
  BY ReqLogStoreAssumption DEF Init, StopInv, Actors

\* close writes what it finds: when the database is closed, the batch holds
\* only samples that were enqueued after close was called.
THEOREM CloseLeavesNothing == Spec => []CloseFlushes
  <1>1. StopInv => CloseFlushes
    BY DEF StopInv, CloseFlushes
  <1> QED
    BY <1>1, TypeAlways, StopInit, StopStep, PTL DEF Spec

-----------------------------------------------------------------------------
(***************************************************************************)
(* The bound on the batch                                                  *)
(*                                                                         *)
(* A sample that is appended to a full batch adds its goroutine to         *)
(* Flushers, and a goroutine leaves Flushers only with an empty batch      *)
(* behind it: QueueBound is inductive given the types.                     *)
(***************************************************************************)

LEMMA ThreadSetsFinite ==
  ASSUME NEW S \in SUBSET Threads
  PROVE  IsFiniteSet(S) /\ Cardinality(S) \in Nat
  BY ReqLogStoreAssumption, FS_Subset, FS_CardinalityType

LEMMA BoundEnqueue ==
  ASSUME TypeOK, QueueBound, NEW t \in Threads, NEW k \in Keys,
         EnqueueSample(t, k)
  PROVE  QueueBound'
  <1>1. /\ batch' = batch \cup {Len(keys) + 1} /\ Len(keys) + 1 \notin batch
        /\ pc' = [pc EXCEPT ![t] = IF Full(batch') THEN "countFull" ELSE "count"]
        /\ pc[t] = "idle" /\ t \in Actors
    BY DEF EnqueueSample, TypeOK, Samples, Actors
  <1>2. IsFiniteSet(batch) /\ Cardinality(batch) \in Nat
    BY SamplesFinite DEF TypeOK
  <1>3. Cardinality(batch') = Cardinality(batch) + 1
    BY <1>1, <1>2, FS_AddElement
  <1>4. Flushers \in SUBSET Threads /\ t \notin Flushers
    BY <1>1 DEF Flushers
  <1>5. CASE Full(batch')
    <2>1. Flushers' = Flushers \cup {t}
      BY <1>1, <1>5 DEF Flushers, TypeOK, Actors
    <2>2. Cardinality(Flushers') = Cardinality(Flushers) + 1
      BY <1>4, <2>1, ThreadSetsFinite, FS_AddElement
    <2> QED
      BY <1>2, <1>3, <1>4, <2>2, ThreadSetsFinite, ReqLogStoreAssumption
      DEF QueueBound
  <1>6. CASE ~Full(batch')
    <2>1. Flushers' = Flushers
      BY <1>1, <1>6 DEF Flushers, TypeOK, Actors
    <2> QED
      BY <1>2, <1>3, <1>4, <1>6, <2>1, ThreadSetsFinite, ReqLogStoreAssumption
      DEF QueueBound, Full
  <1> QED
    BY <1>5, <1>6

LEMMA BoundStep == TypeInv /\ QueueBound /\ [Next]_vars => QueueBound'
  <1> SUFFICES ASSUME TypeInv, QueueBound, [Next]_vars PROVE QueueBound'
    OBVIOUS
  <1> USE DEF TypeInv
  <1>1. ASSUME NEW t \in Threads, NEW k \in Keys, EnqueueSample(t, k)
        PROVE  QueueBound'
    BY <1>1, BoundEnqueue
  <1>2. ASSUME UNCHANGED batch, Flushers' = Flushers PROVE QueueBound'
    BY <1>2 DEF QueueBound
  <1>3. ASSUME batch' = {} PROVE QueueBound'
    <2>1. Flushers' \in SUBSET Threads
      BY DEF Flushers
    <2>2. Cardinality(Flushers') \in Nat /\ Cardinality(batch') = 0
      BY <1>3, <2>1, ThreadSetsFinite, FS_EmptySet
    <2> QED
      BY <2>2, ReqLogStoreAssumption DEF QueueBound
  <1>4. ASSUME NEW t \in Threads, Count(t) PROVE QueueBound'
    <2>1. Flushers' = Flushers
      BY <1>4 DEF Count, Counting, Flushers, TypeOK, Actors
    <2> QED
      BY <1>2, <1>4, <2>1 DEF Count
  <1>5. ASSUME NEW a \in Actors, FlushStep(a) PROVE QueueBound'
    <2>1. CASE Swap(a) \/ NothingToFlush(a)
      BY <1>3, <2>1 DEF Swap, NothingToFlush
    <2>2. CASE Begin(a) \/ BeginFails(a) \/ CommitFails(a) \/ Commit(a)
      <3>1. /\ pc[a] \in {"begin", "write"} /\ UNCHANGED batch
            /\ \/ pc' = [pc EXCEPT ![a] = "write"]
               \/ pc' = [pc EXCEPT ![a] = AfterFlush(a)]
        BY <2>2 DEF Begin, BeginFails, CommitFails, GiveUp, Commit
      <3>2. Flushers' = Flushers
        BY <3>1, AfterFlushType DEF Flushers, TypeOK, Actors
      <3> QED
        BY <1>2, <3>1, <3>2
    <2> QED
      BY <1>5, <2>1, <2>2 DEF FlushStep
  <1>6. ASSUME Tick \/ Stopping \/ SkipPrune \/ Prune PROVE QueueBound'
    <2>1. Flushers' = Flushers /\ UNCHANGED batch
      BY <1>6, ReqLogStoreAssumption
      DEF Tick, Stopping, SkipPrune, Prune, Flushers, TypeOK, Actors
    <2> QED
      BY <1>2, <2>1
  <1>7. ASSUME Expire \/ Stop \/ CloseDB \/ UNCHANGED vars PROVE QueueBound'
    BY <1>2, <1>7 DEF Expire, Stop, CloseDB, vars, Flushers
  <1>8. Worker \in Actors /\ Threads \subseteq Actors
    BY DEF Actors
  <1> QED
    BY <1>1, <1>4, <1>5, <1>6, <1>7, <1>8 DEF Next, ThreadStep, WorkerStep

LEMMA BoundInit == Init => QueueBound
  <1> SUFFICES ASSUME Init PROVE QueueBound
    OBVIOUS
  <1>1. batch = {} /\ Flushers \in SUBSET Threads
    BY DEF Init, Flushers
  <1>2. Cardinality(batch) = 0 /\ Cardinality(Flushers) \in Nat
    BY <1>1, FS_EmptySet, ThreadSetsFinite
  <1> QED
    BY <1>2, ReqLogStoreAssumption DEF QueueBound

\* No queue bounds the samples in memory; the number of goroutines does: a batch
\* exceeds reqLogBatchSize - 1 by at most one sample for each of them.
THEOREM BatchBounded == Spec => []QueueBound
  BY TypeAlways, BoundInit, BoundStep, PTL DEF Spec

-----------------------------------------------------------------------------
(***************************************************************************)
(* The rows of the table                                                   *)
(*                                                                         *)
(* RowsKept is inductive given the types: a committed upsert writes every  *)
(* row it touches, pruning deletes a row only for an outdated sample, and  *)
(* an outdated sample stays outdated.                                      *)
(***************************************************************************)

LEMMA RowsCommit ==
  ASSUME TypeInv, RowsKept, NEW a \in Actors, Commit(a)
  PROVE  RowsKept'
  <1>1. PICK ok \in SUBSET hold[a] :
           /\ table' = [k \in Keys |-> IF \E n \in ok : keys[n] = k
                                          THEN Latest(ok, k)
                                          ELSE table[k]]
           /\ committed' = committed \cup ok
    BY DEF Commit
  <1>2. ok \in SUBSET Samples /\ UNCHANGED <<keys, expired>>
    BY DEF Commit, TypeInv, TypeOK
  <1> SUFFICES ASSUME NEW k \in Keys
               PROVE  /\ table'[k] # 0 => table'[k] \in committed' /\ keys[table'[k]] = k
                      /\ table'[k] = 0 => \A n \in committed' :
                            keys[n] = k => \E m \in committed' :
                                              keys[m] = k /\ m <= expired
    BY <1>2 DEF RowsKept
  <1>3. CASE \E n \in ok : keys[n] = k
    <2>1. /\ table'[k] = Latest(ok, k)
          /\ Latest(ok, k) \in ok /\ keys[Latest(ok, k)] = k
      BY <1>1, <1>2, <1>3, LatestExists
    <2>2. table'[k] # 0
      BY <1>2, <2>1 DEF Samples, TypeInv, TypeOK
    <2> QED
      BY <1>1, <2>1, <2>2
  <1>4. CASE ~\E n \in ok : keys[n] = k
    <2>1. table'[k] = table[k]
      BY <1>1, <1>4
    <2> QED
      BY <1>1, <1>4, <2>1 DEF RowsKept
  <1> QED
    BY <1>3, <1>4

LEMMA RowsStep == TypeInv /\ RowsKept /\ [Next]_vars => RowsKept'
  <1> SUFFICES ASSUME TypeInv, RowsKept, [Next]_vars PROVE RowsKept'
    OBVIOUS
  <1> USE DEF TypeInv
  <1>1. ASSUME UNCHANGED <<keys, table, committed, expired>> PROVE RowsKept'
    BY <1>1 DEF RowsKept
  <1>2. ASSUME NEW t \in Threads, NEW k \in Keys, EnqueueSample(t, k)
        PROVE  RowsKept'
    <2>1. /\ \A n \in committed : keys'[n] = keys[n]
          /\ UNCHANGED <<table, committed, expired>>
      BY <1>2 DEF EnqueueSample, dbVars, TypeOK, Samples
    <2> QED
      BY <2>1 DEF RowsKept
  <1>3. ASSUME NEW a \in Actors, FlushStep(a) PROVE RowsKept'
    <2>1. CASE Commit(a)
      BY <2>1, RowsCommit
    <2>2. CASE ~Commit(a)
      BY <1>1, <1>3, <2>2 DEF FlushStep, Swap, NothingToFlush, Begin, BeginFails,
                              CommitFails, GiveUp, dbVars
    <2> QED
      BY <2>1, <2>2
  <1>4. ASSUME Prune PROVE RowsKept'
    <2>1. /\ \A k \in Keys : table'[k] = IF Outdated(table[k]) THEN 0 ELSE table[k]
          /\ UNCHANGED <<keys, committed, expired>>
      BY <1>4 DEF Prune
    <2>2. ASSUME NEW k \in Keys, table[k] # 0, Outdated(table[k]) PROVE
             \E m \in committed : keys[m] = k /\ m <= expired
      BY <2>2 DEF RowsKept, Outdated
    <2> QED
      BY <2>1, <2>2 DEF RowsKept
  <1>5. ASSUME Expire PROVE RowsKept'
    <2>1. /\ expired \in Nat /\ expired' = expired + 1 /\ committed \subseteq Nat
          /\ UNCHANGED <<keys, table, committed>>
      BY <1>5 DEF Expire, dbVars, TypeOK, Samples
    <2>2. \A m \in committed : m <= expired => m <= expired'
      BY <2>1
    <2> QED
      BY <2>1, <2>2 DEF RowsKept
  <1>6. ASSUME \/ \E t \in Threads : Count(t)
               \/ Tick \/ Stopping \/ SkipPrune \/ Stop \/ CloseDB
               \/ UNCHANGED vars
        PROVE  RowsKept'
    BY <1>1, <1>6 DEF Count, Tick, Stopping, SkipPrune, Stop, CloseDB, vars, dbVars
  <1>7. Worker \in Actors /\ Threads \subseteq Actors
    BY DEF Actors
  <1> QED
    BY <1>2, <1>3, <1>4, <1>5, <1>6, <1>7 DEF Next, ThreadStep, WorkerStep

LEMMA RowsInit == Init => RowsKept
  BY DEF Init, RowsKept

\* A request half that was committed keeps a row, and a row of its own, until
\* one of its samples is outdated, whatever overtakes whatever.
THEOREM RowsStay == Spec => []RowsKept
  BY TypeAlways, RowsInit, RowsStep, PTL DEF Spec

-----------------------------------------------------------------------------
(***************************************************************************)
(* Which capture survives                                                  *)
(*                                                                         *)
(* Samples leave the batch in the order of their numbers, batch by batch.  *)
(* A later sample can then be committed while an earlier one is in a hand  *)
(* only if the earlier one was there when the later one was swapped out,   *)
(* which puts the later one into raced.                                    *)
(***************************************************************************)

\* What is in the batch came after everything that left it.
BatchIsNewest ==
    \A n \in batch :
        /\ \A m \in committed : m < n
        /\ \A a \in Actors : \A m \in hold[a] : m < n

\* A sample that is overtaken by a committed one, or may be by one in another
\* hand, is overtaken by a raced one.
Overtaken ==
    \A a \in Actors : \A m \in hold[a] :
        /\ \A n \in committed : m < n => n \in raced
        /\ \A b \in Actors \ {a} : \A n \in hold[b] : m < n => n \in raced

RaceInv == BatchIsNewest /\ Overtaken /\ OlderOnlyByRace

LEMMA RaceSwap ==
  ASSUME TypeOK, RaceInv, NEW a \in Actors, Swap(a)
  PROVE  RaceInv'
  <1>1. /\ hold' = [hold EXCEPT ![a] = batch] /\ batch' = {} /\ hold[a] = {}
        /\ UNCHANGED <<keys, table, committed>>
        /\ raced' = Raced(a)
    BY DEF Swap, dbVars, TypeOK
  <1>2. /\ \A b \in Actors : b # a => hold'[b] = hold[b]
        /\ hold'[a] = batch
    BY <1>1 DEF TypeOK
  <1>3. raced \subseteq raced'
    BY <1>1 DEF Raced
  <1>4. ASSUME NEW b \in Actors \ {a}, NEW m \in hold[b], NEW n \in batch
        PROVE  n \in raced'
    BY <1>1, <1>4 DEF Raced
  <1>5. BatchIsNewest'
    BY <1>1 DEF BatchIsNewest
  <1>6. Overtaken'
    <2> SUFFICES ASSUME NEW b \in Actors, NEW m \in hold'[b]
                 PROVE  /\ \A n \in committed : m < n => n \in raced'
                        /\ \A c \in Actors \ {b} : \A n \in hold'[c] :
                              m < n => n \in raced'
      BY <1>1 DEF Overtaken
    <2>1. CASE b = a
      <3>1. m \in batch /\ m \in Nat
        <4>1. m \in batch
          BY <1>2, <2>1
        <4> QED
          BY <4>1 DEF TypeOK, Samples
      <3>2. \A n \in committed : n < m /\ n \in Nat
        BY <3>1 DEF RaceInv, BatchIsNewest, TypeOK, Samples
      <3>3. ASSUME NEW c \in Actors \ {b}, NEW n \in hold'[c]
            PROVE  n < m /\ n \in Nat
        <4>1. n \in hold[c] /\ c \in Actors
          BY <1>2, <2>1
        <4>2. n \in Nat
          BY <4>1 DEF TypeOK, Samples
        <4> QED
          BY <3>1, <4>1, <4>2 DEF RaceInv, BatchIsNewest
      <3> QED
        BY <3>1, <3>2, <3>3
    <2>2. CASE b # a
      <3>1. m \in hold[b]
        BY <1>2, <2>2
      <3>2. \A n \in committed : m < n => n \in raced'
        BY <1>3, <3>1 DEF RaceInv, Overtaken
      <3>3. ASSUME NEW c \in Actors \ {b}, NEW n \in hold'[c], m < n
            PROVE  n \in raced'
        <4>1. CASE c = a
          BY <1>2, <1>4, <2>2, <3>1, <4>1
        <4>2. CASE c # a
          BY <1>2, <1>3, <3>1, <3>3, <4>2 DEF RaceInv, Overtaken
        <4> QED
          BY <4>1, <4>2
      <3> QED
        BY <3>2, <3>3
    <2> QED
      BY <2>1, <2>2
  <1>7. OlderOnlyByRace'
    BY <1>1, <1>3 DEF RaceInv, OlderOnlyByRace
  <1> QED
    BY <1>5, <1>6, <1>7 DEF RaceInv

LEMMA RaceGiveUp ==
  ASSUME TypeOK, RaceInv, NEW a \in Actors, NEW n, GiveUp(a, n)
  PROVE  RaceInv'
  <1>1. UNCHANGED <<keys, batch, table, committed, raced>>
    BY DEF GiveUp
  <1>2. \A b \in Actors : hold'[b] \subseteq hold[b]
    BY DEF GiveUp, TypeOK
  <1> QED
    BY <1>1, <1>2 DEF RaceInv, BatchIsNewest, Overtaken, OlderOnlyByRace

LEMMA RaceCommit ==
  ASSUME TypeInv, Apart, RaceInv, NEW a \in Actors, Commit(a)
  PROVE  RaceInv'
  <1>1. PICK ok \in SUBSET hold[a] :
           /\ table' = [k \in Keys |-> IF \E n \in ok : keys[n] = k
                                          THEN Latest(ok, k)
                                          ELSE table[k]]
           /\ committed' = committed \cup ok
    BY DEF Commit
  <1>2. ok \in SUBSET Samples /\ UNCHANGED <<keys, batch, raced>>
    BY DEF Commit, TypeInv, TypeOK
  <1>3. /\ \A b \in Actors : b # a => hold'[b] = hold[b]
        /\ hold'[a] = {}
    BY DEF Commit, TypeInv, TypeOK
  <1>4. BatchIsNewest'
    <2>1. ASSUME NEW n \in batch, NEW m \in committed' PROVE m < n
      BY <1>1, <2>1 DEF RaceInv, BatchIsNewest
    <2>2. ASSUME NEW n \in batch, NEW b \in Actors, NEW m \in hold'[b] PROVE m < n
      BY <1>3, <2>2 DEF RaceInv, BatchIsNewest
    <2> QED
      BY <1>2, <2>1, <2>2 DEF BatchIsNewest
  <1>5. Overtaken'
    <2> SUFFICES ASSUME NEW b \in Actors, NEW m \in hold'[b]
                 PROVE  /\ \A n \in committed' : m < n => n \in raced
                        /\ \A c \in Actors \ {b} : \A n \in hold'[c] :
                              m < n => n \in raced
      BY <1>2 DEF Overtaken
    <2>1. b # a /\ m \in hold[b]
      BY <1>3
    <2>2. \A n \in committed' : m < n => n \in raced
      BY <1>1, <2>1 DEF RaceInv, Overtaken
    <2>3. \A c \in Actors \ {b} : \A n \in hold'[c] : m < n => n \in raced
      BY <1>3, <2>1 DEF RaceInv, Overtaken
    <2> QED
      BY <2>2, <2>3
  <1>6. OlderOnlyByRace'
    <2> SUFFICES ASSUME NEW n \in committed', table'[keys[n]] # 0, table'[keys[n]] < n
                 PROVE  n \in raced
      BY <1>2 DEF OlderOnlyByRace
    <2>1. n \in Samples /\ keys[n] \in Keys
      BY <1>1, <1>2 DEF TypeInv, TypeOK, Samples
    <2>2. CASE \E m \in ok : keys[m] = keys[n]
      <3>1. /\ table'[keys[n]] \in ok
            /\ \A m \in ok : keys[m] = keys[n] => m <= table'[keys[n]]
        BY <1>1, <1>2, <2>1, <2>2, LatestExists
      <3>2. n \notin ok
        <4>1. table'[keys[n]] \in Samples
          BY <1>2, <3>1
        <4>2. n \in Nat /\ table'[keys[n]] \in Nat
          BY <2>1, <4>1 DEF Samples
        <4> QED
          BY <3>1, <4>2
      <3> QED
        BY <1>1, <3>1, <3>2 DEF RaceInv, Overtaken
    <2>3. CASE ~\E m \in ok : keys[m] = keys[n]
      <3>1. n \in committed /\ table'[keys[n]] = table[keys[n]]
        BY <1>1, <2>1, <2>3
      <3> QED
        BY <3>1 DEF RaceInv, OlderOnlyByRace
    <2> QED
      BY <2>2, <2>3
  <1> QED
    BY <1>4, <1>5, <1>6 DEF RaceInv

LEMMA RaceStep == TypeInv /\ Apart /\ RaceInv /\ [Next]_vars => RaceInv'
  <1> SUFFICES ASSUME TypeInv, Apart, RaceInv, [Next]_vars PROVE RaceInv'
    OBVIOUS
  <1>1. ASSUME UNCHANGED <<keys, batch, hold, table, committed, raced>>
        PROVE  RaceInv'
    BY <1>1 DEF RaceInv, BatchIsNewest, Overtaken, OlderOnlyByRace
  <1>2. ASSUME NEW t \in Threads, NEW k \in Keys, EnqueueSample(t, k)
        PROVE  RaceInv'
    <2>1. /\ batch' = batch \cup {Len(keys) + 1}
          /\ \A n \in committed : keys'[n] = keys[n]
          /\ UNCHANGED <<hold, table, committed, raced>>
      BY <1>2 DEF EnqueueSample, dbVars, TypeInv, TypeOK, Samples
    <2>2. /\ \A m \in committed : m < Len(keys) + 1
          /\ \A a \in Actors : \A m \in hold[a] : m < Len(keys) + 1
      BY DEF TypeInv, TypeOK, Samples
    <2>3. BatchIsNewest'
      BY <2>1, <2>2 DEF RaceInv, BatchIsNewest
    <2>4. Overtaken' /\ OlderOnlyByRace'
      BY <2>1 DEF RaceInv, Overtaken, OlderOnlyByRace
    <2> QED
      BY <2>3, <2>4 DEF RaceInv
  <1>3. ASSUME NEW a \in Actors, FlushStep(a) PROVE RaceInv'
    <2>1. CASE Swap(a)
      BY <2>1, RaceSwap DEF TypeInv
    <2>2. CASE NothingToFlush(a) \/ Begin(a)
      BY <1>1, <2>2 DEF NothingToFlush, Begin, dbVars
    <2>3. CASE BeginFails(a) \/ CommitFails(a)
      BY <2>3, RaceGiveUp DEF BeginFails, CommitFails, TypeInv
    <2>4. CASE Commit(a)
      BY <2>4, RaceCommit
    <2> QED
      BY <1>3, <2>1, <2>2, <2>3, <2>4 DEF FlushStep
  <1>4. ASSUME Prune PROVE RaceInv'
    <2>1. /\ \A k \in Keys : table'[k] \in {0, table[k]}
          /\ UNCHANGED <<keys, batch, hold, committed, raced>>
      BY <1>4 DEF Prune
    <2>2. \A n \in committed : keys[n] \in Keys
      BY DEF TypeInv, TypeOK, Samples
    <2> QED
      BY <2>1, <2>2 DEF RaceInv, BatchIsNewest, Overtaken, OlderOnlyByRace
  <1>5. ASSUME \/ \E t \in Threads : Count(t)
               \/ Tick \/ Stopping \/ SkipPrune \/ Expire \/ Stop
               \/ CloseDB \/ UNCHANGED vars
        PROVE  RaceInv'
    BY <1>1, <1>5 DEF Count, Tick, Stopping, SkipPrune, Expire, Stop, CloseDB,
                      vars, dbVars
  <1>6. Worker \in Actors /\ Threads \subseteq Actors
    BY DEF Actors
  <1> QED
    BY <1>2, <1>3, <1>4, <1>5, <1>6 DEF Next, ThreadStep, WorkerStep

LEMMA RaceInit == Init => RaceInv
  BY DEF Init, RaceInv, BatchIsNewest, Overtaken, OlderOnlyByRace

\* The later capture of a request survives, whatever fails, is pruned or is
\* closed, as long as no two flushes overlapped: a row holds an older capture
\* than a committed one only where the newer one was swapped out while another
\* batch was on its way.
THEOREM LaterWinsUnlessRaced == Spec => []OlderOnlyByRace
  <1>1. RaceInv => OlderOnlyByRace
    BY DEF RaceInv
  <1> QED
    BY <1>1, TypeAlways, ApartAlways, RaceInit, RaceStep, PTL DEF Spec

-----------------------------------------------------------------------------
(***************************************************************************)
(* The counters                                                            *)
(*                                                                         *)
(* Accounting needs Apart: a committed upsert adds to the counter as many  *)
(* samples as it adds to the set only because none of them was committed   *)
(* before.                                                                 *)
(***************************************************************************)

LEMMA DisjointCount ==
  ASSUME TypeOK, NEW S \in SUBSET Samples, NEW T \in SUBSET Samples, S \cap T = {}
  PROVE  Cardinality(S \cup T) = Cardinality(S) + Cardinality(T)
  <1>1. IsFiniteSet(S) /\ IsFiniteSet(T)
    BY SamplesFinite
  <1>2. Cardinality(S) \in Nat /\ Cardinality(T) \in Nat
    BY SamplesFinite
  <1>3. Cardinality(S \cap T) = 0
    BY FS_EmptySet
  <1>4. Cardinality(S \cup T) = Cardinality(S) + Cardinality(T) - Cardinality(S \cap T)
    BY <1>1, FS_Union
  <1> QED
    BY <1>2, <1>3, <1>4

LEMMA AccountingGiveUp ==
  ASSUME TypeOK, Apart, Accounting, NEW a \in Actors, NEW n \in Nat,
         n <= Cardinality(hold[a]), pc[a] \notin {"count", "countFull"},
         GiveUp(a, n)
  PROVE  Accounting'
  <1>1. hold[a] \in SUBSET Samples /\ lost \in SUBSET Samples /\ hold[a] \cap lost = {}
    BY DEF TypeOK, Apart
  <1>2. Cardinality(lost') = Cardinality(lost) + Cardinality(hold[a])
    BY <1>1, DisjointCount DEF GiveUp
  <1>3. dropped' <= Cardinality(lost')
    <2>1. Cardinality(lost) \in Nat /\ Cardinality(hold[a]) \in Nat
      BY <1>1, SamplesFinite
    <2>2. dropped' = dropped + n /\ dropped \in Nat /\ dropped <= Cardinality(lost)
      BY DEF GiveUp, Accounting, TypeOK
    <2> QED
      BY <1>2, <2>1, <2>2
  <1>4. Counting' = Counting
    BY AfterFlushType DEF GiveUp, Counting, TypeOK, Actors
  <1> QED
    BY <1>3, <1>4 DEF GiveUp, Accounting

LEMMA AccountingCommit ==
  ASSUME TypeOK, Apart, Accounting, NEW a \in Actors, Commit(a)
  PROVE  Accounting'
  <1>1. PICK ok \in SUBSET hold[a] :
           /\ written' = written + Cardinality(ok)
           /\ committed' = committed \cup ok
           /\ lost' = lost \cup (hold[a] \ ok)
    BY DEF Commit
  <1>2. /\ ok \in SUBSET Samples /\ hold[a] \ ok \in SUBSET Samples
        /\ committed \in SUBSET Samples /\ lost \in SUBSET Samples
        /\ ok \cap committed = {} /\ (hold[a] \ ok) \cap lost = {}
    BY DEF TypeOK, Apart
  <1>3. written' = Cardinality(committed')
    BY <1>1, <1>2, DisjointCount DEF Accounting
  <1>4. Cardinality(lost') = Cardinality(lost) + Cardinality(hold[a] \ ok)
    BY <1>1, <1>2, DisjointCount
  <1>5. dropped' <= Cardinality(lost')
    <2>1. Cardinality(lost) \in Nat /\ Cardinality(hold[a] \ ok) \in Nat
      BY <1>2, SamplesFinite
    <2>2. dropped' = dropped /\ dropped \in Nat /\ dropped <= Cardinality(lost)
      BY DEF Commit, Accounting, TypeOK
    <2> QED
      BY <1>4, <2>1, <2>2
  <1>6. Counting' = Counting
    BY AfterFlushType DEF Commit, Counting, TypeOK, Actors
  <1> QED
    BY <1>3, <1>5, <1>6 DEF Commit, Accounting

LEMMA AccountingStep ==
  TypeInv /\ Apart /\ Accounting /\ [Next]_vars => Accounting'
  <1> SUFFICES ASSUME TypeInv, Apart, Accounting, [Next]_vars PROVE Accounting'
    OBVIOUS
  <1> USE DEF TypeInv
  <1>1. Counting \in SUBSET Threads /\ IsFiniteSet(Counting) /\ Cardinality(Counting) \in Nat
    BY ThreadSetsFinite DEF Counting
  <1>2. ASSUME NEW t \in Threads, NEW k \in Keys, EnqueueSample(t, k)
        PROVE  Accounting'
    <2>1. Counting' = Counting \cup {t} /\ t \notin Counting
      BY <1>2 DEF EnqueueSample, Counting, TypeOK, Actors
    <2>2. Cardinality(Counting') = Cardinality(Counting) + 1
      BY <1>1, <2>1, FS_AddElement
    <2>3. Len(keys') = Len(keys) + 1 /\ Len(keys) \in Nat
      BY <1>2 DEF EnqueueSample, TypeOK
    <2> QED
      BY <1>1, <1>2, <2>2, <2>3 DEF EnqueueSample, Accounting, dbVars, TypeOK
  <1>3. ASSUME NEW t \in Threads, Count(t) PROVE Accounting'
    <2>1. Counting' = Counting \ {t} /\ t \in Counting
      BY <1>3 DEF Count, Counting, TypeOK, Actors
    <2>2. Cardinality(Counting') = Cardinality(Counting) - 1
      BY <1>1, <2>1, FS_RemoveElement
    <2> QED
      BY <1>1, <1>3, <2>2 DEF Count, Accounting, dbVars, TypeOK
  <1>4. ASSUME UNCHANGED <<keys, queued, written, dropped, committed, lost>>,
               Counting' = Counting
        PROVE  Accounting'
    BY <1>4 DEF Accounting
  <1>5. ASSUME NEW a \in Actors, FlushStep(a) PROVE Accounting'
    <2>1. hold[a] \in SUBSET Samples
      BY DEF TypeOK
    <2>2. CASE Swap(a) \/ NothingToFlush(a) \/ Begin(a)
      <3>1. Counting' = Counting
        BY <2>2, AfterFlushType
        DEF Swap, NothingToFlush, Begin, Counting, TypeOK, Actors
      <3> QED
        BY <1>4, <2>2, <3>1 DEF Swap, NothingToFlush, Begin, dbVars
    <2>3. CASE BeginFails(a)
      <3>1. Cardinality(hold[a]) \in Nat
        BY <2>1, SamplesFinite
      <3> QED
        BY <2>3, <3>1, AccountingGiveUp DEF BeginFails
    <2>4. CASE CommitFails(a)
      <3>1. PICK ok \in SUBSET hold[a] : GiveUp(a, Cardinality(hold[a] \ ok))
        BY <2>4 DEF CommitFails
      <3>2. /\ Cardinality(hold[a] \ ok) \in Nat
            /\ Cardinality(hold[a] \ ok) <= Cardinality(hold[a])
        BY <2>1, SamplesFinite, FS_Subset
      <3> QED
        BY <2>4, <3>1, <3>2, AccountingGiveUp DEF CommitFails
    <2>5. CASE Commit(a)
      BY <2>5, AccountingCommit
    <2> QED
      BY <1>5, <2>2, <2>3, <2>4, <2>5 DEF FlushStep
  <1>6. ASSUME Tick \/ Stopping \/ SkipPrune \/ Prune PROVE Accounting'
    <2>1. Counting' = Counting
      BY <1>6, ReqLogStoreAssumption
      DEF Tick, Stopping, SkipPrune, Prune, Counting, TypeOK, Actors
    <2> QED
      BY <1>4, <1>6, <2>1 DEF Tick, Stopping, SkipPrune, Prune, dbVars
  <1>7. ASSUME Expire \/ Stop \/ CloseDB \/ UNCHANGED vars PROVE Accounting'
    <2>1. UNCHANGED <<keys, pc, queued, written, dropped, committed, lost>>
      BY <1>7 DEF Expire, Stop, CloseDB, vars, dbVars
    <2> QED
      BY <1>4, <2>1 DEF Counting
  <1>8. Worker \in Actors /\ Threads \subseteq Actors
    BY DEF Actors
  <1> QED
    BY <1>2, <1>3, <1>5, <1>6, <1>7, <1>8 DEF Next, ThreadStep, WorkerStep

LEMMA AccountingInit == Init => Accounting
  <1> SUFFICES ASSUME Init PROVE Accounting
    OBVIOUS
  <1>1. Counting = {}
    BY ReqLogStoreAssumption DEF Init, Counting, Actors
  <1>2. Cardinality(Counting) = 0 /\ Cardinality({}) = 0
    BY <1>1, FS_EmptySet
  <1>3. /\ keys = <<>> /\ queued = 0 /\ written = 0 /\ dropped = 0
        /\ committed = {} /\ lost = {}
    BY DEF Init
  <1> QED
    BY <1>2, <1>3 DEF Accounting

\* The counters of reqlog/stats: written is exact, dropped never overstates the
\* loss, and queued lags behind by the callers that have yet to count.
THEOREM CountersCorrect == Spec => []Accounting
  BY TypeAlways, ApartAlways, AccountingInit, AccountingStep, PTL DEF Spec
=============================================================================
