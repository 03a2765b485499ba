-------------------------- MODULE StreamAggProofs --------------------------
(***************************************************************************)
(* Proofs about StreamAgg, for any finite sets of requests and goroutines  *)
(* and any limits.                                                         *)
(***************************************************************************)
EXTENDS StreamAgg, FiniteSetTheorems, TLAPS

-----------------------------------------------------------------------------
(***************************************************************************)
(* Type correctness                                                        *)
(***************************************************************************)

\* What holds for a state holds for the next one when no variable moved.
LEMMA TypeStutter == TypeOK /\ UNCHANGED vars => TypeOK'
  BY DEF TypeOK, vars

\* The buffer that stays in the map after a chunk was folded into it is finite
\* and below the cap on chunks.
LEMMA FoldedFinite ==
  ASSUME TypeOK, NEW t \in Threads, call[t].req \in Requests
  PROVE  /\ Folded(t) \in SUBSET Nat
         /\ IsFiniteSet(Folded(t))
  <1> DEFINE r == call[t].req
  <1>1. IsFiniteSet(bufs[r]) /\ bufs[r] \in SUBSET Nat /\ accepted[r] \in Nat
    BY DEF TypeOK
  <1>2. IsFiniteSet(bufs[r] \cup {accepted[r] + 1})
    BY <1>1, FS_AddElement
  <1> QED
    BY <1>1, <1>2 DEF Folded

\* What Emit does to the two variables it changes.
LEMMA EmitType ==
  ASSUME TypeOK, NEW a \in Actors, NEW r \in Requests, Emit(a, r)
  PROVE  /\ rows' \in [Requests -> Seq(SUBSET Nat)]
         /\ hand' \in [Actors -> [Requests -> SUBSET Nat]]
  <1>1. hand[a][r] \in SUBSET Nat
    BY DEF TypeOK
  <1>2. Append(rows[r], hand[a][r]) \in Seq(SUBSET Nat)
    BY <1>1 DEF TypeOK
  <1> QED
    BY <1>1, <1>2 DEF Emit, TypeOK

\* What Collect does to the three variables it changes.
LEMMA CollectType ==
  ASSUME TypeOK, NEW S, Collect(S)
  PROVE  /\ bufs' \in [Requests -> SUBSET Nat]
         /\ \A r \in Requests : IsFiniteSet(bufs'[r]) /\ Cardinality(bufs'[r]) < MaxChunks
         /\ lastChunk' \in [Requests -> Nat]
         /\ hand' \in [Actors -> [Requests -> SUBSET Nat]]
  BY StreamAggAssumption, FS_EmptySet DEF Collect, TypeOK, Actors

\* The sets of tracked requests and of goroutines in the window are finite.
LEMMA SetsFinite ==
  ASSUME TypeOK
  PROVE  /\ IsFiniteSet(Tracked) /\ Cardinality(Tracked) \in Nat
         /\ IsFiniteSet(Evictors) /\ Cardinality(Evictors) \in Nat
         /\ Cardinality(Threads) \in Nat
         /\ Cardinality(Tracked') \in Nat
         /\ Cardinality(Evictors') \in Nat
  <1>1. /\ Tracked \in SUBSET Requests /\ Tracked' \in SUBSET Requests
        /\ Evictors \in SUBSET Threads /\ Evictors' \in SUBSET Threads
    BY DEF Tracked, Evictors
  <1> QED
    BY <1>1, FS_Subset, FS_CardinalityType, StreamAggAssumption

LEMMA TypeStep == TypeOK /\ Next => TypeOK'
  <1> SUFFICES ASSUME TypeOK, Next PROVE TypeOK'
    OBVIOUS
  <1>1. ASSUME NEW t \in Threads, NEW r \in Requests, NEW end \in BOOLEAN,
               AddCall(t, r, end)
        PROVE  TypeOK'
    BY <1>1 DEF AddCall, TypeOK
  <1>2. ASSUME NEW t \in Threads, Evict(t) PROVE TypeOK'
    <2>1. PICK v \in Tracked :
             /\ hand' = [hand EXCEPT ![t][v] = bufs[v]]
             /\ bufs' = [bufs EXCEPT ![v] = {}]
             /\ lastChunk' = [lastChunk EXCEPT ![v] = 0]
      BY <1>2 DEF Evict, LeastRecent
    <2>2. v \in Requests /\ t \in Actors
      BY DEF Tracked, Actors
    <2>3. /\ bufs' \in [Requests -> SUBSET Nat]
          /\ \A r \in Requests : IsFiniteSet(bufs'[r]) /\ Cardinality(bufs'[r]) < MaxChunks
      BY <2>1, <2>2, StreamAggAssumption, FS_EmptySet DEF TypeOK
    <2>4. hand' \in [Actors -> [Requests -> SUBSET Nat]]
      BY <2>1, <2>2 DEF TypeOK
    <2>5. crowd' \in Nat
      BY <1>2, SetsFinite DEF Evict, TypeOK
    <2> QED
      BY <1>2, <2>1, <2>2, <2>3, <2>4, <2>5 DEF Evict, TypeOK
  <1>3. ASSUME NEW t \in Threads, Fold(t) PROVE TypeOK'
    <2> DEFINE r == call[t].req
    <2>1. r \in Requests
      BY <1>3 DEF Fold, MayFold, TypeOK
    <2>2. IsFiniteSet(Folded(t)) /\ Folded(t) \in SUBSET Nat
      BY <2>1, FoldedFinite
    <2>3. Cardinality(Folded(t)) \in Nat /\ Cardinality(Folded(t)) < MaxChunks
      BY <1>3, <2>2, FS_CardinalityType, StreamAggAssumption DEF Fold, Completes
    <2>4. /\ bufs' \in [Requests -> SUBSET Nat]
          /\ \A q \in Requests : IsFiniteSet(bufs'[q]) /\ Cardinality(bufs'[q]) < MaxChunks
      BY <1>3, <2>1, <2>2, <2>3 DEF Fold, TypeOK
    <2> QED
      BY <1>3, <2>1, <2>4 DEF Fold, TypeOK, NoCall
  <1>4. ASSUME NEW t \in Threads, FoldLast(t) PROVE TypeOK'
    <2> DEFINE r == call[t].req
    <2>1. r \in Requests /\ t \in Actors
      BY <1>4 DEF FoldLast, MayFold, TypeOK, Actors
    <2>2. Folded(t) \in SUBSET Nat
      BY <2>1, FoldedFinite
    <2>3. /\ bufs' \in [Requests -> SUBSET Nat]
          /\ \A q \in Requests : IsFiniteSet(bufs'[q]) /\ Cardinality(bufs'[q]) < MaxChunks
      BY <1>4, <2>1, StreamAggAssumption, FS_EmptySet DEF FoldLast, TypeOK
    <2>4. hand' \in [Actors -> [Requests -> SUBSET Nat]]
      BY <1>4, <2>1, <2>2 DEF FoldLast, TypeOK
    <2> QED
      BY <1>4, <2>1, <2>3, <2>4 DEF FoldLast, TypeOK
  <1>5. ASSUME NEW t \in Threads, EmitVictim(t) PROVE TypeOK'
    <2>1. /\ rows' \in [Requests -> Seq(SUBSET Nat)]
          /\ hand' \in [Actors -> [Requests -> SUBSET Nat]]
      BY <1>5, EmitType DEF EmitVictim, Actors
    <2> QED
      BY <1>5, <2>1 DEF EmitVictim, TypeOK
  <1>6. ASSUME NEW t \in Threads, EmitOut(t) PROVE TypeOK'
    <2>1. /\ rows' \in [Requests -> Seq(SUBSET Nat)]
          /\ hand' \in [Actors -> [Requests -> SUBSET Nat]]
      BY <1>6, EmitType DEF EmitOut, Actors
    <2> QED
      BY <1>6, <2>1 DEF EmitOut, TypeOK, NoCall
  <1>7. ASSUME Sweep PROVE TypeOK'
    BY <1>7, CollectType DEF Sweep, TypeOK
  <1>8. ASSUME FlushAll PROVE TypeOK'
    BY <1>8, CollectType DEF FlushAll, TypeOK
  <1>9. ASSUME NEW r \in Requests, JanitorEmit(r) PROVE TypeOK'
    <2>1. /\ rows' \in [Requests -> Seq(SUBSET Nat)]
          /\ hand' \in [Actors -> [Requests -> SUBSET Nat]]
      BY <1>9, EmitType DEF JanitorEmit, Actors
    <2> QED
      BY <1>9, <2>1 DEF JanitorEmit, TypeOK
  <1>10. ASSUME JanitorReturn PROVE TypeOK'
    BY <1>10 DEF JanitorReturn, TypeOK
  <1>11. ASSUME Age PROVE TypeOK'
    BY <1>11 DEF Age, TypeOK
  <1>12. ASSUME Close PROVE TypeOK'
    BY <1>12 DEF Close, TypeOK
  <1> QED
    BY <1>1, <1>2, <1>3, <1>4, <1>5, <1>6, <1>7, <1>8, <1>9, <1>10, <1>11, <1>12
    DEF Next, ThreadStep, JanitorStep

LEMMA TypeInit == Init => TypeOK
  <1> SUFFICES ASSUME Init PROVE TypeOK
    OBVIOUS
  <1>1. \A r \in Requests : IsFiniteSet(bufs[r]) /\ Cardinality(bufs[r]) < MaxChunks
    BY StreamAggAssumption, FS_EmptySet DEF Init
  <1>2. rows \in [Requests -> Seq(SUBSET Nat)]
    BY DEF Init
  <1>3. call \in [Threads -> [req : Requests \cup {NoRequest}, end : BOOLEAN,
                             now : Nat]]
    BY DEF Init, NoCall
  <1>4. hand \in [Actors -> [Requests -> SUBSET Nat]]
    BY DEF Init, EmptyHand
  <1> QED
    BY <1>1, <1>2, <1>3, <1>4 DEF Init, TypeOK

\* The variables of the aggregator always have the values TypeOK lists; in
\* particular no tracked buffer reaches streamAggMaxChunks chunks.
THEOREM TypeCorrect == Spec => []TypeOK
  <1>1. TypeOK /\ [Next]_vars => TypeOK'
    BY TypeStep, TypeStutter
  <1> QED
    BY <1>1, TypeInit, PTL DEF Spec

-----------------------------------------------------------------------------
(***************************************************************************)
(* The bound on the map                                                    *)
(*                                                                         *)
(* A goroutine between its eviction and its insertion has paid for the     *)
(* buffer it will insert, so evicting and inserting leave the sum of both  *)
(* sets as it was.  The sum grows only when a goroutine inserts without    *)
(* evicting, which needs room in the map; that goroutine is no evictor, so *)
(* at most all the others are, and never more than crowd remembers.        *)
(***************************************************************************)

\* The inductive form of TrackedBound.
Bounded == TrackedBound /\ Cardinality(Evictors) <= crowd

\* A step that puts nothing into the map and opens no window keeps the bound.
LEMMA BoundNoGrowth ==
  ASSUME TypeOK, Bounded, Tracked' \subseteq Tracked,
         Evictors' \subseteq Evictors, crowd' = crowd
  PROVE  Bounded'
  <1>1. /\ Cardinality(Tracked') <= Cardinality(Tracked)
        /\ Cardinality(Evictors') <= Cardinality(Evictors)
    BY SetsFinite, FS_Subset
  <1>2. crowd \in Nat
    BY DEF TypeOK
  <1> QED
    BY <1>1, <1>2, SetsFinite, StreamAggAssumption DEF Bounded, TrackedBound

LEMMA BoundStep == TypeOK /\ Bounded /\ Next => Bounded'
  <1> SUFFICES ASSUME TypeOK, Bounded, Next PROVE Bounded'
    OBVIOUS
  <1> USE StreamAggAssumption
  <1>1. ASSUME NEW t \in Threads, NEW r \in Requests, NEW end \in BOOLEAN,
               AddCall(t, r, end)
        PROVE  Bounded'
    BY <1>1, BoundNoGrowth DEF AddCall, Tracked, Evictors, TypeOK
  <1>2. ASSUME NEW t \in Threads, Evict(t) PROVE Bounded'
    <2>1. PICK v \in Tracked : bufs' = [bufs EXCEPT ![v] = {}]
      BY <1>2 DEF Evict, LeastRecent
    <2>2. Tracked' = Tracked \ {v}
      BY <2>1 DEF Tracked, TypeOK
    <2>3. t \notin Evictors /\ Evictors' = Evictors \cup {t}
      BY <1>2 DEF Evict, Evictors, TypeOK
    <2>4. /\ Cardinality(Tracked') = Cardinality(Tracked) - 1
          /\ Cardinality(Evictors') = Cardinality(Evictors) + 1
      BY <2>2, <2>3, SetsFinite, FS_RemoveElement, FS_AddElement
    <2>5. /\ crowd \in Nat
          /\ crowd' = IF Cardinality(Evictors) < crowd THEN crowd
                                                     ELSE Cardinality(Evictors) + 1
      BY <1>2 DEF Evict, TypeOK
    <2>6. crowd <= crowd' /\ Cardinality(Evictors) + 1 <= crowd' /\ crowd' \in Nat
      BY <2>5, SetsFinite
    <2> QED
      BY <2>4, <2>5, <2>6, SetsFinite DEF Bounded, TrackedBound
  <1>3. ASSUME NEW t \in Threads, Fold(t) PROVE Bounded'
    <2> DEFINE r == call[t].req
    <2>1. r \in Requests
      BY <1>3 DEF Fold, MayFold, TypeOK
    <2>2. Tracked' = Tracked \cup {r}
      BY <1>3, <2>1 DEF Fold, Tracked, TypeOK, Folded
    <2>3. Cardinality(Tracked') = IF r \in Tracked THEN Cardinality(Tracked)
                                                   ELSE Cardinality(Tracked) + 1
      BY <2>2, SetsFinite, FS_AddElement
    <2>4. Evictors' = Evictors \ {t}
      BY <1>3 DEF Fold, Evictors, TypeOK
    <2>5. crowd' = crowd /\ crowd \in Nat
      BY <1>3 DEF Fold, TypeOK
    <2>6. CASE pc[t] = "relock"
      <3>1. t \in Evictors
        BY <2>6 DEF Evictors
      <3>2. Cardinality(Evictors') = Cardinality(Evictors) - 1
        BY <2>4, <3>1, SetsFinite, FS_RemoveElement
      <3> QED
        BY <2>3, <2>5, <3>2, SetsFinite DEF Bounded, TrackedBound
    <2>7. CASE pc[t] = "lock"
      <3>1. Evictors' = Evictors /\ Evictors \in SUBSET (Threads \ {t})
        BY <2>4, <2>7 DEF Evictors
      <3>2. CASE bufs[r] # {}
        BY <2>1, <2>2, <2>5, <3>1, <3>2, BoundNoGrowth DEF Tracked
      <3>3. CASE Cardinality(Tracked) < MaxTracked
        <4>1. Cardinality(Tracked') <= MaxTracked
          BY <2>3, <3>3, SetsFinite
        <4>2. IsFiniteSet(Threads \ {t})
              /\ Cardinality(Threads \ {t}) = Cardinality(Threads) - 1
          BY FS_RemoveElement
        <4>3. Cardinality(Evictors) <= Cardinality(Threads) - 1
          BY <3>1, <4>2, FS_Subset
        <4> QED
          BY <2>5, <3>1, <4>1, <4>3, SetsFinite DEF Bounded, TrackedBound
      <3> QED
        BY <1>3, <2>7, <3>2, <3>3 DEF Fold, MayFold
    <2> QED
      BY <1>3, <2>6, <2>7 DEF Fold, MayFold
  <1>4. ASSUME NEW t \in Threads, FoldLast(t) PROVE Bounded'
    BY <1>4, BoundNoGrowth DEF FoldLast, Tracked, Evictors, TypeOK
  <1>5. ASSUME NEW t \in Threads, EmitVictim(t) PROVE Bounded'
    BY <1>5, BoundNoGrowth DEF EmitVictim, Tracked, Evictors, TypeOK
  <1>6. ASSUME NEW t \in Threads, EmitOut(t) PROVE Bounded'
    BY <1>6, BoundNoGrowth DEF EmitOut, Tracked, Evictors, TypeOK
  <1>7. ASSUME Sweep PROVE Bounded'
    BY <1>7, BoundNoGrowth DEF Sweep, Collect, Tracked, Evictors, TypeOK
  <1>8. ASSUME FlushAll PROVE Bounded'
    BY <1>8, BoundNoGrowth DEF FlushAll, Collect, Tracked, Evictors, TypeOK
  <1>9. ASSUME NEW r \in Requests, JanitorEmit(r) PROVE Bounded'
    BY <1>9, BoundNoGrowth DEF JanitorEmit, Tracked, Evictors
  <1>10. ASSUME JanitorReturn \/ Age \/ Close PROVE Bounded'
    BY <1>10, BoundNoGrowth DEF JanitorReturn, Age, Close, Tracked, Evictors
  <1> QED
    BY <1>1, <1>2, <1>3, <1>4, <1>5, <1>6, <1>7, <1>8, <1>9, <1>10
    DEF Next, ThreadStep, JanitorStep

\* However many goroutines call add at once and however long they go on, the map
\* exceeds streamAggMaxTracked by no more than the largest number of them that
\* were ever between their eviction and their insertion at the same time.
THEOREM TrackedBounded == Spec => []TrackedBound
  <1>1. Init => Bounded
    <2> SUFFICES ASSUME Init PROVE Bounded
      OBVIOUS
    <2>1. Tracked = {} /\ Evictors = {} /\ crowd = 0
      BY DEF Init, Tracked, Evictors
    <2>2. Cardinality(Tracked) = 0 /\ Cardinality(Evictors) = 0
      BY <2>1, FS_EmptySet
    <2> QED
      BY <2>1, <2>2, TypeInit, SetsFinite, StreamAggAssumption DEF Bounded, TrackedBound
  <1>2. TypeOK /\ Bounded /\ [Next]_vars => Bounded'
    <2>1. ASSUME Bounded, UNCHANGED vars PROVE Bounded'
      BY <2>1 DEF vars, Bounded, TrackedBound, Tracked, Evictors
    <2> QED
      BY <2>1, BoundStep
  <1> QED
    BY <1>1, <1>2, TypeCorrect, PTL DEF Spec, Bounded

-----------------------------------------------------------------------------
(***************************************************************************)
(* Exactly once                                                            *)
(*                                                                         *)
(* Covered and Disjoint are not inductive: they do not say that the hand a *)
(* goroutine fills was empty before, nor that a chunk number about to be   *)
(* given out is new.  HandOK and Numbered say so.                          *)
(***************************************************************************)

\* A goroutine holds one buffer while it is about to emit it, otherwise none.
HandOK ==
    \A t \in Threads :
        /\ pc[t] \in {"idle", "lock", "relock"} => \A r \in Requests : hand[t][r] = {}
        /\ \A q, r \in Requests : hand[t][q] # {} /\ hand[t][r] # {} => q = r

\* Only chunks that were taken in are anywhere.
Numbered ==
    \A r \in Requests :
        /\ bufs[r] \subseteq 1 .. accepted[r]
        /\ \A a \in Actors : hand[a][r] \subseteq 1 .. accepted[r]
        /\ \A i \in DOMAIN rows[r] : rows[r][i] \subseteq 1 .. accepted[r]

PartInv == HandOK /\ Numbered /\ Covered /\ Disjoint

\* A buffer moves from a hand to the rows.
LEMMA EmitPart ==
  ASSUME TypeOK, Numbered, Covered, Disjoint, NEW a \in Actors,
         NEW r \in Requests, Emit(a, r), UNCHANGED <<bufs, accepted>>
  PROVE  Numbered' /\ Covered' /\ Disjoint'
  <1>1. /\ rows'[r] = Append(rows[r], hand[a][r])
        /\ \A q \in Requests : q # r => rows'[q] = rows[q]
        /\ hand'[a][r] = {}
        /\ \A b \in Actors, q \in Requests : (b # a \/ q # r) => hand'[b][q] = hand[b][q]
    BY DEF Emit, TypeOK
  <1>2. /\ rows[r] \in Seq(SUBSET Nat)
        /\ hand[a][r] \in SUBSET Nat
        /\ DOMAIN rows'[r] = 1 .. (Len(rows[r]) + 1)
        /\ DOMAIN rows[r] = 1 .. Len(rows[r])
        /\ Len(rows[r]) \in Nat
        /\ \A i \in 1 .. Len(rows[r]) : rows'[r][i] = rows[r][i]
        /\ rows'[r][Len(rows[r]) + 1] = hand[a][r]
    BY <1>1 DEF TypeOK
  <1>3. Written(r)' = Written(r) \cup hand[a][r]
    BY <1>1, <1>2 DEF Written
  <1>4. \A q \in Requests : q # r => Written(q)' = Written(q)
    BY <1>1 DEF Written
  <1>5. Numbered'
    <2> SUFFICES ASSUME NEW q \in Requests
                 PROVE  /\ bufs'[q] \subseteq 1 .. accepted'[q]
                        /\ \A b \in Actors : hand'[b][q] \subseteq 1 .. accepted'[q]
                        /\ \A i \in DOMAIN rows'[q] : rows'[q][i] \subseteq 1 .. accepted'[q]
      BY DEF Numbered
    <2>1. /\ bufs'[q] \subseteq 1 .. accepted'[q]
          /\ \A b \in Actors : hand'[b][q] \subseteq 1 .. accepted'[q]
      BY <1>1 DEF Numbered
    <2>2. CASE q # r
      BY <1>1, <2>1, <2>2 DEF Numbered
    <2>3. CASE q = r
      <3>1. \A i \in 1 .. Len(rows[r]) : rows'[r][i] \subseteq 1 .. accepted'[r]
        BY <1>2 DEF Numbered
      <3>2. rows'[r][Len(rows[r]) + 1] \subseteq 1 .. accepted'[r]
        BY <1>2 DEF Numbered
      <3> QED
        BY <1>2, <2>1, <2>3, <3>1, <3>2
    <2> QED
      BY <2>2, <2>3
  <1>6. Covered'
    BY <1>1, <1>3, <1>4 DEF Covered
  <1>7. Disjoint'
    <2>1. ASSUME NEW q \in Requests
          PROVE  /\ bufs'[q] \cap Written(q)' = {}
                 /\ \A b \in Actors : /\ hand'[b][q] \cap bufs'[q] = {}
                                      /\ hand'[b][q] \cap Written(q)' = {}
                 /\ \A b, c \in Actors : b # c => hand'[b][q] \cap hand'[c][q] = {}
      BY <1>1, <1>3, <1>4 DEF Disjoint
    <2>2. ASSUME NEW q \in Requests, NEW i \in DOMAIN rows'[q],
                 NEW j \in DOMAIN rows'[q], i # j
          PROVE  rows'[q][i] \cap rows'[q][j] = {}
      <3>1. \A k \in DOMAIN rows[r] : rows[r][k] \cap hand[a][r] = {}
        BY DEF Disjoint, Written
      <3>2. CASE q # r
        BY <1>1, <2>2, <3>2 DEF Disjoint
      <3>3. CASE q = r
        <4>1. \A k, l \in 1 .. Len(rows[r]) : k # l => rows[r][k] \cap rows[r][l] = {}
          BY <1>2 DEF Disjoint
        <4>2. i \in 1 .. (Len(rows[r]) + 1) /\ j \in 1 .. (Len(rows[r]) + 1)
          BY <1>2, <2>2, <3>3
        <4>3. CASE i = Len(rows[r]) + 1
          BY <1>2, <2>2, <3>1, <3>3, <4>2, <4>3
        <4>4. CASE j = Len(rows[r]) + 1
          BY <1>2, <2>2, <3>1, <3>3, <4>2, <4>4
        <4>5. CASE i \in 1 .. Len(rows[r]) /\ j \in 1 .. Len(rows[r])
          BY <1>2, <2>2, <3>3, <4>1, <4>5
        <4> QED
          BY <1>2, <4>2, <4>3, <4>4, <4>5
      <3> QED
        BY <3>2, <3>3
    <2> QED
      BY <2>1, <2>2 DEF Disjoint
  <1> QED
    BY <1>5, <1>6, <1>7

\* Buffers move from the map to the hand of the janitor.
LEMMA CollectPart ==
  ASSUME TypeOK, Numbered, Covered, Disjoint, NEW S,
         hand[Janitor] = EmptyHand, Collect(S), UNCHANGED <<rows, accepted>>
  PROVE  Numbered' /\ Covered' /\ Disjoint'
  <1>1. /\ \A r \in Requests : hand'[Janitor][r] = IF r \in S THEN bufs[r] ELSE {}
        /\ \A r \in Requests : bufs'[r] = IF r \in S THEN {} ELSE bufs[r]
        /\ \A t \in Threads : hand'[t] = hand[t]
        /\ \A r \in Requests : Written(r)' = Written(r)
        /\ \A r \in Requests : hand[Janitor][r] = {}
    BY StreamAggAssumption DEF Collect, TypeOK, Actors, Written, EmptyHand
  <1>2. Numbered'
    BY <1>1 DEF Numbered, Actors
  <1>3. Covered'
    BY <1>1 DEF Covered, Actors
  <1>4. Disjoint'
    BY <1>1, StreamAggAssumption DEF Disjoint, Actors
  <1> QED
    BY <1>2, <1>3, <1>4

LEMMA PartStep == TypeOK /\ PartInv /\ Next => PartInv'
  <1> SUFFICES ASSUME TypeOK, PartInv, Next PROVE PartInv'
    OBVIOUS
  <1> USE DEF PartInv
  <1>1. ASSUME NEW t \in Threads, NEW r \in Requests, NEW end \in BOOLEAN,
               AddCall(t, r, end)
        PROVE  PartInv'
    <2>1. HandOK'
      BY <1>1 DEF AddCall, TypeOK, HandOK
    <2>2. Numbered' /\ Covered' /\ Disjoint'
      BY <1>1 DEF AddCall, Numbered, Covered, Disjoint, Written
    <2> QED
      BY <2>1, <2>2
  <1>2. ASSUME NEW t \in Threads, Evict(t) PROVE PartInv'
    <2>1. PICK v \in Tracked :
             /\ hand' = [hand EXCEPT ![t][v] = bufs[v]]
             /\ bufs' = [bufs EXCEPT ![v] = {}]
      BY <1>2 DEF Evict, LeastRecent
    <2>2. v \in Requests /\ t \in Actors /\ \A r \in Requests : hand[t][r] = {}
      BY <1>2 DEF Evict, Tracked, Actors, HandOK
    <2>3. /\ hand'[t][v] = bufs[v] /\ bufs'[v] = {}
          /\ \A a \in Actors, r \in Requests :
                (a # t \/ r # v) => hand'[a][r] = hand[a][r]
          /\ \A r \in Requests : r # v => bufs'[r] = bufs[r]
          /\ \A r \in Requests : Written(r)' = Written(r)
          /\ accepted' = accepted /\ rows' = rows
      BY <1>2, <2>1, <2>2 DEF Evict, TypeOK, Written
    <2>4. HandOK'
      <3>1. /\ pc'[t] = "victim" /\ \A u \in Threads : u # t => pc'[u] = pc[u]
            /\ \A u \in Threads : u \in Actors
        BY <1>2 DEF Evict, TypeOK, Actors
      <3> QED
        BY <2>2, <2>3, <3>1 DEF HandOK
    <2>5. Numbered' /\ Covered'
      BY <2>2, <2>3 DEF Numbered, Covered
    <2>6. Disjoint'
      BY <2>2, <2>3 DEF Disjoint
    <2> QED
      BY <2>4, <2>5, <2>6
  <1>3. ASSUME NEW t \in Threads, Fold(t) PROVE PartInv'
    <2> DEFINE r == call[t].req
    <2>1. r \in Requests /\ accepted[r] \in Nat
      BY <1>3 DEF Fold, MayFold, TypeOK
    <2>2. /\ bufs'[r] = bufs[r] \cup {accepted[r] + 1}
          /\ accepted'[r] = accepted[r] + 1
          /\ \A q \in Requests : q # r => bufs'[q] = bufs[q] /\ accepted'[q] = accepted[q]
          /\ \A q \in Requests : Written(q)' = Written(q)
          /\ hand' = hand /\ rows' = rows
      BY <1>3, <2>1 DEF Fold, Folded, TypeOK, Written
    <2>3. HandOK'
      BY <1>3 DEF Fold, MayFold, HandOK, TypeOK
    <2>4. Numbered'
      BY <2>1, <2>2 DEF Numbered
    <2>5. Covered'
      BY <2>1, <2>2 DEF Covered
    <2>6. /\ accepted[r] + 1 \notin Written(r)
          /\ \A a \in Actors : accepted[r] + 1 \notin hand[a][r]
      BY <2>1 DEF Numbered, Written
    <2>7. Disjoint'
      BY <2>1, <2>2, <2>6 DEF Disjoint
    <2> QED
      BY <2>3, <2>4, <2>5, <2>7
  <1>4. ASSUME NEW t \in Threads, FoldLast(t) PROVE PartInv'
    <2> DEFINE r == call[t].req
    <2>1. r \in Requests /\ accepted[r] \in Nat /\ t \in Actors
          /\ \A q \in Requests : hand[t][q] = {}
      BY <1>4 DEF FoldLast, MayFold, TypeOK, Actors, HandOK
    <2>2. /\ bufs'[r] = {}
          /\ hand'[t][r] = bufs[r] \cup {accepted[r] + 1}
          /\ accepted'[r] = accepted[r] + 1
          /\ \A q \in Requests : q # r => bufs'[q] = bufs[q] /\ accepted'[q] = accepted[q]
          /\ \A a \in Actors, q \in Requests :
                (a # t \/ q # r) => hand'[a][q] = hand[a][q]
          /\ \A q \in Requests : Written(q)' = Written(q)
          /\ rows' = rows
      BY <1>4, <2>1 DEF FoldLast, Folded, TypeOK, Written
    <2>3. HandOK'
      <3>1. /\ pc'[t] = "out" /\ \A u \in Threads : u # t => pc'[u] = pc[u]
            /\ \A u \in Threads : u \in Actors
        BY <1>4 DEF FoldLast, TypeOK, Actors
      <3> QED
        BY <2>1, <2>2, <3>1 DEF HandOK
    <2>4. Numbered'
      BY <2>1, <2>2 DEF Numbered
    <2>5. Covered'
      BY <2>1, <2>2 DEF Covered
    <2>6. /\ accepted[r] + 1 \notin Written(r)
          /\ \A a \in Actors : accepted[r] + 1 \notin hand[a][r]
      BY <2>1 DEF Numbered, Written
    <2>7. Disjoint'
      BY <2>1, <2>2, <2>6 DEF Disjoint
    <2> QED
      BY <2>3, <2>4, <2>5, <2>7
  <1>5. ASSUME NEW t \in Threads, EmitVictim(t) \/ EmitOut(t) PROVE PartInv'
    <2>1. PICK r \in Requests : Emit(t, r)
      BY <1>5 DEF EmitVictim, EmitOut
    <2>2. t \in Actors /\ UNCHANGED <<bufs, accepted>>
      BY <1>5 DEF EmitVictim, EmitOut, Actors
    <2>3. Numbered' /\ Covered' /\ Disjoint'
      BY <2>1, <2>2, EmitPart
    <2>4. /\ \A q \in Requests : hand'[t][q] = {}
          /\ \A u \in Threads : u # t => hand'[u] = hand[u] /\ pc'[u] = pc[u]
      BY <1>5, <2>1, <2>2, ZenonT(30) DEF Emit, HandOK, TypeOK, EmitVictim, EmitOut, Actors
    <2>5. HandOK'
      BY <2>4 DEF HandOK
    <2> QED
      BY <2>3, <2>5
  <1>6. ASSUME Sweep \/ FlushAll PROVE PartInv'
    <2>1. PICK S : Collect(S)
      BY <1>6 DEF Sweep, FlushAll
    <2>2. hand[Janitor] = EmptyHand /\ UNCHANGED <<rows, accepted, pc>>
      BY <1>6 DEF Sweep, FlushAll
    <2>3. Numbered' /\ Covered' /\ Disjoint'
      BY <2>1, <2>2, CollectPart
    <2>4. \A t \in Threads : hand'[t] = hand[t]
      BY <2>1, StreamAggAssumption DEF Collect, TypeOK, Actors
    <2>5. HandOK'
      BY <2>2, <2>4 DEF HandOK
    <2> QED
      BY <2>3, <2>5
  <1>7. ASSUME NEW r \in Requests, JanitorEmit(r) PROVE PartInv'
    <2>1. Janitor \in Actors /\ UNCHANGED <<bufs, accepted, pc>> /\ Emit(Janitor, r)
      BY <1>7 DEF JanitorEmit, Actors
    <2>2. Numbered' /\ Covered' /\ Disjoint'
      BY <2>1, EmitPart
    <2>3. \A t \in Threads : hand'[t] = hand[t]
      BY <2>1, StreamAggAssumption DEF Emit, TypeOK, Actors
    <2>4. HandOK'
      BY <2>1, <2>3 DEF HandOK
    <2> QED
      BY <2>2, <2>4
  <1>8. ASSUME JanitorReturn \/ Age \/ Close PROVE PartInv'
    BY <1>8 DEF JanitorReturn, Age, Close, HandOK, Numbered, Covered, Disjoint, Written
  <1> QED
    BY <1>1, <1>2, <1>3, <1>4, <1>5, <1>6, <1>7, <1>8 DEF Next, ThreadStep, JanitorStep

LEMMA PartInvariant == Spec => []PartInv
  <1>1. Init => PartInv
    <2> SUFFICES ASSUME Init PROVE PartInv
      OBVIOUS
    <2>1. \A r \in Requests : /\ bufs[r] = {} /\ rows[r] = <<>> /\ accepted[r] = 0
                              /\ \A a \in Actors : hand[a][r] = {}
      BY DEF Init, EmptyHand
    <2>2. HandOK
      BY <2>1 DEF HandOK, Actors
    <2>3. Numbered /\ Covered /\ Disjoint
      BY <2>1 DEF Numbered, Covered, Disjoint, Written
    <2> QED
      BY <2>2, <2>3 DEF PartInv
  <1>2. TypeOK /\ PartInv /\ [Next]_vars => PartInv'
    <2>1. ASSUME PartInv, UNCHANGED vars PROVE PartInv'
      BY <2>1 DEF vars, PartInv, HandOK, Numbered, Covered, Disjoint, Written
    <2> QED
      BY <2>1, PartStep
  <1> QED
    BY <1>1, <1>2, TypeCorrect, PTL DEF Spec

\* add, eviction, sweep and close never lose a chunk and never write one twice.
THEOREM ChunksExactlyOnce == Spec => []ExactlyOnce
  <1>1. PartInv => ExactlyOnce
    BY DEF PartInv, ExactlyOnce
  <1> QED
    BY <1>1, PartInvariant, PTL

-----------------------------------------------------------------------------
(***************************************************************************)
(* Closing                                                                 *)
(***************************************************************************)

\* CloseDrains with what it takes to survive a step: a chunk that is folded
\* after close gets a number above atStop.
CloseInv ==
    /\ jan # "running" => stop
    /\ jan = "done" => hand[Janitor] = EmptyHand
    /\ \A r \in Requests : stop => atStop[r] <= accepted[r]
    /\ jan # "running" => \A r \in Requests : \A n \in bufs[r] : n > atStop[r]

LEMMA CloseStep == TypeOK /\ CloseInv /\ Next => CloseInv'
  <1> SUFFICES ASSUME TypeOK, CloseInv, Next PROVE CloseInv'
    OBVIOUS
  <1>1. ASSUME NEW t \in Threads, NEW r \in Requests, NEW end \in BOOLEAN,
               AddCall(t, r, end)
        PROVE  CloseInv'
    BY <1>1 DEF AddCall, CloseInv
  <1>2. ASSUME NEW t \in Threads, Evict(t) PROVE CloseInv'
    <2>1. /\ \A r \in Requests : bufs'[r] \subseteq bufs[r]
          /\ hand'[Janitor] = hand[Janitor]
          /\ UNCHANGED <<jan, stop, accepted, atStop>>
      BY <1>2, StreamAggAssumption DEF Evict, TypeOK, Actors, Tracked
    <2> QED
      BY <2>1 DEF CloseInv
  <1>3. ASSUME NEW t \in Threads, Fold(t) \/ FoldLast(t) PROVE CloseInv'
    <2> DEFINE r == call[t].req
    <2>1. r \in Requests
      BY <1>3 DEF Fold, FoldLast, MayFold, TypeOK
    <2>2. /\ \A q \in Requests : q # r => bufs'[q] = bufs[q] /\ accepted'[q] = accepted[q]
          /\ bufs'[r] \subseteq bufs[r] \cup {accepted[r] + 1}
          /\ accepted'[r] = accepted[r] + 1
          /\ UNCHANGED <<jan, stop, atStop>>
      BY <1>3, <2>1 DEF Fold, FoldLast, Folded, TypeOK
    <2>3. hand'[Janitor] = hand[Janitor]
      BY <1>3, <2>1, StreamAggAssumption DEF Fold, FoldLast, TypeOK, Actors
    <2>4. accepted \in [Requests -> Nat] /\ atStop \in [Requests -> Nat]
      BY DEF TypeOK
    <2> QED
      BY <2>1, <2>2, <2>3, <2>4 DEF CloseInv
  <1>4. ASSUME NEW t \in Threads, EmitVictim(t) \/ EmitOut(t) PROVE CloseInv'
    <2>1. hand'[Janitor] = hand[Janitor]
      BY <1>4, StreamAggAssumption DEF EmitVictim, EmitOut, Emit, TypeOK, Actors
    <2> QED
      BY <1>4, <2>1 DEF EmitVictim, EmitOut, CloseInv
  <1>5. ASSUME Sweep PROVE CloseInv'
    BY <1>5 DEF Sweep, CloseInv, TypeOK
  <1>6. ASSUME FlushAll PROVE CloseInv'
    <2>1. \A r \in Requests : bufs'[r] = {}
      BY <1>6 DEF FlushAll, Collect, Tracked, TypeOK
    <2> QED
      BY <1>6, <2>1 DEF FlushAll, CloseInv
  <1>7. ASSUME NEW r \in Requests, JanitorEmit(r) PROVE CloseInv'
    <2>1. hand[Janitor] # EmptyHand
      BY <1>7 DEF JanitorEmit, Emit, EmptyHand
    <2> QED
      BY <1>7, <2>1 DEF JanitorEmit, CloseInv
  <1>8. ASSUME JanitorReturn PROVE CloseInv'
    BY <1>8 DEF JanitorReturn, CloseInv
  <1>9. ASSUME Age PROVE CloseInv'
    BY <1>9 DEF Age, CloseInv
  <1>10. ASSUME Close PROVE CloseInv'
    BY <1>10 DEF Close, CloseInv, TypeOK
  <1> QED
    BY <1>1, <1>2, <1>3, <1>4, <1>5, <1>6, <1>7, <1>8, <1>9, <1>10
    DEF Next, ThreadStep, JanitorStep

\* When the janitor has returned, and close with it, no chunk that was taken
\* in before close was called is left in the map.
THEOREM CloseLeavesNothing == Spec => []CloseDrains
  <1>1. Init => CloseInv
    BY DEF Init, CloseInv
  <1>2. TypeOK /\ CloseInv /\ [Next]_vars => CloseInv'
    <2>1. ASSUME CloseInv, UNCHANGED vars PROVE CloseInv'
      BY <2>1 DEF vars, CloseInv
    <2> QED
      BY <2>1, CloseStep
  <1>3. CloseInv => CloseDrains
    BY DEF CloseInv, CloseDrains
  <1> QED
    BY <1>1, <1>2, <1>3, TypeCorrect, PTL DEF Spec

-----------------------------------------------------------------------------
(***************************************************************************)
(* The aggregator implements StreamLedger                                  *)
(*                                                                         *)
(* A buffer takes every chunk of its request from the one that created it  *)
(* to the one that is folded last, so it is a run of consecutive numbers.  *)
(***************************************************************************)

IsRun(r, C) == \E lo, hi \in 1 .. accepted[r] : lo <= hi /\ C = lo .. hi

RunInv ==
    \A r \in Requests :
        /\ bufs[r] # {} => \E lo \in 1 .. accepted[r] : bufs[r] = lo .. accepted[r]
        /\ \A a \in Actors : hand[a][r] # {} => IsRun(r, hand[a][r])

\* A buffer with one more chunk is a run that ends with that chunk.
LEMMA FoldedRun ==
  ASSUME TypeOK, RunInv, NEW t \in Threads, call[t].req \in Requests
  PROVE  \E lo \in 1 .. (accepted[call[t].req] + 1) :
            Folded(t) = lo .. (accepted[call[t].req] + 1)
  <1> DEFINE r == call[t].req
  <1>1. accepted[r] \in Nat
    BY DEF TypeOK
  <1>2. CASE bufs[r] = {}
    <2>1. Folded(t) = (accepted[r] + 1) .. (accepted[r] + 1)
      BY <1>1, <1>2 DEF Folded
    <2> QED
      BY <1>1, <2>1
  <1>3. CASE bufs[r] # {}
    <2>1. PICK lo \in 1 .. accepted[r] : bufs[r] = lo .. accepted[r]
      BY <1>3 DEF RunInv
    <2>2. Folded(t) = lo .. (accepted[r] + 1)
      BY <1>1, <2>1 DEF Folded
    <2> QED
      BY <1>1, <2>1, <2>2
  <1> QED
    BY <1>2, <1>3

\* Runs stay runs when more chunks are taken in.
LEMMA RunMonotone ==
  ASSUME TypeOK, NEW r \in Requests, NEW C, IsRun(r, C),
         accepted'[r] \in Nat, accepted'[r] >= accepted[r]
  PROVE  IsRun(r, C)'
  BY DEF TypeOK, IsRun

LEMMA RunStep == TypeOK /\ PartInv /\ RunInv /\ Next => RunInv'
  <1> SUFFICES ASSUME TypeOK, PartInv, RunInv, Next PROVE RunInv'
    OBVIOUS
  <1>1. ASSUME UNCHANGED accepted,
               \A r \in Requests : bufs'[r] \in {{}, bufs[r]},
               \A r \in Requests, a \in Actors :
                  hand'[a][r] \in {{}, hand[a][r], bufs[r]}
        PROVE  RunInv'
    <2>1. ASSUME NEW r \in Requests, bufs[r] # {} PROVE IsRun(r, bufs[r])
      <3>1. accepted[r] \in Nat
        BY DEF TypeOK
      <3>2. PICK lo \in 1 .. accepted[r] : bufs[r] = lo .. accepted[r]
        BY <2>1 DEF RunInv
      <3>3. accepted[r] \in 1 .. accepted[r] /\ lo <= accepted[r]
        BY <3>1, <3>2
      <3> QED
        BY <3>2, <3>3 DEF IsRun
    <2> QED
      BY <1>1, <2>1 DEF RunInv, IsRun
  <1>2. ASSUME NEW t \in Threads, NEW r \in Requests, NEW end \in BOOLEAN,
               AddCall(t, r, end)
        PROVE  RunInv'
    BY <1>1, <1>2 DEF AddCall
  <1>3. ASSUME NEW t \in Threads, Evict(t) PROVE RunInv'
    BY <1>1, <1>3 DEF Evict, TypeOK, Tracked, Actors
  <1>4. ASSUME NEW t \in Threads, Fold(t) \/ FoldLast(t) PROVE RunInv'
    <2> DEFINE r == call[t].req
    <2>1. r \in Requests /\ t \in Actors /\ accepted[r] \in Nat
      BY <1>4 DEF Fold, FoldLast, MayFold, TypeOK, Actors
    <2>2. /\ accepted'[r] = accepted[r] + 1
          /\ bufs'[r] \in {{}, Folded(t)}
          /\ hand'[t][r] \in {hand[t][r], Folded(t)}
          /\ \A q \in Requests : q # r => bufs'[q] = bufs[q] /\ accepted'[q] = accepted[q]
          /\ \A a \in Actors, q \in Requests : (a # t \/ q # r) => hand'[a][q] = hand[a][q]
      BY <1>4, <2>1, SMTT(20) DEF Fold, FoldLast, TypeOK
    <2>3. PICK lo \in 1 .. accepted'[r] : Folded(t) = lo .. accepted'[r]
      BY <2>1, <2>2, FoldedRun
    <2>4. \A q \in Requests : bufs'[q] # {} =>
             \E l \in 1 .. accepted'[q] : bufs'[q] = l .. accepted'[q]
      BY <2>2, <2>3 DEF RunInv
    <2>5. \A a \in Actors, q \in Requests :
             hand[a][q] # {} => \E l, h \in 1 .. accepted'[q] : l <= h /\ hand[a][q] = l .. h
      BY <2>1, <2>2 DEF RunInv, IsRun
    <2>6. \E l, h \in 1 .. accepted'[r] : l <= h /\ Folded(t) = l .. h
      BY <2>1, <2>2, <2>3
    <2>7. \A a \in Actors, q \in Requests :
             hand'[a][q] # {} => \E l, h \in 1 .. accepted'[q] : l <= h /\ hand'[a][q] = l .. h
      BY <2>2, <2>5, <2>6
    <2> QED
      BY <2>4, <2>7 DEF RunInv, IsRun
  <1>5. ASSUME NEW a \in Actors, NEW r \in Requests, Emit(a, r),
               UNCHANGED <<bufs, accepted>>
        PROVE  RunInv'
    <2>1. \A q \in Requests, b \in Actors : hand'[b][q] \in {{}, hand[b][q]}
      BY <1>5 DEF Emit, TypeOK
    <2> QED
      BY <1>1, <1>5, <2>1
  <1>6. ASSUME NEW t \in Threads, EmitVictim(t) \/ EmitOut(t) PROVE RunInv'
    BY <1>5, <1>6 DEF EmitVictim, EmitOut, Actors
  <1>7. ASSUME Sweep \/ FlushAll PROVE RunInv'
    <2>1. UNCHANGED accepted
      BY <1>7 DEF Sweep, FlushAll
    <2>2. PICK S : Collect(S)
      BY <1>7 DEF Sweep, FlushAll
    <2>3. \A r \in Requests : bufs'[r] \in {{}, bufs[r]}
      BY <2>2 DEF Collect
    <2>4. \A r \in Requests : hand'[Janitor][r] \in {{}, bufs[r]}
      BY <2>2 DEF Collect, TypeOK, Actors
    <2>5. \A t \in Threads : hand'[t] = hand[t]
      BY <2>2, StreamAggAssumption DEF Collect, TypeOK, Actors
    <2> QED
      BY <1>1, <2>1, <2>3, <2>4, <2>5 DEF Actors
  <1>8. ASSUME NEW r \in Requests, JanitorEmit(r) PROVE RunInv'
    BY <1>5, <1>8 DEF JanitorEmit, Actors
  <1>9. ASSUME JanitorReturn \/ Age \/ Close PROVE RunInv'
    BY <1>1, <1>9 DEF JanitorReturn, Age, Close
  <1> QED
    BY <1>2, <1>3, <1>4, <1>6, <1>7, <1>8, <1>9 DEF Next, ThreadStep, JanitorStep

LEMMA RunInvariant == Spec => []RunInv
  <1>1. Init => RunInv
    BY DEF Init, RunInv, EmptyHand
  <1>2. TypeOK /\ PartInv /\ RunInv /\ [Next]_vars => RunInv'
    <2>1. ASSUME RunInv, UNCHANGED vars PROVE RunInv'
      BY <2>1 DEF vars, RunInv, IsRun
    <2> QED
      BY <2>1, RunStep
  <1> QED
    BY <1>1, <1>2, TypeCorrect, PartInvariant, PTL DEF Spec

\* Giving a buffer to finalize is the ledger's WriteRow.
LEMMA EmitIsWriteRow ==
  ASSUME TypeOK, PartInv, RunInv, NEW a \in Actors, NEW r \in Requests,
         Emit(a, r), UNCHANGED accepted
  PROVE  Ledger!WriteRow(r)
  <1>1. PICK lo \in 1 .. accepted[r], hi \in 1 .. accepted[r] :
           lo <= hi /\ hand[a][r] = lo .. hi
    BY DEF RunInv, IsRun, Emit
  <1>2. (lo .. hi) \cap Ledger!Written(r) = {}
    BY <1>1 DEF PartInv, Disjoint, Written, Ledger!Written
  <1>3. rows' = [rows EXCEPT ![r] = Append(@, lo .. hi)]
    BY <1>1 DEF Emit
  <1> QED
    BY <1>1, <1>2, <1>3 DEF Ledger!WriteRow

LEMMA LedgerStep ==
  TypeOK /\ PartInv /\ RunInv /\ Next => Ledger!Next \/ UNCHANGED <<accepted, rows>>
  <1> SUFFICES ASSUME TypeOK, PartInv, RunInv, Next
               PROVE  Ledger!Next \/ UNCHANGED <<accepted, rows>>
    OBVIOUS
  <1>1. ASSUME NEW t \in Threads, Fold(t) \/ FoldLast(t) PROVE Ledger!Next
    <2>1. call[t].req \in Requests
      BY <1>1 DEF Fold, FoldLast, MayFold, TypeOK
    <2>2. Ledger!Accept(call[t].req)
      BY <1>1 DEF Fold, FoldLast, Ledger!Accept
    <2> QED
      BY <2>1, <2>2 DEF Ledger!Next
  <1>2. ASSUME NEW t \in Threads, EmitVictim(t) \/ EmitOut(t) PROVE Ledger!Next
    BY <1>2, EmitIsWriteRow DEF EmitVictim, EmitOut, Actors, Ledger!Next
  <1>3. ASSUME NEW r \in Requests, JanitorEmit(r) PROVE Ledger!Next
    BY <1>3, EmitIsWriteRow DEF JanitorEmit, Actors, Ledger!Next
  <1>4. ASSUME NEW t \in Threads, NEW r \in Requests, NEW end \in BOOLEAN,
               AddCall(t, r, end)
        PROVE  UNCHANGED <<accepted, rows>>
    BY <1>4 DEF AddCall
  <1>5. ASSUME NEW t \in Threads, Evict(t) PROVE UNCHANGED <<accepted, rows>>
    BY <1>5 DEF Evict
  <1>6. ASSUME Sweep \/ FlushAll \/ JanitorReturn \/ Age \/ Close
        PROVE  UNCHANGED <<accepted, rows>>
    BY <1>6 DEF Sweep, FlushAll, JanitorReturn, Age, Close
  <1> QED
    BY <1>1, <1>2, <1>3, <1>4, <1>5, <1>6 DEF Next, ThreadStep, JanitorStep

\* Every behaviour of the aggregator is a behaviour of the ledger: response
\* rows are disjoint runs of consecutive accepted chunks.
THEOREM ImplementsLedger == Spec => LedgerSpec
  <1>1. Init => Ledger!Init
    BY DEF Init, Ledger!Init
  <1>2. TypeOK /\ PartInv /\ RunInv /\ [Next]_vars => [Ledger!Next]_(Ledger!vars)
    <2>1. UNCHANGED vars => UNCHANGED Ledger!vars
      BY DEF vars, Ledger!vars
    <2> QED
      BY <2>1, LedgerStep DEF Ledger!vars
  <1> QED
    BY <1>1, <1>2, TypeCorrect, PartInvariant, RunInvariant, PTL
    DEF Spec, LedgerSpec, Ledger!Spec
=============================================================================
