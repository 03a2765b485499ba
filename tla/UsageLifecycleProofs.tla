------------------------ MODULE UsageLifecycleProofs ------------------------
(***************************************************************************)
(* Proofs about UsageLifecycle, for any number of goroutines, paths,       *)
(* handles, records and hours: the types (with who holds storeMu), that no *)
(* acknowledged record is lost, that the published store is the only open  *)
(* one, and that the whole implements UsageLedger.                         *)
(*                                                                         *)
(* The argument: what a goroutine carries in its locals stays true however *)
(* the shared state moves, because handles, records, the clock, the asked  *)
(* retentions and the removed ids only ever grow (Fits, Grow, Moves).  The *)
(* other invariants then follow action by action.                          *)
(***************************************************************************)
EXTENDS UsageLifecycle, TLAPS

-----------------------------------------------------------------------------
(*****************************************************************************)
(* Type correctness                                                          *)
(*****************************************************************************)

\* Where a goroutine can be.
PCs == {"idle", "insert", "delete", "days", "slot", "cleanStore", "sweep", "lock",
        "ensure", "replace", "reset"}

\* The locals over given handles, records, times and sets of ids.
LocsOf(handles, records, times, idSets) ==
    [store : handles, rec : records, path : Paths \cup {NoPath}, days : Nat,
     now : times, ids : idSets]

\* The locals a goroutine can have now.
LocSet == LocsOf(0 .. Len(paths), 0 .. Len(stamps), 0 .. clock, SUBSET Records)

\* What a goroutine at w relies on: its handle was opened, its record exists, the
\* ids it deletes were asked for, its path is one, its retention was asked for.
Fits(w, l, handles, records, days, ids) ==
    /\ w \in {"insert", "delete", "sweep", "replace"} => l.store \in handles
    /\ w = "insert" => l.rec \in records
    /\ w = "delete" => l.ids \subseteq ids
    /\ w \in {"lock", "ensure", "replace", "reset"} => l.path \in Paths
    /\ w \in {"slot", "cleanStore", "sweep"} => l.days \in days \ {0}

\* It relies on what is true now.
Sound(w, l) == Fits(w, l, Handles, Records, asked, removed)

\* Every goroutine is somewhere, with locals it can rely on.
Locals == /\ pc \in [Goroutines -> PCs]
          /\ loc \in [Goroutines -> LocSet]
          /\ \A t \in Goroutines : Sound(pc[t], loc[t])

\* The types of the shared state.  The retention in force was asked for.
Data ==
    /\ files \in [Paths -> SUBSET Records]
    /\ stored \in [Paths -> SUBSET Records]
    /\ removed \subseteq Records
    /\ paths \in Seq(Paths)
    /\ shut \subseteq Handles
    /\ leaked \subseteq Handles
    /\ globalStore \in 0 .. Len(paths)
    /\ currentDBPath \in Paths \cup {NoPath}
    /\ clock \in Nat
    /\ lastCleanup \in {Never} \cup 0 .. clock
    /\ stamps \in Seq(0 .. clock)
    /\ configs \in Nat
    /\ asked \subseteq Nat
    /\ retention \in asked \cup {0}

\* Exactly the goroutine inside ensureStore holds storeMu.
Lock1 == /\ storeMu \in Configurers \cup {Nobody}
         /\ \A c \in Configurers : pc[c] \in {"ensure", "replace"} <=> storeMu = c

\* The inductive form of TypeOK.
Typed == Data /\ Locals /\ Lock1

\* What only ever grows.
Grow == /\ Len(paths) \in Nat /\ Len(paths') \in Nat /\ Len(paths) <= Len(paths')
        /\ Len(stamps) \in Nat /\ Len(stamps') \in Nat /\ Len(stamps) <= Len(stamps')
        /\ clock \in Nat /\ clock' \in Nat /\ clock <= clock'
        /\ asked \subseteq asked' /\ removed \subseteq removed'

\* One goroutine goes on, with locals it can rely on after the step.
Goes == \E t \in Goroutines, w \in PCs, l \in LocSet' :
            /\ Goto(t, w, l)
            /\ Fits(w, l, Handles', Records', asked', removed')

\* The locals of an idle goroutine are locals, whatever the sets.
LEMMA NoLocalsIn ==
  ASSUME NEW H, NEW R, NEW N, NEW I, 0 \in H, 0 \in R, 0 \in N, {} \in I
  PROVE  NoLocals \in LocsOf(H, R, N, I)
  BY DEF NoLocals, LocsOf

\* Setting the two fields an operation starts with gives locals again.
LEMMA TwoFields ==
  ASSUME NEW H, NEW R, NEW N, NEW I, NEW l \in LocsOf(H, R, N, I)
  PROVE  /\ \A h \in H, r \in R : [l EXCEPT !.store = h, !.rec = r] \in LocsOf(H, R, N, I)
         /\ \A h \in H, S \in I : [l EXCEPT !.store = h, !.ids = S] \in LocsOf(H, R, N, I)
         /\ \A p \in Paths, d \in Nat :
               [l EXCEPT !.path = p, !.days = d] \in LocsOf(H, R, N, I)
  BY DEF LocsOf

\* The locals of an idle goroutine are typed.
LEMMA NoLocalsTyped == Data => NoLocals \in LocSet
  BY DEF NoLocals, LocSet, LocsOf, Data, Records

\* When the state grows, what was typed stays typed.
LEMMA SetsGrow == Grow => /\ LocSet \subseteq LocSet'
                          /\ Handles \subseteq Handles' /\ Records \subseteq Records'
  <1> SUFFICES ASSUME Grow
               PROVE /\ LocSet \subseteq LocSet'
                          /\ Handles \subseteq Handles' /\ Records \subseteq Records'
    OBVIOUS
  <1>1. Handles \subseteq Handles' /\ Records \subseteq Records'
    BY DEF Grow, Handles, Records
  <1>2. /\ 0 .. Len(paths) \subseteq 0 .. Len(paths')
        /\ 0 .. Len(stamps) \subseteq 0 .. Len(stamps')
        /\ 0 .. clock \subseteq 0 .. clock'
        /\ SUBSET Records \subseteq SUBSET Records'
    BY <1>1 DEF Grow
  <1> QED
    BY <1>1, <1>2 DEF LocSet, LocsOf

\* Setting one field to a typed value gives typed locals.
LEMMA LocUpdate ==
  ASSUME Data, NEW l \in LocSet
  PROVE  /\ \A d \in Nat : [l EXCEPT !.days = d] \in LocSet
         /\ \A n \in 0 .. clock : [l EXCEPT !.now = n] \in LocSet
         /\ \A h \in 0 .. Len(paths) : [l EXCEPT !.store = h] \in LocSet
         /\ \A S \in SUBSET Records : [l EXCEPT !.ids = S] \in LocSet
  BY DEF LocSet, LocsOf

\* The types of the locals depend on the handles, the records and the clock only.
LEMMA Same ==
  ASSUME Data, UNCHANGED <<paths, stamps, clock>>
  PROVE  LocSet' = LocSet /\ Handles' = Handles /\ Records' = Records
  BY DEF LocSet, LocsOf, Handles, Records

\* When the state grows and one goroutine goes on soundly, all stay sound: the
\* locals of the others rely on nothing that can be taken back.
LEMMA Moves ==
  ASSUME Locals, Grow, Goes
  PROVE  Locals'
  <1>1. PICK t \in Goroutines, w \in PCs, l \in LocSet' :
               Goto(t, w, l) /\ Fits(w, l, Handles', Records', asked', removed')
    BY DEF Goes
  <1>2. LocSet \subseteq LocSet' /\ Handles \subseteq Handles' /\ Records \subseteq Records'
    BY SetsGrow
  <1>3. pc' \in [Goroutines -> PCs] /\ loc' \in [Goroutines -> LocSet']
    BY <1>1, <1>2 DEF Goto, Locals
  <1>4. ASSUME NEW u \in Goroutines PROVE Sound(pc[u], loc[u])'
    <2>1. CASE u = t
      BY <1>1, <2>1 DEF Goto, Locals, Sound, Fits
    <2>2. CASE u # t
      <3>1. pc'[u] = pc[u] /\ loc'[u] = loc[u]
        BY <1>1, <2>2 DEF Goto, Locals
      <3>2. Sound(pc[u], loc[u])
        BY DEF Locals
      <3> QED
        BY <1>2, <3>1, <3>2 DEF Sound, Fits, Grow
    <2> QED
      BY <2>1, <2>2
  <1> QED
    BY <1>3, <1>4 DEF Locals

\* No step takes back a handle, a record, an hour, a retention or a removal.
LEMMA Grows == Data /\ [Next]_vars => Grow
  <1> SUFFICES ASSUME Data, [Next]_vars PROVE Grow
    OBVIOUS
  <1>1. ASSUME NEW t \in Handlers, NEW ts \in 0 .. clock, HandleUsage(t, ts)
        PROVE  Grow
    BY <1>1
    DEF HandleUsage, storeVars, fileVars, timeVars, Grow, Data
  <1>2. ASSUME NEW t \in Handlers, Insert(t)
        PROVE  Grow
    BY <1>2
    DEF Insert, storeVars, fileVars, timeVars, Grow, Data
  <1>3. ASSUME NEW t \in Handlers, InsertFails(t)
        PROVE  Grow
    BY <1>3
    DEF InsertFails, storeVars, fileVars, timeVars, Grow, Data
  <1>4. ASSUME NEW t \in Handlers, NEW ids \in SUBSET DOMAIN stamps, DeleteUsage(t, ids)
        PROVE  Grow
    BY <1>4
    DEF DeleteUsage, storeVars, fileVars, timeVars, Grow, Data
  <1>5. ASSUME NEW t \in Handlers, NEW n \in DOMAIN stamps, DeleteOne(t, n)
        PROVE  Grow
    BY <1>5
    DEF DeleteOne, storeVars, fileVars, timeVars, Grow, Data
  <1>6. ASSUME NEW t \in Handlers, DeleteFails(t)
        PROVE  Grow
    BY <1>6
    DEF DeleteFails, storeVars, fileVars, timeVars, Grow, Data
  <1>7. ASSUME NEW t \in Goroutines, NoRetention(t)
        PROVE  Grow
    BY <1>7
    DEF NoRetention, storeVars, fileVars, timeVars, Grow, Data
  <1>8. ASSUME NEW t \in Goroutines, LoadDays(t)
        PROVE  Grow
    BY <1>8
    DEF LoadDays, storeVars, fileVars, timeVars, Grow, Data
  <1>9. ASSUME NEW t \in Goroutines, SlotTaken(t)
        PROVE  Grow
    BY <1>9
    DEF SlotTaken, storeVars, fileVars, timeVars, Grow, Data
  <1>10. ASSUME NEW t \in Goroutines, TakeSlot(t)
        PROVE  Grow
    BY <1>10
    DEF TakeSlot, storeVars, fileVars, timeVars, Grow, Data
  <1>11. ASSUME NEW t \in Goroutines, CleanStore(t)
        PROVE  Grow
    BY <1>11
    DEF CleanStore, storeVars, fileVars, timeVars, Grow, Data
  <1>12. ASSUME NEW t \in Goroutines, DeleteBefore(t)
        PROVE  Grow
    BY <1>12
    DEF DeleteBefore, storeVars, fileVars, timeVars, Grow, Data
  <1>13. ASSUME NEW t \in Goroutines, DeleteBeforeFails(t)
        PROVE  Grow
    BY <1>13
    DEF DeleteBeforeFails, storeVars, fileVars, timeVars, Grow, Data
  <1>14. ASSUME NEW c \in Configurers, NEW p \in Paths, NEW d \in Retentions, Configure(c, p, d)
        PROVE  Grow
    BY <1>14
    DEF Configure, storeVars, fileVars, timeVars, Grow, Data
  <1>15. ASSUME NEW c \in Configurers, ResolveFails(c)
        PROVE  Grow
    BY <1>15
    DEF ResolveFails, storeVars, fileVars, timeVars, Grow, Data
  <1>16. ASSUME NEW c \in Configurers, Lock(c)
        PROVE  Grow
    BY <1>16
    DEF Lock, storeVars, fileVars, timeVars, Grow, Data
  <1>17. ASSUME NEW c \in Configurers, KeepStore(c)
        PROVE  Grow
    BY <1>17
    DEF KeepStore, storeVars, fileVars, timeVars, Grow, Data
  <1>18. ASSUME NEW c \in Configurers, OpenStore(c)
        PROVE  Grow
    BY <1>18
    DEF OpenStore, storeVars, fileVars, timeVars, Grow, Data
  <1>19. ASSUME NEW c \in Configurers, OpenFails(c)
        PROVE  Grow
    BY <1>19
    DEF OpenFails, storeVars, fileVars, timeVars, Grow, Data
  <1>20. ASSUME NEW c \in Configurers, ReplaceStore(c)
        PROVE  Grow
    BY <1>20
    DEF ReplaceStore, storeVars, fileVars, timeVars, Grow, Data
  <1>21. ASSUME NEW c \in Configurers, ResetSlot(c)
        PROVE  Grow
    BY <1>21
    DEF ResetSlot, storeVars, fileVars, timeVars, Grow, Data
  <1>22. ASSUME NEW c \in Configurers, CloseStore(c)
        PROVE  Grow
    BY <1>22
    DEF CloseStore, storeVars, fileVars, timeVars, Grow, Data
  <1>23. CASE Tick
    BY <1>23
    DEF Tick, storeVars, fileVars, timeVars, Grow, Data
  <1>24. CASE UNCHANGED vars
    BY <1>24 DEF vars, storeVars, fileVars, timeVars, Grow, Data
  <1> QED
    BY <1>1, <1>2, <1>3, <1>4, <1>5, <1>6, <1>7, <1>8, <1>9, <1>10, <1>11, <1>12,
       <1>13, <1>14, <1>15, <1>16, <1>17, <1>18, <1>19, <1>20, <1>21, <1>22, <1>23,
       <1>24
    DEF Next, Cleanup, HandlerStep, ConfigStep

\* Every step keeps the types of the shared state.
LEMMA DataStep == Typed /\ [Next]_vars => Data'
  <1> SUFFICES ASSUME Typed, [Next]_vars PROVE Data'
    OBVIOUS
  <1>1. ASSUME NEW t \in Handlers, NEW ts \in 0 .. clock, HandleUsage(t, ts)
        PROVE  Data'
    <2>1. /\ Len(stamps) \in Nat /\ stamps' \in Seq(0 .. clock)
          /\ Len(stamps') = Len(stamps) + 1
      BY <1>1 DEF HandleUsage, Typed, Data
    <2>2. Records \subseteq Records'
      BY <2>1 DEF Records
    <2>3. /\ files' \in [Paths -> SUBSET Records'] /\ stored' \in [Paths -> SUBSET Records']
          /\ removed' \subseteq Records'
      BY <1>1, <2>2 DEF HandleUsage, fileVars, Typed, Data
    <2> QED
      BY <1>1, <2>1, <2>3
      DEF HandleUsage, storeVars, timeVars, Typed, Data, Handles
  <1>2. ASSUME NEW t \in Handlers, Insert(t)
        PROVE  Data'
    BY <1>2, SMTT(20)
    DEF Insert, storeVars, fileVars, timeVars, Data, Typed, Locals, LocSet, LocsOf,
        Sound, Fits, Goroutines, Records, Handles
  <1>3. ASSUME NEW t \in Handlers, InsertFails(t)
        PROVE  Data'
    BY <1>3
    DEF InsertFails, storeVars, fileVars, timeVars, Data, Typed, Locals, LocSet,
        LocsOf, Sound, Fits, Goroutines, Records, Handles
  <1>4. ASSUME NEW t \in Handlers, NEW ids \in SUBSET DOMAIN stamps, DeleteUsage(t, ids)
        PROVE  Data'
    <2>1. ids \subseteq Records /\ Records' = Records
      BY <1>4 DEF DeleteUsage, Typed, Data, Records
    <2> QED
      BY <1>4, <2>1 DEF DeleteUsage, storeVars, timeVars, Typed, Data, Handles
  <1>5. ASSUME NEW t \in Handlers, NEW n \in DOMAIN stamps, DeleteOne(t, n)
        PROVE  Data'
    BY <1>5
    DEF DeleteOne, storeVars, fileVars, timeVars, Data, Typed, Locals, LocSet,
        LocsOf, Sound, Fits, Goroutines, Records, Handles
  <1>6. ASSUME NEW t \in Handlers, DeleteFails(t)
        PROVE  Data'
    BY <1>6
    DEF DeleteFails, storeVars, fileVars, timeVars, Data, Typed, Locals, LocSet,
        LocsOf, Sound, Fits, Goroutines, Records, Handles
  <1>7. ASSUME NEW t \in Goroutines, NoRetention(t)
        PROVE  Data'
    BY <1>7
    DEF NoRetention, storeVars, fileVars, timeVars, Data, Typed, Locals, LocSet,
        LocsOf, Sound, Fits, Goroutines, Records, Handles
  <1>8. ASSUME NEW t \in Goroutines, LoadDays(t)
        PROVE  Data'
    BY <1>8
    DEF LoadDays, storeVars, fileVars, timeVars, Data, Typed, Locals, LocSet,
        LocsOf, Sound, Fits, Goroutines, Records, Handles
  <1>9. ASSUME NEW t \in Goroutines, SlotTaken(t)
        PROVE  Data'
    BY <1>9
    DEF SlotTaken, storeVars, fileVars, timeVars, Data, Typed, Locals, LocSet,
        LocsOf, Sound, Fits, Goroutines, Records, Handles
  <1>10. ASSUME NEW t \in Goroutines, TakeSlot(t)
        PROVE  Data'
    BY <1>10
    DEF TakeSlot, storeVars, fileVars, timeVars, Data, Typed, Locals, LocSet,
        LocsOf, Sound, Fits, Goroutines, Records, Handles
  <1>11. ASSUME NEW t \in Goroutines, CleanStore(t)
        PROVE  Data'
    BY <1>11
    DEF CleanStore, storeVars, fileVars, timeVars, Data, Typed, Locals, LocSet,
        LocsOf, Sound, Fits, Goroutines, Records, Handles
  <1>12. ASSUME NEW t \in Goroutines, DeleteBefore(t)
        PROVE  Data'
    BY <1>12
    DEF DeleteBefore, storeVars, fileVars, timeVars, Data, Typed, Locals, LocSet,
        LocsOf, Sound, Fits, Goroutines, Records, Handles
  <1>13. ASSUME NEW t \in Goroutines, DeleteBeforeFails(t)
        PROVE  Data'
    BY <1>13
    DEF DeleteBeforeFails, storeVars, fileVars, timeVars, Data, Typed, Locals,
        LocSet, LocsOf, Sound, Fits, Goroutines, Records, Handles
  <1>14. ASSUME NEW c \in Configurers, NEW p \in Paths, NEW d \in Retentions, Configure(c, p, d)
        PROVE  Data'
    <2>1. d \in Nat
      BY UsageLifecycleAssumption
    <2> QED
      BY <1>14, <2>1, SMTT(20)
      DEF Configure, storeVars, fileVars, Typed, Data, Handles, Records
  <1>15. ASSUME NEW c \in Configurers, ResolveFails(c)
        PROVE  Data'
    BY <1>15
    DEF ResolveFails, storeVars, fileVars, timeVars, Data, Typed, Locals, LocSet,
        LocsOf, Sound, Fits, Goroutines, Records, Handles
  <1>16. ASSUME NEW c \in Configurers, Lock(c)
        PROVE  Data'
    BY <1>16
    DEF Lock, storeVars, fileVars, timeVars, Data, Typed, Locals, LocSet, LocsOf,
        Sound, Fits, Goroutines, Records, Handles
  <1>17. ASSUME NEW c \in Configurers, KeepStore(c)
        PROVE  Data'
    BY <1>17
    DEF KeepStore, storeVars, fileVars, timeVars, Data, Typed, Locals, LocSet,
        LocsOf, Sound, Fits, Goroutines, Records, Handles
  <1>18. ASSUME NEW c \in Configurers, OpenStore(c)
        PROVE  Data'
    <2>1. loc[c].path \in Paths
      BY <1>18 DEF OpenStore, Typed, Locals, Sound, Fits, Goroutines
    <2>2. /\ paths' \in Seq(Paths) /\ Len(paths) \in Nat /\ Len(paths') = Len(paths) + 1
      BY <1>18, <2>1 DEF OpenStore, Typed, Data
    <2>3. Handles \subseteq Handles'
      BY <2>2 DEF Handles
    <2> QED
      BY <1>18, <2>2, <2>3, SMTT(20) DEF OpenStore, fileVars, timeVars, Typed, Data, Records
  <1>19. ASSUME NEW c \in Configurers, OpenFails(c)
        PROVE  Data'
    <2>1. loc[c].path \in Paths
      BY <1>19 DEF OpenFails, Typed, Locals, Sound, Fits, Goroutines
    <2>2. CASE UNCHANGED <<paths, shut, leaked>>
      BY <1>19, <2>2
      DEF OpenFails, fileVars, timeVars, Typed, Data, Records, Handles
    <2>3. CASE paths' = Append(paths, loc[c].path)
      <3>1. /\ paths' \in Seq(Paths) /\ Len(paths) \in Nat /\ Len(paths') = Len(paths) + 1
        BY <2>1, <2>3 DEF Typed, Data
      <3>2. Handles \subseteq Handles' /\ Len(paths') \in Handles'
        BY <3>1 DEF Handles
      <3>3. shut' \subseteq Handles' /\ leaked' \subseteq Handles'
        BY <1>19, <3>2 DEF OpenFails, Typed, Data
      <3> QED
        BY <1>19, <3>1, <3>3 DEF OpenFails, fileVars, timeVars, Typed, Data, Records
    <2> QED
      BY <1>19, <2>2, <2>3 DEF OpenFails
  <1>20. ASSUME NEW c \in Configurers, ReplaceStore(c)
        PROVE  Data'
    BY <1>20, SMTT(20)
    DEF ReplaceStore, storeVars, fileVars, timeVars, Data, Typed, Locals, LocSet,
        LocsOf, Sound, Fits, Goroutines, Records, Handles
  <1>21. ASSUME NEW c \in Configurers, ResetSlot(c)
        PROVE  Data'
    BY <1>21
    DEF ResetSlot, storeVars, fileVars, timeVars, Data, Typed, Locals, LocSet,
        LocsOf, Sound, Fits, Goroutines, Records, Handles
  <1>22. ASSUME NEW c \in Configurers, CloseStore(c)
        PROVE  Data'
    <2>1. globalStore \in Handles
      BY <1>22 DEF CloseStore, Typed, Data, Handles
    <2> QED
      BY <1>22, <2>1
      DEF CloseStore, fileVars, timeVars, Typed, Data, Records, Handles
  <1>23. CASE Tick
    <2>1. clock \in Nat /\ clock' = clock + 1 /\ 0 .. clock \subseteq 0 .. clock'
      BY <1>23 DEF Tick, Typed, Data
    <2>2. stamps' \in Seq(0 .. clock')
      BY <1>23, <2>1 DEF Tick, Typed, Data
    <2>3. lastCleanup' \in {Never} \cup 0 .. clock'
      BY <1>23, <2>1 DEF Tick, Typed, Data
    <2> QED
      BY <1>23, <2>1, <2>2, <2>3
      DEF Tick, storeVars, fileVars, Typed, Data, Records, Handles
  <1>24. CASE UNCHANGED vars
    BY <1>24
    DEF vars, storeVars, fileVars, timeVars, Data, Typed, Locals, LocSet, LocsOf,
        Sound, Fits, Goroutines, Records, Handles
  <1> QED
    BY <1>1, <1>2, <1>3, <1>4, <1>5, <1>6, <1>7, <1>8, <1>9, <1>10, <1>11, <1>12,
       <1>13, <1>14, <1>15, <1>16, <1>17, <1>18, <1>19, <1>20, <1>21, <1>22, <1>23,
       <1>24
    DEF Next, Cleanup, HandlerStep, ConfigStep

\* Every step moves one goroutine soundly, or none.
LEMMA GoesStep == Typed /\ [Next]_vars => Goes \/ UNCHANGED <<pc, loc>>
  <1> SUFFICES ASSUME Typed, [Next]_vars PROVE Goes \/ UNCHANGED <<pc, loc>>
    OBVIOUS
  <1>1. ASSUME NEW t \in Handlers, NEW ts \in 0 .. clock, HandleUsage(t, ts)
        PROVE  Goes \/ UNCHANGED <<pc, loc>>
    <2> DEFINE l == [NoLocals EXCEPT !.store = globalStore, !.rec = Len(stamps')]
    <2>1. Goto(t, "insert", l)
      BY <1>1 DEF HandleUsage
    <2>2. /\ Len(stamps') \in Nat /\ Len(stamps') > 0
          /\ globalStore \in 0 .. Len(paths) /\ globalStore # 0
          /\ UNCHANGED <<paths, clock, asked, removed>>
      BY <1>1 DEF HandleUsage, storeVars, fileVars, timeVars, Typed, Data
    <2>3. globalStore \in 0 .. Len(paths') /\ Len(stamps') \in 0 .. Len(stamps')
      BY <2>2
    <2>4. l \in LocSet' /\ l.store = globalStore /\ l.rec = Len(stamps')
      <3>1. NoLocals \in LocSet'
        BY <2>2, NoLocalsIn DEF LocSet, Typed, Data
      <3>2. l \in LocSet'
        BY <2>3, <3>1, TwoFields DEF LocSet
      <3>3. l.store = globalStore /\ l.rec = Len(stamps')
        BY DEF NoLocals
      <3> QED
        BY <3>2, <3>3
    <2>5. Fits("insert", l, Handles', Records', asked', removed')
      BY <2>2, <2>4 DEF Sound, Fits, Handles, Records
    <2> QED
      BY <2>1, <2>4, <2>5 DEF Goes, PCs, Goroutines
  <1>2. ASSUME NEW t \in Handlers, Insert(t)
        PROVE  Goes \/ UNCHANGED <<pc, loc>>
    BY <1>2, NoLocalsTyped, ZenonT(30)
    DEF Insert, storeVars, fileVars, timeVars, Data, Typed, Locals, Sound, Fits,
        Goroutines, Records, Handles, Goes, Return, PCs, LocSet, LocsOf, NoLocals
  <1>3. ASSUME NEW t \in Handlers, InsertFails(t)
        PROVE  Goes \/ UNCHANGED <<pc, loc>>
    BY <1>3, NoLocalsTyped, ZenonT(30)
    DEF InsertFails, storeVars, fileVars, timeVars, Data, Typed, Locals, Sound,
        Fits, Goroutines, Records, Handles, Goes, Return, PCs, LocSet, LocsOf,
        NoLocals
  <1>4. ASSUME NEW t \in Handlers, NEW ids \in SUBSET DOMAIN stamps, DeleteUsage(t, ids)
        PROVE  Goes \/ UNCHANGED <<pc, loc>>
    <2> DEFINE l == [NoLocals EXCEPT !.store = globalStore, !.ids = ids]
    <2>1. Goto(t, "delete", l) /\ removed' = removed \cup ids
      BY <1>4 DEF DeleteUsage
    <2>2. /\ ids \subseteq Records /\ globalStore \in 0 .. Len(paths) /\ globalStore # 0
          /\ UNCHANGED <<paths, clock, asked, stamps>>
      BY <1>4 DEF DeleteUsage, storeVars, timeVars, Typed, Data, Records
    <2>3. l \in LocSet' /\ l.store = globalStore /\ l.ids = ids
      <3>1. NoLocals \in LocSet'
        BY <2>2, NoLocalsIn DEF LocSet, Typed, Data
      <3>2. globalStore \in 0 .. Len(paths') /\ ids \in SUBSET Records'
        BY <2>2 DEF Records
      <3>3. l \in LocSet'
        BY <3>1, <3>2, TwoFields DEF LocSet
      <3>4. l.store = globalStore /\ l.ids = ids
        BY DEF NoLocals
      <3> QED
        BY <3>3, <3>4
    <2>4. Fits("delete", l, Handles', Records', asked', removed')
      BY <2>1, <2>2, <2>3 DEF Sound, Fits, Handles
    <2> QED
      BY <2>1, <2>3, <2>4 DEF Goes, PCs, Goroutines
  <1>5. ASSUME NEW t \in Handlers, NEW n \in DOMAIN stamps, DeleteOne(t, n)
        PROVE  Goes \/ UNCHANGED <<pc, loc>>
    <2> DEFINE rest == loc[t].ids \ {n}
    <2>1. /\ UNCHANGED <<paths, clock, asked, stamps, removed>>
          /\ \/ Goto(t, "idle", NoLocals)
             \/ Goto(t, "delete", [loc[t] EXCEPT !.ids = rest])
      BY <1>5 DEF DeleteOne, Return, storeVars, timeVars
    <2>2. loc[t] \in LocSet /\ Sound("delete", loc[t]) /\ t \in Goroutines
      BY <1>5 DEF DeleteOne, Typed, Locals, Goroutines
    <2>3. LocSet' = LocSet /\ Handles' = Handles /\ Records' = Records
      BY <2>1, Same DEF Typed
    <2>4. CASE Goto(t, "idle", NoLocals)
      BY <2>2, <2>3, <2>4, NoLocalsTyped DEF Goes, PCs, Sound, Fits, Typed
    <2>5. CASE Goto(t, "delete", [loc[t] EXCEPT !.ids = rest])
      <3>1. rest \in SUBSET Records
        BY <2>2 DEF LocSet, LocsOf
      <3>2. [loc[t] EXCEPT !.ids = rest] \in LocSet
        BY <2>2, <3>1, LocUpdate DEF Typed
      <3>3. Fits("delete", [loc[t] EXCEPT !.ids = rest], Handles', Records', asked', removed')
        BY <2>1, <2>2, <2>3 DEF Sound, Fits, LocSet, LocsOf
      <3> QED
        BY <2>2, <2>3, <2>5, <3>2, <3>3 DEF Goes, PCs
    <2> QED
      BY <2>1, <2>4, <2>5
  <1>6. ASSUME NEW t \in Handlers, DeleteFails(t)
        PROVE  Goes \/ UNCHANGED <<pc, loc>>
    BY <1>6, NoLocalsTyped, ZenonT(30)
    DEF DeleteFails, storeVars, fileVars, timeVars, Data, Typed, Locals, Sound,
        Fits, Goroutines, Records, Handles, Goes, Return, PCs, LocSet, LocsOf,
        NoLocals
  <1>7. ASSUME NEW t \in Goroutines, NoRetention(t)
        PROVE  Goes \/ UNCHANGED <<pc, loc>>
    BY <1>7, NoLocalsTyped
    DEF NoRetention, storeVars, fileVars, timeVars, Data, Typed, Locals, Sound,
        Fits, Goroutines, Records, Handles, Goes, Return, PCs, LocSet, LocsOf,
        NoLocals
  <1>8. ASSUME NEW t \in Goroutines, LoadDays(t)
        PROVE  Goes \/ UNCHANGED <<pc, loc>>
    <2>1. /\ UNCHANGED <<paths, clock, asked, stamps, removed>>
          /\ Goto(t, "slot", [loc[t] EXCEPT !.days = retention])
      BY <1>8 DEF LoadDays, storeVars, fileVars, timeVars
    <2>2. loc[t] \in LocSet /\ retention \in asked \ {0} /\ retention \in Nat
      BY <1>8 DEF LoadDays, Typed, Locals, Data
    <2>3. LocSet' = LocSet
      BY <2>1, Same DEF Typed
    <2>4. [loc[t] EXCEPT !.days = retention] \in LocSet
      BY <2>2, LocUpdate DEF Typed
    <2>5. Fits("slot", [loc[t] EXCEPT !.days = retention], Handles', Records', asked', removed')
      BY <2>1, <2>2 DEF Sound, Fits, LocSet, LocsOf
    <2> QED
      BY <2>1, <2>3, <2>4, <2>5 DEF Goes, PCs
  <1>9. ASSUME NEW t \in Goroutines, SlotTaken(t)
        PROVE  Goes \/ UNCHANGED <<pc, loc>>
    BY <1>9, NoLocalsTyped
    DEF SlotTaken, storeVars, fileVars, timeVars, Data, Typed, Locals, Sound, Fits,
        Goroutines, Records, Handles, Goes, Return, PCs, LocSet, LocsOf, NoLocals
  <1>10. ASSUME NEW t \in Goroutines, TakeSlot(t)
        PROVE  Goes \/ UNCHANGED <<pc, loc>>
    <2>1. /\ UNCHANGED <<paths, clock, asked, stamps, removed>>
          /\ Goto(t, "cleanStore", [loc[t] EXCEPT !.now = clock])
      BY <1>10 DEF TakeSlot, storeVars, fileVars
    <2>2. loc[t] \in LocSet /\ Sound("slot", loc[t]) /\ clock \in 0 .. clock
      BY <1>10 DEF TakeSlot, Typed, Locals, Data
    <2>3. LocSet' = LocSet
      BY <2>1, Same DEF Typed
    <2>4. [loc[t] EXCEPT !.now = clock] \in LocSet
      BY <2>2, LocUpdate DEF Typed
    <2>5. Fits("cleanStore", [loc[t] EXCEPT !.now = clock], Handles', Records', asked', removed')
      BY <2>1, <2>2 DEF Sound, Fits, LocSet, LocsOf
    <2> QED
      BY <2>1, <2>3, <2>4, <2>5 DEF Goes, PCs
  <1>11. ASSUME NEW t \in Goroutines, CleanStore(t)
        PROVE  Goes \/ UNCHANGED <<pc, loc>>
    <2>1. /\ UNCHANGED <<paths, clock, asked, stamps, removed>>
          /\ \/ Goto(t, "idle", NoLocals)
             \/ globalStore # 0 /\ Goto(t, "sweep", [loc[t] EXCEPT !.store = globalStore])
      BY <1>11 DEF CleanStore, Return, storeVars, fileVars, timeVars
    <2>2. loc[t] \in LocSet /\ Sound("cleanStore", loc[t]) /\ globalStore \in 0 .. Len(paths)
      BY <1>11 DEF CleanStore, Typed, Locals, Data
    <2>3. LocSet' = LocSet /\ Handles' = Handles
      BY <2>1, Same DEF Typed
    <2>4. CASE Goto(t, "idle", NoLocals)
      BY <2>3, <2>4, NoLocalsTyped DEF Goes, PCs, Sound, Fits, Typed
    <2>5. CASE globalStore # 0 /\ Goto(t, "sweep", [loc[t] EXCEPT !.store = globalStore])
      <3>1. [loc[t] EXCEPT !.store = globalStore] \in LocSet
        BY <2>2, LocUpdate DEF Typed
      <3>2. Fits("sweep", [loc[t] EXCEPT !.store = globalStore], Handles', Records', asked', removed')
        BY <2>1, <2>2, <2>3, <2>5 DEF Sound, Fits, LocSet, LocsOf, Handles
      <3> QED
        BY <2>3, <2>5, <3>1, <3>2 DEF Goes, PCs
    <2> QED
      BY <2>1, <2>4, <2>5
  <1>12. ASSUME NEW t \in Goroutines, DeleteBefore(t)
        PROVE  Goes \/ UNCHANGED <<pc, loc>>
    BY <1>12, NoLocalsTyped
    DEF DeleteBefore, storeVars, fileVars, timeVars, Data, Typed, Locals, Sound,
        Fits, Goroutines, Records, Handles, Goes, Return, PCs, LocSet, LocsOf,
        NoLocals
  <1>13. ASSUME NEW t \in Goroutines, DeleteBeforeFails(t)
        PROVE  Goes \/ UNCHANGED <<pc, loc>>
    BY <1>13, NoLocalsTyped
    DEF DeleteBeforeFails, storeVars, fileVars, timeVars, Data, Typed, Locals,
        Sound, Fits, Goroutines, Records, Handles, Goes, Return, PCs, LocSet,
        LocsOf, NoLocals
  <1>14. ASSUME NEW c \in Configurers, NEW p \in Paths, NEW d \in Retentions, Configure(c, p, d)
        PROVE  Goes \/ UNCHANGED <<pc, loc>>
    <2> DEFINE l == [NoLocals EXCEPT !.path = p, !.days = d]
    <2>1. Goto(c, "lock", l) /\ UNCHANGED <<paths, clock, stamps, removed>>
      BY <1>14 DEF Configure, storeVars, fileVars
    <2>2. d \in Nat
      BY UsageLifecycleAssumption
    <2>3. l \in LocSet' /\ l.path = p
      <3>1. NoLocals \in LocSet'
        BY <2>1, NoLocalsIn DEF LocSet, Typed, Data
      <3>2. l \in LocSet'
        BY <2>2, <3>1, TwoFields DEF LocSet
      <3>3. l.path = p
        BY DEF NoLocals
      <3> QED
        BY <3>2, <3>3
    <2>4. Fits("lock", l, Handles', Records', asked', removed')
      BY <2>3 DEF Sound, Fits
    <2> QED
      BY <2>1, <2>3, <2>4 DEF Goes, PCs, Goroutines
  <1>15. ASSUME NEW c \in Configurers, ResolveFails(c)
        PROVE  Goes \/ UNCHANGED <<pc, loc>>
    BY <1>15, NoLocalsTyped
    DEF ResolveFails, storeVars, fileVars, timeVars, Data, Typed, Locals, Sound,
        Fits, Goroutines, Records, Handles, Goes, Return, PCs, LocSet, LocsOf,
        NoLocals
  <1>16. ASSUME NEW c \in Configurers, Lock(c)
        PROVE  Goes \/ UNCHANGED <<pc, loc>>
    BY <1>16, NoLocalsTyped
    DEF Lock, storeVars, fileVars, timeVars, Data, Typed, Locals, Sound, Fits,
        Goroutines, Records, Handles, Goes, Return, PCs, LocSet, LocsOf, NoLocals
  <1>17. ASSUME NEW c \in Configurers, KeepStore(c)
        PROVE  Goes \/ UNCHANGED <<pc, loc>>
    BY <1>17, NoLocalsTyped
    DEF KeepStore, storeVars, fileVars, timeVars, Data, Typed, Locals, Sound, Fits,
        Goroutines, Records, Handles, Goes, Return, PCs, LocSet, LocsOf, NoLocals
  <1>18. ASSUME NEW c \in Configurers, OpenStore(c)
        PROVE  Goes \/ UNCHANGED <<pc, loc>>
    <2> DEFINE l == [loc[c] EXCEPT !.store = Len(paths')]
    <2>1. /\ Goto(c, "replace", l) /\ paths' = Append(paths, loc[c].path)
          /\ UNCHANGED <<clock, stamps, asked, removed>>
      BY <1>18 DEF OpenStore, fileVars, timeVars
    <2>2. loc[c] \in LocSet /\ Sound("ensure", loc[c])
      BY <1>18 DEF OpenStore, Typed, Locals, Goroutines
    <2>3. Len(paths) \in Nat /\ Len(paths') = Len(paths) + 1
      BY <2>1, <2>2 DEF Sound, Fits, Typed, Data
    <2>4. l \in LocSet'
      <3>1. loc[c] \in LocSet'
        BY <2>2, Grows, SetsGrow DEF Typed
      <3> QED
        BY <2>3, <3>1 DEF LocSet, LocsOf
    <2>5. l.path = loc[c].path /\ l.store = Len(paths')
      BY <2>2 DEF LocSet, LocsOf
    <2>6. Fits("replace", l, Handles', Records', asked', removed')
      BY <2>2, <2>3, <2>5 DEF Sound, Fits, Handles
    <2> QED
      BY <2>1, <2>4, <2>6 DEF Goes, PCs, Goroutines
  <1>19. ASSUME NEW c \in Configurers, OpenFails(c)
        PROVE  Goes \/ UNCHANGED <<pc, loc>>
    <2>1. Goto(c, "idle", NoLocals)
      BY <1>19 DEF OpenFails, Return
    <2>2. Data'
      BY <1>19, DataStep DEF Next, ConfigStep
    <2>3. NoLocals \in LocSet'
      BY <2>2 DEF NoLocals, LocSet, LocsOf, Data, Records
    <2> QED
      BY <2>1, <2>3 DEF Goes, PCs, Goroutines, Sound, Fits
  <1>20. ASSUME NEW c \in Configurers, ReplaceStore(c)
        PROVE  Goes \/ UNCHANGED <<pc, loc>>
    BY <1>20, NoLocalsTyped
    DEF ReplaceStore, storeVars, fileVars, timeVars, Data, Typed, Locals, Sound,
        Fits, Goroutines, Records, Handles, Goes, Return, PCs, LocSet, LocsOf,
        NoLocals
  <1>21. ASSUME NEW c \in Configurers, ResetSlot(c)
        PROVE  Goes \/ UNCHANGED <<pc, loc>>
    BY <1>21, NoLocalsTyped, SMTT(20)
    DEF ResetSlot, storeVars, fileVars, timeVars, Data, Typed, Locals, Sound, Fits,
        Goroutines, Records, Handles, Goes, Return, PCs, LocSet, LocsOf, NoLocals
  <1>22. ASSUME NEW c \in Configurers, CloseStore(c)
        PROVE  Goes \/ UNCHANGED <<pc, loc>>
    BY <1>22, NoLocalsTyped
    DEF CloseStore, storeVars, fileVars, timeVars, Data, Typed, Locals, Sound, Fits,
        Goroutines, Records, Handles, Goes, Return, PCs, LocSet, LocsOf, NoLocals
  <1>23. CASE Tick
    BY <1>23, NoLocalsTyped
    DEF Tick, storeVars, fileVars, timeVars, Data, Typed, Locals, Sound, Fits,
        Goroutines, Records, Handles, Goes, Return, PCs, LocSet, LocsOf, NoLocals
  <1>24. CASE UNCHANGED vars
    BY <1>24, NoLocalsTyped
    DEF vars, storeVars, fileVars, timeVars, Data, Typed, Locals, Sound, Fits,
        Goroutines, Records, Handles, Goes, Return, PCs, LocSet, LocsOf, NoLocals
  <1> QED
    BY <1>1, <1>2, <1>3, <1>4, <1>5, <1>6, <1>7, <1>8, <1>9, <1>10, <1>11, <1>12,
       <1>13, <1>14, <1>15, <1>16, <1>17, <1>18, <1>19, <1>20, <1>21, <1>22, <1>23,
       <1>24
    DEF Next, Cleanup, HandlerStep, ConfigStep

\* Every step keeps storeMu with the goroutine inside ensureStore: it is taken
\* in Lock, and given back by every way out of ensureStore.
LEMMA LockStep == Typed /\ [Next]_vars => Lock1'
  <1> SUFFICES ASSUME Typed, [Next]_vars PROVE Lock1'
    OBVIOUS
  <1>1. ASSUME NEW t \in Handlers, NEW ts \in 0 .. clock, HandleUsage(t, ts)
        PROVE  Lock1'
    BY <1>1, UsageLifecycleAssumption
    DEF HandleUsage, Typed, Locals, Goroutines, Goto, Return, PCs, Lock1
  <1>2. ASSUME NEW t \in Handlers, Insert(t)
        PROVE  Lock1'
    BY <1>2, UsageLifecycleAssumption
    DEF Insert, Typed, Locals, Goroutines, Goto, Return, PCs, Lock1
  <1>3. ASSUME NEW t \in Handlers, InsertFails(t)
        PROVE  Lock1'
    BY <1>3, UsageLifecycleAssumption
    DEF InsertFails, Typed, Locals, Goroutines, Goto, Return, PCs, Lock1
  <1>4. ASSUME NEW t \in Handlers, NEW ids \in SUBSET DOMAIN stamps, DeleteUsage(t, ids)
        PROVE  Lock1'
    BY <1>4, UsageLifecycleAssumption
    DEF DeleteUsage, Typed, Locals, Goroutines, Goto, Return, PCs, Lock1
  <1>5. ASSUME NEW t \in Handlers, NEW n \in DOMAIN stamps, DeleteOne(t, n)
        PROVE  Lock1'
    BY <1>5, UsageLifecycleAssumption
    DEF DeleteOne, Typed, Locals, Goroutines, Goto, Return, PCs, Lock1
  <1>6. ASSUME NEW t \in Handlers, DeleteFails(t)
        PROVE  Lock1'
    BY <1>6, UsageLifecycleAssumption
    DEF DeleteFails, Typed, Locals, Goroutines, Goto, Return, PCs, Lock1
  <1>7. ASSUME NEW t \in Goroutines, NoRetention(t)
        PROVE  Lock1'
    BY <1>7, UsageLifecycleAssumption
    DEF NoRetention, Typed, Locals, Goroutines, Goto, Return, PCs, Lock1
  <1>8. ASSUME NEW t \in Goroutines, LoadDays(t)
        PROVE  Lock1'
    BY <1>8, UsageLifecycleAssumption
    DEF LoadDays, Typed, Locals, Goroutines, Goto, Return, PCs, Lock1
  <1>9. ASSUME NEW t \in Goroutines, SlotTaken(t)
        PROVE  Lock1'
    BY <1>9, UsageLifecycleAssumption
    DEF SlotTaken, Typed, Locals, Goroutines, Goto, Return, PCs, Lock1
  <1>10. ASSUME NEW t \in Goroutines, TakeSlot(t)
        PROVE  Lock1'
    BY <1>10, UsageLifecycleAssumption
    DEF TakeSlot, Typed, Locals, Goroutines, Goto, Return, PCs, Lock1
  <1>11. ASSUME NEW t \in Goroutines, CleanStore(t)
        PROVE  Lock1'
    BY <1>11, UsageLifecycleAssumption
    DEF CleanStore, Typed, Locals, Goroutines, Goto, Return, PCs, Lock1
  <1>12. ASSUME NEW t \in Goroutines, DeleteBefore(t)
        PROVE  Lock1'
    BY <1>12, UsageLifecycleAssumption
    DEF DeleteBefore, Typed, Locals, Goroutines, Goto, Return, PCs, Lock1
  <1>13. ASSUME NEW t \in Goroutines, DeleteBeforeFails(t)
        PROVE  Lock1'
    BY <1>13, UsageLifecycleAssumption
    DEF DeleteBeforeFails, Typed, Locals, Goroutines, Goto, Return, PCs, Lock1
  <1>14. ASSUME NEW c \in Configurers, NEW p \in Paths, NEW d \in Retentions, Configure(c, p, d)
        PROVE  Lock1'
    BY <1>14, UsageLifecycleAssumption
    DEF Configure, Typed, Locals, Goroutines, Goto, Return, PCs, Lock1
  <1>15. ASSUME NEW c \in Configurers, ResolveFails(c)
        PROVE  Lock1'
    BY <1>15, UsageLifecycleAssumption
    DEF ResolveFails, Typed, Locals, Goroutines, Goto, Return, PCs, Lock1
  <1>16. ASSUME NEW c \in Configurers, Lock(c)
        PROVE  Lock1'
    BY <1>16, UsageLifecycleAssumption
    DEF Lock, Typed, Locals, Goroutines, Goto, Return, PCs, Lock1
  <1>17. ASSUME NEW c \in Configurers, KeepStore(c)
        PROVE  Lock1'
    BY <1>17, UsageLifecycleAssumption
    DEF KeepStore, Typed, Locals, Goroutines, Goto, Return, PCs, Lock1
  <1>18. ASSUME NEW c \in Configurers, OpenStore(c)
        PROVE  Lock1'
    BY <1>18, UsageLifecycleAssumption
    DEF OpenStore, Typed, Locals, Goroutines, Goto, Return, PCs, Lock1
  <1>19. ASSUME NEW c \in Configurers, OpenFails(c)
        PROVE  Lock1'
    BY <1>19, UsageLifecycleAssumption
    DEF OpenFails, Typed, Locals, Goroutines, Goto, Return, PCs, Lock1
  <1>20. ASSUME NEW c \in Configurers, ReplaceStore(c)
        PROVE  Lock1'
    BY <1>20, UsageLifecycleAssumption
    DEF ReplaceStore, Typed, Locals, Goroutines, Goto, Return, PCs, Lock1
  <1>21. ASSUME NEW c \in Configurers, ResetSlot(c)
        PROVE  Lock1'
    BY <1>21, UsageLifecycleAssumption
    DEF ResetSlot, Typed, Locals, Goroutines, Goto, Return, PCs, Lock1
  <1>22. ASSUME NEW c \in Configurers, CloseStore(c)
        PROVE  Lock1'
    BY <1>22, UsageLifecycleAssumption
    DEF CloseStore, Typed, Locals, Goroutines, Goto, Return, PCs, Lock1
  <1>23. CASE Tick
    BY <1>23, UsageLifecycleAssumption
    DEF Tick, Typed, Locals, Goroutines, Goto, Return, PCs, Lock1
  <1>24. CASE UNCHANGED vars
    BY <1>24, UsageLifecycleAssumption
    DEF vars, Typed, Locals, Goroutines, Goto, Return, PCs, Lock1
  <1> QED
    BY <1>1, <1>2, <1>3, <1>4, <1>5, <1>6, <1>7, <1>8, <1>9, <1>10, <1>11, <1>12,
       <1>13, <1>14, <1>15, <1>16, <1>17, <1>18, <1>19, <1>20, <1>21, <1>22, <1>23,
       <1>24
    DEF Next, Cleanup, HandlerStep, ConfigStep

\* Typed is inductive.
LEMMA TypedStep == Typed /\ [Next]_vars => Typed'
  <1> SUFFICES ASSUME Typed, [Next]_vars PROVE Typed'
    OBVIOUS
  <1>1. Grow
    BY Grows DEF Typed
  <1>2. Data' /\ Lock1'
    BY DataStep, LockStep
  <1>3. Locals'
    <2>1. CASE Goes
      BY <1>1, <2>1, Moves DEF Typed
    <2>2. CASE UNCHANGED <<pc, loc>>
      <3>1. LocSet \subseteq LocSet' /\ Handles \subseteq Handles' /\ Records \subseteq Records'
        BY <1>1, SetsGrow
      <3> QED
        BY <1>1, <2>2, <3>1 DEF Typed, Locals, Sound, Fits, Grow
    <2> QED
      BY <2>1, <2>2, GoesStep
  <1> QED
    BY <1>2, <1>3 DEF Typed

\* Typed holds at the start.
LEMMA TypedInit == Init => Typed
  <1> SUFFICES ASSUME Init PROVE Typed
    OBVIOUS
  <1>1. Data
    BY DEF Init, Data, Records, Handles
  <1>2. Locals
    <2>1. NoLocals \in LocSet
      BY <1>1, NoLocalsTyped
    <2> QED
      BY <2>1 DEF Init, Locals, PCs, Sound, Fits
  <1>3. Lock1
    BY UsageLifecycleAssumption DEF Init, Lock1, Goroutines
  <1> QED
    BY <1>1, <1>2, <1>3 DEF Typed

\* The inductive invariant of the usage store's life cycle: the types, and that
\* what a goroutine of main.go read from the shared state it may still use.
THEOREM AlwaysTyped == Spec => []Typed
  BY TypedInit, TypedStep, PTL DEF Spec

\* Typed is stronger than TypeOK.
LEMMA TypedOK == Typed => TypeOK
  <1> SUFFICES ASSUME Typed PROVE TypeOK
    OBVIOUS
  <1>1. retention \in Nat
    BY DEF Typed, Data
  <1>2. loc \in [Goroutines -> [store : 0 .. Len(paths), rec : 0 .. Len(stamps),
                               path : Paths \cup {NoPath}, days : Nat,
                               now : 0 .. clock, ids : SUBSET Records]]
    BY DEF Typed, Locals, LocSet, LocsOf
  <1>3. pc \in [Goroutines -> {"idle", "insert", "delete", "days", "slot",
                              "cleanStore", "sweep", "lock", "ensure", "replace",
                              "reset"}]
    BY DEF Typed, Locals, PCs
  <1> QED
    BY <1>1, <1>2, <1>3 DEF TypeOK, Typed, Data, Lock1

\* The types hold, and storeMu (main.go) is held exactly inside ensureStore: no
\* way out of ensureStore, failed opens included, leaves it locked.
THEOREM TypeCorrect == Spec => []TypeOK
  BY AlwaysTyped, TypedOK, PTL

-----------------------------------------------------------------------------
(*****************************************************************************)
(* Stored records are kept                                                   *)
(*****************************************************************************)

\* Only an insert, a delete and a sweep touch the files.
LEMMA FileSteps ==
  ASSUME [Next]_vars
  PROVE  \/ UNCHANGED <<files, stored>>
         \/ \E t \in Handlers : Insert(t)
         \/ \E t \in Handlers, n \in DOMAIN stamps : DeleteOne(t, n)
         \/ \E t \in Goroutines : DeleteBefore(t)
  BY DEF Next, Cleanup, HandlerStep, ConfigStep, vars, fileVars,
         HandleUsage, InsertFails, DeleteUsage, DeleteFails, NoRetention, LoadDays,
         SlotTaken, TakeSlot, CleanStore, DeleteBeforeFails, Configure, ResolveFails,
         Lock, KeepStore, OpenStore, OpenFails, ReplaceStore, ResetSlot, CloseStore,
         Tick

\* Only a call of usage.handle makes a timestamp.
LEMMA StampSteps ==
  ASSUME [Next]_vars
  PROVE  \/ UNCHANGED stamps
         \/ \E t \in Handlers, ts \in 0 .. clock : HandleUsage(t, ts)
  BY DEF Next, Cleanup, HandlerStep, ConfigStep, vars,
         Insert, InsertFails, DeleteUsage, DeleteOne, DeleteFails, NoRetention,
         LoadDays, SlotTaken, TakeSlot, CleanStore, DeleteBefore, DeleteBeforeFails,
         Configure, ResolveFails, Lock, KeepStore, OpenStore, OpenFails, ReplaceStore,
         ResetSlot, CloseStore, Tick

\* Timestamps never change.
LEMMA StampsStay == Typed /\ [Next]_vars => \A n \in Records : stamps'[n] = stamps[n]
  <1> SUFFICES ASSUME Typed, [Next]_vars, NEW n \in Records
               PROVE  stamps'[n] = stamps[n]
    OBVIOUS
  <1>1. ASSUME NEW t \in Handlers, NEW ts \in 0 .. clock, HandleUsage(t, ts)
        PROVE  stamps'[n] = stamps[n]
    BY <1>1 DEF HandleUsage, Typed, Data, Records
  <1> QED
    BY <1>1, StampSteps

\* No step loses a stored record: a delete takes only removed ids, and a sweep
\* only records older than the retention it loaded, even when that retention or
\* the store was replaced meanwhile.
LEMMA KeptStep == Typed /\ Typed' /\ StoredKept /\ [Next]_vars => StoredKept'
  <1> SUFFICES ASSUME Typed, Typed', StoredKept, [Next]_vars,
                      NEW p \in Paths, NEW n \in stored'[p]
               PROVE  \/ n \in files'[p]
                      \/ n \in removed'
                      \/ \E d \in asked' \ {0} : stamps'[n] < clock' - d
    BY DEF StoredKept
  <1>1. Grow
    BY Grows DEF Typed
  <1>2. ASSUME n \in stored[p]
        PROVE  /\ n \in Records /\ stamps[n] \in Nat /\ stamps'[n] = stamps[n]
               /\ \/ n \in files[p]
                  \/ n \in removed'
                  \/ \E d \in asked' \ {0} : stamps'[n] < clock' - d
    <2>1. n \in Records
      BY <1>2 DEF Typed, Data
    <2>2. stamps[n] \in 0 .. clock
      <3>1. PICK times : times = 0 .. clock
        OBVIOUS
      <3>2. stamps \in Seq(times)
        BY <3>1 DEF Typed, Data
      <3>3. stamps[n] \in times
        BY <2>1, <3>2 DEF Records
      <3> QED
        BY <3>1, <3>3
    <2>3. stamps'[n] = stamps[n]
      BY <2>1, StampsStay
    <2>4. CASE n \in files[p] \/ n \in removed
      BY <1>1, <2>1, <2>2, <2>3, <2>4 DEF Grow
    <2>5. ASSUME NEW d \in asked \ {0}, stamps[n] < clock - d
          PROVE  d \in asked' \ {0} /\ stamps'[n] < clock' - d
      <3>1. d \in Nat
        BY DEF Typed, Data
      <3> QED
        BY <1>1, <2>2, <2>3, <2>5, <3>1 DEF Grow
    <2> QED
      BY <1>2, <2>1, <2>2, <2>3, <2>4, <2>5 DEF StoredKept
  <1>3. CASE UNCHANGED <<files, stored>>
    BY <1>2, <1>3
  <1>4. ASSUME NEW t \in Handlers, Insert(t)
        PROVE  \/ n \in files'[p]
               \/ n \in removed'
               \/ \E d \in asked' \ {0} : stamps'[n] < clock' - d
    <2>1. loc[t].store \in Handles /\ paths[loc[t].store] \in Paths
      BY <1>4 DEF Insert, Typed, Locals, Sound, Fits, Goroutines, Data, Handles
    <2>2. \/ n \in stored[p]
          \/ n = loc[t].rec /\ p = paths[loc[t].store]
      BY <1>4, <2>1 DEF Insert, Typed, Data
    <2>3. files[p] \subseteq files'[p] /\ loc[t].rec \in files'[paths[loc[t].store]]
      BY <1>4, <2>1 DEF Insert, Typed, Data
    <2> QED
      BY <1>2, <2>2, <2>3
  <1>5. ASSUME NEW t \in Handlers, NEW m \in DOMAIN stamps, DeleteOne(t, m)
        PROVE  \/ n \in files'[p]
               \/ n \in removed'
               \/ \E d \in asked' \ {0} : stamps'[n] < clock' - d
    <2>1. m \in removed'
      BY <1>5 DEF DeleteOne, Typed, Locals, Sound, Fits, Goroutines
    <2>2. stored' = stored /\ files[p] \ {m} \subseteq files'[p]
      BY <1>5 DEF DeleteOne, Typed, Data
    <2> QED
      BY <1>2, <2>1, <2>2
  <1>6. ASSUME NEW t \in Goroutines, DeleteBefore(t)
        PROVE  \/ n \in files'[p]
               \/ n \in removed'
               \/ \E d \in asked' \ {0} : stamps'[n] < clock' - d
    <2>1. /\ stored' = stored /\ asked' = asked /\ clock' = clock
          /\ n \in files[p] => n \in files'[p] \/ Outdated(t, n)
      BY <1>6 DEF DeleteBefore, timeVars, Typed, Data
    <2>2. /\ loc[t].days \in asked \ {0} /\ loc[t].days \in Nat
          /\ loc[t].now \in 0 .. clock /\ clock \in Nat
      BY <1>6 DEF DeleteBefore, Typed, Locals, LocSet, LocsOf, Sound, Fits, Data
    <2>3. ASSUME n \in stored[p], Outdated(t, n)
          PROVE  \E d \in asked' \ {0} : stamps'[n] < clock' - d
      <3>1. stamps'[n] < clock' - loc[t].days
        BY <1>2, <2>1, <2>2, <2>3 DEF Outdated
      <3> QED
        BY <2>1, <2>2, <3>1
    <2> QED
      BY <1>2, <2>1, <2>3
  <1> QED
    BY <1>3, <1>4, <1>5, <1>6, FileSteps

\* An acknowledged record stays in its usage.db until somebody removes it or it
\* is older than a retention some configuration asked for, however inserts,
\* deletes and cleanups overlap with ensureStore and closeStore (main.go).
THEOREM AlwaysStoredKept == Spec => []StoredKept
  <1>1. Init => StoredKept
    BY DEF Init, StoredKept
  <1> QED
    BY <1>1, AlwaysTyped, KeptStep, PTL DEF Spec

-----------------------------------------------------------------------------
(*****************************************************************************)
(* One published store                                                       *)
(*****************************************************************************)

\* The store ensureStore is about to publish is open, is not published yet, and
\* is the store of the path ensureStore was called with.
Pending == \A c \in Configurers : pc[c] = "replace" =>
              /\ loc[c].store \notin shut \cup leaked
              /\ loc[c].store # globalStore
              /\ paths[loc[c].store] = loc[c].path

\* The inductive form of PublishedStore.
Published == PublishedStore /\ Pending

\* Only a configuration or a shutdown touches the handles.
LEMMA StoreSteps ==
  ASSUME Typed, [Next]_vars
  PROVE  \/ /\ UNCHANGED storeVars
            /\ \A c \in Configurers : pc[c] = "replace" <=> pc'[c] = "replace"
            /\ \A c \in Configurers : pc[c] = "replace" => loc'[c] = loc[c]
         \/ \E c \in Configurers : OpenStore(c) \/ OpenFails(c) \/ ReplaceStore(c)
         \/ \E c \in Configurers : CloseStore(c)
  <1>1. ASSUME NEW t \in Goroutines, NEW w \in PCs, NEW l, Goto(t, w, l),
               pc[t] # "replace", w # "replace"
        PROVE  /\ \A c \in Configurers : pc[c] = "replace" <=> pc'[c] = "replace"
               /\ \A c \in Configurers : pc[c] = "replace" => loc'[c] = loc[c]
    BY <1>1 DEF Goto, Typed, Locals, Goroutines
  <1>2. CASE \/ \E t \in Handlers, ts \in 0 .. clock : HandleUsage(t, ts)
             \/ \E t \in Handlers : HandlerStep(t)
             \/ \E t \in Handlers, ids \in SUBSET DOMAIN stamps : DeleteUsage(t, ids)
    BY <1>1, <1>2 DEF HandleUsage, HandlerStep, Insert, InsertFails, DeleteFails,
         DeleteOne, DeleteUsage, Return, PCs, Goroutines
  <1>3. CASE \E t \in Goroutines : Cleanup(t)
    BY <1>1, <1>3
    DEF Cleanup, NoRetention, LoadDays, SlotTaken, TakeSlot, CleanStore,
         DeleteBefore, DeleteBeforeFails, Return, PCs
  <1>4. ASSUME NEW c \in Configurers,
               \/ \E p \in Paths, d \in Retentions : Configure(c, p, d)
               \/ ResolveFails(c) \/ Lock(c) \/ KeepStore(c) \/ ResetSlot(c)
        PROVE  /\ UNCHANGED storeVars
               /\ \A k \in Configurers : pc[k] = "replace" <=> pc'[k] = "replace"
               /\ \A k \in Configurers : pc[k] = "replace" => loc'[k] = loc[k]
    BY <1>1, <1>4
    DEF Configure, ResolveFails, Lock, KeepStore, ResetSlot, Return, PCs,
         Goroutines
  <1>5. CASE Tick \/ UNCHANGED vars
    BY <1>5 DEF Tick, vars
  <1> QED
    BY <1>2, <1>3, <1>4, <1>5 DEF Next, ConfigStep

\* Every step keeps Published; storeMu excludes a second goroutine in ensureStore
\* and a closeStore during it.
LEMMA PublishedStep == Typed /\ Typed' /\ Published /\ [Next]_vars => Published'
  <1> SUFFICES ASSUME Typed, Typed', Published, [Next]_vars PROVE Published'
    OBVIOUS
  <1>1. CASE /\ UNCHANGED storeVars
             /\ \A c \in Configurers : pc[c] = "replace" <=> pc'[c] = "replace"
             /\ \A c \in Configurers : pc[c] = "replace" => loc'[c] = loc[c]
    BY <1>1 DEF storeVars, Published, PublishedStore, Pending, Handles
  <1>2. ASSUME NEW c \in Configurers, storeMu = c, NEW k \in Configurers, k # c
        PROVE  pc[k] # "replace"
    BY <1>2 DEF Typed, Lock1
  <1>3. ASSUME NEW c \in Configurers, pc[c] \in {"ensure", "replace"}
        PROVE  storeMu = c
    BY <1>3 DEF Typed, Lock1
  <1>4. ASSUME NEW c \in Configurers, OpenStore(c)
        PROVE  Published'
    <2>1. storeMu = c /\ \A k \in Configurers \ {c} : pc[k] # "replace"
      BY <1>2, <1>3, <1>4 DEF OpenStore
    <2>2. /\ paths \in Seq(Paths) /\ Len(paths) \in Nat /\ loc[c].path \in Paths
          /\ paths' = Append(paths, loc[c].path)
      BY <1>4 DEF OpenStore, Typed, Data, Locals, Sound, Fits, Goroutines
    <2>3. /\ Len(paths') = Len(paths) + 1 /\ paths'[Len(paths')] = loc[c].path
          /\ \A h \in Handles : paths'[h] = paths[h]
          /\ Handles' = Handles \cup {Len(paths')} /\ Len(paths') \notin Handles
      BY <2>2 DEF Handles
    <2>4. pc' = [pc EXCEPT ![c] = "replace"] /\ loc'[c].store = Len(paths')
          /\ loc'[c].path = loc[c].path
      BY <1>4 DEF OpenStore, Goto, Typed, Locals, LocSet, LocsOf, Goroutines
    <2>5. /\ shut' = shut /\ leaked' = leaked /\ globalStore' = globalStore
          /\ currentDBPath' = currentDBPath
          /\ shut \cup leaked \subseteq Handles /\ globalStore \in {0} \cup Handles
      BY <1>4 DEF OpenStore, Typed, Data, Handles
    <2>6. pc'[c] = "replace" /\ \A k \in Configurers \ {c} : pc'[k] # "replace"
      BY <2>1, <2>4 DEF Typed, Locals, Goroutines
    <2>7. Pending'
      BY <2>2, <2>3, <2>4, <2>5, <2>6 DEF Pending, Handles
    <2>8. PublishedStore'
      <3>1. globalStore' # 0 => /\ globalStore' \notin shut' \cup leaked'
                                /\ paths'[globalStore'] = currentDBPath'
        BY <2>3, <2>5 DEF Published, PublishedStore
      <3>2. ASSUME NEW h \in Handles' \ (shut' \cup leaked')
            PROVE  h = globalStore' \/ \E k \in Configurers : pc'[k] = "replace" /\ loc'[k].store = h
        <4>1. CASE h = Len(paths')
          BY <2>4, <2>6, <4>1
        <4>2. CASE h \in Handles \ (shut \cup leaked)
          <5>1. \A k \in Configurers : pc[k] # "replace"
            BY <1>4, <2>1 DEF OpenStore
          <5> QED
            BY <2>5, <4>2, <5>1 DEF Published, PublishedStore
        <4> QED
          BY <2>3, <2>5, <3>2, <4>1, <4>2
      <3> QED
        BY <2>5, <3>1, <3>2 DEF Published, PublishedStore
    <2> QED
      BY <2>7, <2>8 DEF Published
  <1>5. ASSUME NEW c \in Configurers, OpenFails(c)
        PROVE  Published'
    <2>1. /\ storeMu = c /\ pc[c] = "ensure"
          /\ \A k \in Configurers : pc[k] # "replace"
      BY <1>2, <1>3, <1>5 DEF OpenFails
    <2>2. \A k \in Configurers : pc'[k] # "replace"
      BY <1>5, <2>1 DEF OpenFails, Return, Goto, Typed, Locals, Goroutines
    <2>3. CASE UNCHANGED <<paths, shut, leaked>>
      BY <1>5, <2>1, <2>2, <2>3
      DEF OpenFails, Published, PublishedStore, Pending, Handles
    <2>4. CASE /\ paths' = Append(paths, loc[c].path)
               /\ \/ shut' = shut \cup {Len(paths')} /\ UNCHANGED leaked
                  \/ leaked' = leaked \cup {Len(paths')} /\ UNCHANGED shut
      <3>1. /\ paths \in Seq(Paths) /\ Len(paths) \in Nat /\ loc[c].path \in Paths
        BY <2>1 DEF Typed, Data, Locals, Sound, Fits, Goroutines
      <3>2. /\ Len(paths') = Len(paths) + 1
            /\ \A h \in Handles : paths'[h] = paths[h]
            /\ Handles' = Handles \cup {Len(paths')} /\ Len(paths') \notin Handles
        BY <2>4, <3>1 DEF Handles
      <3>3. /\ globalStore' = globalStore /\ currentDBPath' = currentDBPath
            /\ globalStore \in {0} \cup Handles /\ 0 # Len(paths')
        BY <1>5, <3>1, <3>2 DEF OpenFails, Typed, Data, Handles
      <3>4. shut' \cup leaked' = shut \cup leaked \cup {Len(paths')}
        BY <2>4
      <3> QED
        BY <2>1, <2>2, <3>2, <3>3, <3>4 DEF Published, PublishedStore, Pending
    <2> QED
      BY <1>5, <2>3, <2>4 DEF OpenFails
  <1>6. ASSUME NEW c \in Configurers, ReplaceStore(c)
        PROVE  Published'
    <2>1. /\ storeMu = c /\ pc[c] = "replace"
          /\ \A k \in Configurers \ {c} : pc[k] # "replace"
      BY <1>2, <1>3, <1>6 DEF ReplaceStore
    <2>2. \A k \in Configurers : pc'[k] # "replace"
      BY <1>6, <2>1 DEF ReplaceStore, Goto, Typed, Locals, Goroutines
    <2>3. /\ loc[c].store \in Handles /\ loc[c].store # 0 /\ loc[c].path \in Paths
          /\ loc[c].path # NoPath
      BY <2>1, UsageLifecycleAssumption
      DEF Typed, Locals, Sound, Fits, Goroutines, Handles
    <2>4. /\ shut' = IF globalStore = 0 THEN shut ELSE shut \cup {globalStore}
          /\ globalStore' = loc[c].store /\ currentDBPath' = loc[c].path
          /\ paths' = paths /\ leaked' = leaked
      BY <1>6 DEF ReplaceStore
    <2>5. /\ loc[c].store \notin shut \cup leaked /\ loc[c].store # globalStore
          /\ paths[loc[c].store] = loc[c].path
      BY <2>1 DEF Published, Pending
    <2> QED
      BY <2>1, <2>2, <2>3, <2>4, <2>5
      DEF Published, PublishedStore, Pending, Handles
  <1>7. ASSUME NEW c \in Configurers, CloseStore(c)
        PROVE  Published'
    <2>1. \A k \in Configurers : pc[k] # "replace"
      BY <1>7, UsageLifecycleAssumption DEF CloseStore, Typed, Lock1
    <2> QED
      BY <1>7, <2>1 DEF CloseStore, Published, PublishedStore, Pending, Handles
  <1> QED
    BY <1>1, <1>4, <1>5, <1>6, <1>7, StoreSteps

\* currentStore (main.go) never returns a closed handle or one of another path,
\* and ensureStore leaves no handle open but the published one and those that
\* NewSQLiteStore (store.go) itself abandons when a PRAGMA fails.
THEOREM AlwaysPublishedStore == Spec => []PublishedStore
  <1>1. Init => Published
    BY DEF Init, Published, PublishedStore, Pending, Handles, Goroutines
  <1>2. Published => PublishedStore
    BY DEF Published
  <1> QED
    BY <1>1, <1>2, AlwaysTyped, PublishedStep, PTL DEF Spec

-----------------------------------------------------------------------------
(*****************************************************************************)
(* The refinement of UsageLedger                                             *)
(*****************************************************************************)

\* A record that is being inserted is in no file, and no one else inserts it.
Unstored == \A t \in Goroutines : pc[t] = "insert" =>
                /\ \A p \in Paths : loc[t].rec \notin files[p]
                /\ \A u \in Goroutines \ {t} :
                      pc[u] = "insert" => loc[u].rec # loc[t].rec

\* Only usage.handle starts an insert, and only an insert adds to a file.
LEMMA InsertSteps ==
  ASSUME Typed, [Next]_vars
  PROVE  \/ /\ \A t \in Goroutines : pc'[t] = "insert" => pc[t] = "insert" /\ loc'[t] = loc[t]
            /\ \A p \in Paths : files'[p] \subseteq files[p]
         \/ \E t \in Handlers, ts \in 0 .. clock : HandleUsage(t, ts)
         \/ \E t \in Handlers : Insert(t)
  <1>1. ASSUME NEW t \in Goroutines, NEW w, NEW l, Goto(t, w, l), w # "insert"
        PROVE  \A u \in Goroutines : pc'[u] = "insert" => pc[u] = "insert" /\ loc'[u] = loc[u]
    BY <1>1 DEF Goto, Typed, Locals
  <1>2. ASSUME NEW t \in Handlers, NEW n \in DOMAIN stamps, DeleteOne(t, n)
        PROVE  /\ \A u \in Goroutines : pc'[u] = "insert" => pc[u] = "insert" /\ loc'[u] = loc[u]
               /\ \A p \in Paths : files'[p] \subseteq files[p]
    <2>1. \A p \in Paths : files'[p] \subseteq files[p]
      BY <1>2 DEF DeleteOne, Typed, Data
    <2> QED
      BY <1>1, <1>2, <2>1 DEF DeleteOne, Return, Goroutines
  <1>3. ASSUME NEW t \in Goroutines, DeleteBefore(t)
        PROVE  /\ \A u \in Goroutines : pc'[u] = "insert" => pc[u] = "insert" /\ loc'[u] = loc[u]
               /\ \A p \in Paths : files'[p] \subseteq files[p]
    <2>1. \A p \in Paths : files'[p] \subseteq files[p]
      BY <1>3 DEF DeleteBefore, Typed, Data
    <2> QED
      BY <1>1, <1>3, <2>1 DEF DeleteBefore, Return
  <1>4. ASSUME NEW t \in Handlers,
               \/ InsertFails(t) \/ DeleteFails(t)
               \/ \E ids \in SUBSET DOMAIN stamps : DeleteUsage(t, ids)
        PROVE  /\ \A u \in Goroutines : pc'[u] = "insert" => pc[u] = "insert" /\ loc'[u] = loc[u]
               /\ files' = files
    BY <1>1, <1>4
    DEF InsertFails, DeleteFails, DeleteUsage, Return, fileVars, Goroutines
  <1>5. ASSUME NEW t \in Goroutines,
               \/ NoRetention(t) \/ LoadDays(t) \/ SlotTaken(t) \/ TakeSlot(t)
               \/ CleanStore(t) \/ DeleteBeforeFails(t)
        PROVE  /\ \A u \in Goroutines : pc'[u] = "insert" => pc[u] = "insert" /\ loc'[u] = loc[u]
               /\ files' = files
    BY <1>1, <1>5 DEF NoRetention, LoadDays, SlotTaken, TakeSlot, CleanStore,
         DeleteBeforeFails, Return, fileVars
  <1>6. ASSUME NEW c \in Configurers,
               \/ ConfigStep(c)
               \/ \E p \in Paths, d \in Retentions : Configure(c, p, d)
        PROVE  /\ \A u \in Goroutines : pc'[u] = "insert" => pc[u] = "insert" /\ loc'[u] = loc[u]
               /\ files' = files
    BY <1>1, <1>6
    DEF ConfigStep, ResolveFails, Lock, KeepStore, OpenStore, OpenFails,
         ReplaceStore, ResetSlot, Configure, Return, fileVars, Goroutines
  <1>7. ASSUME \/ Tick \/ UNCHANGED vars \/ \E c \in Configurers : CloseStore(c)
        PROVE  UNCHANGED <<pc, loc, files>>
    BY <1>7 DEF Tick, CloseStore, vars, fileVars
  <1> QED
    BY <1>2, <1>3, <1>4, <1>5, <1>6, <1>7 DEF Next, HandlerStep, Cleanup

\* Unstored is inductive, given the types.
LEMMA UnstoredStep == Typed /\ Unstored /\ [Next]_vars => Unstored'
  <1> SUFFICES ASSUME Typed, Unstored, [Next]_vars PROVE Unstored'
    OBVIOUS
  <1>1. CASE /\ \A t \in Goroutines : pc'[t] = "insert" => pc[t] = "insert" /\ loc'[t] = loc[t]
             /\ \A p \in Paths : files'[p] \subseteq files[p]
    BY <1>1 DEF Unstored
  <1>2. ASSUME NEW t \in Handlers, NEW ts \in 0 .. clock, HandleUsage(t, ts)
        PROVE  Unstored'
    <2>1. /\ Len(stamps) \in Nat /\ Len(stamps') = Len(stamps) + 1
          /\ Len(stamps') \notin Records
      BY <1>2 DEF HandleUsage, Typed, Data, Records
    <2>2. /\ t \in Goroutines /\ files' = files
          /\ pc' = [pc EXCEPT ![t] = "insert"]
          /\ loc'[t].rec = Len(stamps')
          /\ \A u \in Goroutines \ {t} : pc'[u] = pc[u] /\ loc'[u] = loc[u]
      BY <1>2 DEF HandleUsage, Goto, NoLocals, fileVars, Typed, Locals, Goroutines
    <2>3. /\ \A u \in Goroutines : pc[u] = "insert" => loc[u].rec \in Records
          /\ \A p \in Paths : files[p] \subseteq Records
      BY DEF Typed, Locals, Sound, Fits, Data
    <2> QED
      BY <2>1, <2>2, <2>3 DEF Unstored
  <1>3. ASSUME NEW t \in Handlers, Insert(t)
        PROVE  Unstored'
    <2>1. /\ t \in Goroutines /\ pc[t] = "insert" /\ pc'[t] # "insert"
          /\ \A u \in Goroutines \ {t} : pc'[u] = pc[u] /\ loc'[u] = loc[u]
      BY <1>3 DEF Insert, Goto, Typed, Locals, Goroutines
    <2>2. \A p \in Paths : files'[p] \subseteq files[p] \cup {loc[t].rec}
      BY <1>3 DEF Insert, Typed, Data
    <2> QED
      BY <2>1, <2>2 DEF Unstored
  <1> QED
    BY <1>1, <1>2, <1>3, InsertSteps

\* Every step is a step of UsageLedger, or changes nothing the ledger sees.
LEMMA LedgerStep == Typed /\ Unstored /\ [Next]_vars => [Ledger!Next]_(Ledger!vars)
  <1> SUFFICES ASSUME Typed, Unstored, [Next]_vars
               PROVE  Ledger!Next \/ UNCHANGED <<files, stamps, clock, asked>>
    BY DEF Ledger!vars
  <1>1. ASSUME NEW t \in Handlers, NEW ts \in 0 .. clock, HandleUsage(t, ts)
        PROVE  Ledger!Next
    BY <1>1 DEF HandleUsage, fileVars, timeVars, Ledger!Next, Ledger!Call
  <1>2. ASSUME NEW t \in Handlers, Insert(t)
        PROVE  Ledger!Next
    <2>1. /\ t \in Goroutines /\ loc[t].rec \in Records
          /\ loc[t].store \in Handles /\ paths[loc[t].store] \in Paths
      BY <1>2 DEF Insert, Typed, Locals, Sound, Fits, Goroutines, Data, Handles
    <2>2. loc[t].rec \in DOMAIN stamps
      BY <2>1 DEF Records, Typed, Data
    <2>3. \A q \in Paths : loc[t].rec \notin files[q]
      BY <1>2, <2>1 DEF Insert, Unstored
    <2>4. Ledger!Store(paths[loc[t].store], loc[t].rec)
      BY <1>2, <2>3 DEF Insert, timeVars, Ledger!Store
    <2> QED
      BY <2>1, <2>2, <2>4 DEF Ledger!Next
  <1>3. ASSUME NEW t \in Handlers, NEW n \in DOMAIN stamps, DeleteOne(t, n)
        PROVE  Ledger!Next
    <2>1. paths[loc[t].store] \in Paths
      BY <1>3 DEF DeleteOne, Typed, Locals, Sound, Fits, Goroutines, Data, Handles
    <2>2. Ledger!Remove(paths[loc[t].store], n)
      BY <1>3 DEF DeleteOne, timeVars, Ledger!Remove
    <2> QED
      BY <2>1, <2>2 DEF Ledger!Next
  <1>4. ASSUME NEW t \in Goroutines, DeleteBefore(t)
        PROVE  Ledger!Next
    <2> DEFINE p == paths[loc[t].store]
    <2>1. p \in Paths /\ files[p] \subseteq Records
      BY <1>4 DEF DeleteBefore, Typed, Locals, Sound, Fits, Data, Handles
    <2>2. /\ loc[t].days \in asked /\ loc[t].days \in Nat \ {0}
          /\ loc[t].now \in 0 .. clock /\ clock \in Nat
      BY <1>4 DEF DeleteBefore, Typed, Locals, LocSet, LocsOf, Sound, Fits, Data
    <2>3. ASSUME NEW n \in files[p]
          PROVE  ~Outdated(t, n) <=> stamps[n] + loc[t].days >= loc[t].now
      <3>1. stamps[n] \in Nat
        BY <2>1 DEF Typed, Data, Records
      <3> QED
        BY <2>2, <3>1 DEF Outdated
    <2>4. Ledger!Sweep(p, loc[t].days, loc[t].now)
      <3>1. {n \in files[p] : ~Outdated(t, n)}
            = {n \in files[p] : stamps[n] + loc[t].days >= loc[t].now}
        BY <2>3
      <3>2. files' = [files EXCEPT ![p] = {n \in files[p] : ~Outdated(t, n)}]
        BY <1>4 DEF DeleteBefore
      <3>3. files' = [files EXCEPT ![p] = {n \in files[p] : stamps[n] + loc[t].days >= loc[t].now}]
        BY <3>1, <3>2, Zenon
      <3>4. loc[t].days > 0 /\ loc[t].now <= clock
        BY <2>2
      <3> QED
        BY <1>4, <3>3, <3>4 DEF DeleteBefore, timeVars, Ledger!Sweep
    <2> QED
      BY <2>1, <2>2, <2>4 DEF Ledger!Next
  <1>5. ASSUME NEW c \in Configurers, NEW p \in Paths, NEW d \in Retentions,
               Configure(c, p, d)
        PROVE  Ledger!Next
    BY <1>5 DEF Configure, fileVars, Ledger!Next, Ledger!Ask
  <1>6. CASE Tick
    BY <1>6 DEF Tick, fileVars, Ledger!Next, Ledger!Tick
  <1>7. ASSUME NEW t \in Handlers,
               \/ InsertFails(t) \/ DeleteFails(t)
               \/ \E ids \in SUBSET DOMAIN stamps : DeleteUsage(t, ids)
        PROVE  UNCHANGED <<files, stamps, clock, asked>>
    BY <1>7 DEF InsertFails, DeleteFails, DeleteUsage, fileVars, timeVars
  <1>8. ASSUME NEW t \in Goroutines,
               \/ NoRetention(t) \/ LoadDays(t) \/ SlotTaken(t) \/ TakeSlot(t)
               \/ CleanStore(t) \/ DeleteBeforeFails(t)
        PROVE  UNCHANGED <<files, stamps, clock, asked>>
    BY <1>8 DEF NoRetention, LoadDays, SlotTaken, TakeSlot, CleanStore,
         DeleteBeforeFails, fileVars, timeVars
  <1>9. ASSUME NEW c \in Configurers, ConfigStep(c) \/ CloseStore(c)
        PROVE  UNCHANGED <<files, stamps, clock, asked>>
    BY <1>9 DEF ConfigStep, ResolveFails, Lock, KeepStore, OpenStore, OpenFails,
         ReplaceStore, ResetSlot, CloseStore, fileVars, timeVars
  <1>10. CASE UNCHANGED vars
    BY <1>10 DEF vars, fileVars, timeVars
  <1> QED
    BY <1>1, <1>2, <1>3, <1>4, <1>5, <1>6, <1>7, <1>8, <1>9, <1>10
    DEF Next, HandlerStep, Cleanup

\* The usage store of main.go and store.go, with its handles, lock, cleanup slot
\* and retention changes, implements UsageLedger: each record is stored once,
\* and leaves its file only by a removal or by a sweep of the oldest.
THEOREM ImplementsLedger == Spec => LedgerSpec
  <1>1. Init => Unstored
    BY DEF Init, Unstored
  <1>2. Init => Ledger!Init
    BY DEF Init, Ledger!Init
  <1> QED
    BY <1>1, <1>2, AlwaysTyped, UnstoredStep, LedgerStep, PTL
    DEF Spec, LedgerSpec, Ledger!Spec

=============================================================================
