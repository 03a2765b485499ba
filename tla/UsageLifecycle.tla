--------------------------- MODULE UsageLifecycle ---------------------------
(***************************************************************************)
(* The usage store under reconfiguration (main.go, store.go): host         *)
(* goroutines insert the record of a call, delete records and clean up     *)
(* through a handle they read from globalStore, while others replace that  *)
(* handle, close it, and change the retention.                             *)
(*                                                                         *)
(* A handle is the number of the NewSQLiteStore that made it, 0 is nil.    *)
(* A record is the number of the usage.handle call that carries it.  Time  *)
(* is counted in hours, the span of the cleanup slot.                      *)
(***************************************************************************)
EXTENDS Integers, FiniteSets, Sequences

CONSTANTS
    Paths,        \* usage.db paths a configuration may resolve to
    NoPath,       \* the empty currentDBPath
    Handlers,     \* host goroutines in usage.handle or DELETE usage
    Configurers,  \* host goroutines in plugin.reconfigure or shutdown
    Nobody,       \* the holder of a free storeMu
    Retentions,   \* retention_days, in hours
    MaxStores,    \* bound of the model: handles opened
    MaxConfigs,   \* bound of the model: configurations and shutdowns
    MaxRecords,   \* bound of the model: usage.handle calls
    MaxTime       \* bound of the model: hours

ASSUME UsageLifecycleAssumption ==
    /\ NoPath \notin Paths
    /\ Handlers \cap Configurers = {}
    /\ Nobody \notin Configurers
    /\ Retentions \subseteq Nat
    /\ {MaxStores, MaxConfigs, MaxRecords, MaxTime} \subseteq Nat

VARIABLES
    files,        \* files[p]: ids in the table usage_records of the file p
    paths,        \* paths[h]: the file of handle h
    shut,         \* handles that were closed
    globalStore, currentDBPath,
    storeMu,      \* who holds storeMu for writing
    retention,    \* retentionDays
    lastCleanup,  \* Never, or the hour in which the slot was taken
    clock,        \* the hour
    pc,           \* pc[t]: where goroutine t is
    loc,          \* loc[t]: its local variables
    stamps,       \* stamps[n]: the timestamp of record n
    configs,      \* how many configurations and shutdowns there were
    asked,        \* history: retentions asked for
    stored,       \* history: stored[p], records whose Insert into p succeeded
    removed,      \* history: records somebody asked to delete
    leaked        \* history: handles abandoned half open

storeVars == <<globalStore, currentDBPath, paths, shut, leaked>>
fileVars == <<files, stored, removed>>
timeVars == <<clock, lastCleanup, retention, asked>>
vars == <<storeVars, fileVars, timeVars, storeMu, pc, loc, stamps, configs>>

Goroutines == Handlers \cup Configurers
Never == -1

NoLocals == [store |-> 0, rec |-> 0, path |-> NoPath, days |-> 0, now |-> 0,
             ids |-> {}]

Init ==
    /\ files = [p \in Paths |-> {}]
    /\ paths = <<>>
    /\ shut = {}
    /\ globalStore = 0
    /\ currentDBPath = NoPath
    /\ storeMu = Nobody
    /\ retention = 0
    /\ lastCleanup = Never
    /\ clock = 0
    /\ pc = [t \in Goroutines |-> "idle"]
    /\ loc = [t \in Goroutines |-> NoLocals]
    /\ stamps = <<>>
    /\ configs = 0
    /\ asked = {}
    /\ stored = [p \in Paths |-> {}]
    /\ removed = {}
    /\ leaked = {}

Goto(t, where, locals) ==
    /\ pc' = [pc EXCEPT ![t] = where]
    /\ loc' = [loc EXCEPT ![t] = locals]

Return(t) == Goto(t, "idle", NoLocals)

-----------------------------------------------------------------------------
(***************************************************************************)
(* usage.handle and DELETE usage                                           *)
(***************************************************************************)

\* currentStore: the handle is read under the lock and used without it.  With
\* no store the record is ignored, and the call returns at once.  The timestamp
\* of the record is when its request came, not when its usage is reported.
HandleUsage(t, requestedAt) ==
    /\ pc[t] = "idle"
    /\ storeMu = Nobody
    /\ globalStore # 0
    /\ Len(stamps) < MaxRecords
    /\ stamps' = Append(stamps, requestedAt)
    /\ Goto(t, "insert", [NoLocals EXCEPT !.store = globalStore, !.rec = Len(stamps')])
    /\ UNCHANGED <<storeVars, fileVars, timeVars, storeMu, configs>>

\* database/sql refuses a closed handle before the statement starts.
Usable(h) == h \notin shut

\* store.Insert.
Insert(t) ==
    LET p == paths[loc[t].store] IN
    /\ pc[t] = "insert"
    /\ Usable(loc[t].store)
    /\ files' = [files EXCEPT ![p] = @ \cup {loc[t].rec}]
    /\ stored' = [stored EXCEPT ![p] = @ \cup {loc[t].rec}]
    /\ Goto(t, "days", NoLocals)
    /\ UNCHANGED <<storeVars, removed, timeVars, storeMu, stamps, configs>>

\* Insert fails: the handle is closed, the file is busy, or the five seconds
\* are over.  The host gets an error and the record is lost.
InsertFails(t) ==
    /\ pc[t] = "insert"
    /\ Return(t)
    /\ UNCHANGED <<storeVars, fileVars, timeVars, storeMu, stamps, configs>>

\* usageDelete: the ids are deduplicated before Delete walks them.
DeleteUsage(t, ids) ==
    /\ pc[t] = "idle"
    /\ storeMu = Nobody
    /\ globalStore # 0
    /\ ids # {}
    /\ Goto(t, "delete", [NoLocals EXCEPT !.store = globalStore, !.ids = ids])
    /\ removed' = removed \cup ids
    /\ UNCHANGED <<storeVars, files, stored, timeVars, storeMu, stamps, configs>>

\* One iteration of the loop of Delete; an id that is absent is only reported.
DeleteOne(t, n) ==
    LET rest == loc[t].ids \ {n} IN
    /\ pc[t] = "delete"
    /\ n \in loc[t].ids
    /\ Usable(loc[t].store)
    /\ files' = [files EXCEPT ![paths[loc[t].store]] = @ \ {n}]
    /\ IF rest = {} THEN Return(t)
                    ELSE Goto(t, "delete", [loc[t] EXCEPT !.ids = rest])
    /\ UNCHANGED <<storeVars, stored, removed, timeVars, storeMu, stamps, configs>>

\* Delete returns at the first error; the ids before it stay deleted.
DeleteFails(t) ==
    /\ pc[t] = "delete"
    /\ Return(t)
    /\ UNCHANGED <<storeVars, fileVars, timeVars, storeMu, stamps, configs>>

-----------------------------------------------------------------------------
(***************************************************************************)
(* maybeCleanup, by a handler after its insert or by a configuration       *)
(***************************************************************************)

\* retentionDays.Load(); cleanup is disabled.
NoRetention(t) ==
    /\ pc[t] = "days"
    /\ retention = 0
    /\ Return(t)
    /\ UNCHANGED <<storeVars, fileVars, timeVars, storeMu, stamps, configs>>

LoadDays(t) ==
    /\ pc[t] = "days"
    /\ retention > 0
    /\ Goto(t, "slot", [loc[t] EXCEPT !.days = retention])
    /\ UNCHANGED <<storeVars, fileVars, timeVars, storeMu, stamps, configs>>

\* Under cleanupMu: somebody cleaned up within the hour.
SlotTaken(t) ==
    /\ pc[t] = "slot"
    /\ lastCleanup # Never
    /\ clock - lastCleanup < 1
    /\ Return(t)
    /\ UNCHANGED <<storeVars, fileVars, timeVars, storeMu, stamps, configs>>

\* Under cleanupMu: the slot is taken before there is anything to show for it.
TakeSlot(t) ==
    /\ pc[t] = "slot"
    /\ lastCleanup = Never \/ clock - lastCleanup >= 1
    /\ lastCleanup' = clock
    /\ Goto(t, "cleanStore", [loc[t] EXCEPT !.now = clock])
    /\ UNCHANGED <<storeVars, fileVars, clock, retention, asked, storeMu, stamps,
                   configs>>

\* currentStore, which need not be the store the retention was meant for.
CleanStore(t) ==
    /\ pc[t] = "cleanStore"
    /\ storeMu = Nobody
    /\ IF globalStore = 0 THEN Return(t)
                          ELSE Goto(t, "sweep", [loc[t] EXCEPT !.store = globalStore])
    /\ UNCHANGED <<storeVars, fileVars, timeVars, storeMu, stamps, configs>>

\* MUTANT of Outdated: the cutoff itself is outdated.
OutdatedInclusive(t, n) == stamps[n] <= loc[t].now - loc[t].days

\* MUTANT of Outdated: the retention is loaded again for the cutoff.
OutdatedReloaded(t, n) == stamps[n] < loc[t].now - retention

\* timestamp < cutoff.
Outdated(t, n) == stamps[n] < loc[t].now - loc[t].days

\* DeleteBefore.
DeleteBefore(t) ==
    LET p == paths[loc[t].store] IN
    /\ pc[t] = "sweep"
    /\ Usable(loc[t].store)
    /\ files' = [files EXCEPT ![p] = {n \in @ : ~Outdated(t, n)}]
    /\ Return(t)
    /\ UNCHANGED <<storeVars, stored, removed, timeVars, storeMu, stamps, configs>>

\* DeleteBefore fails and nobody is told; the slot stays taken.
DeleteBeforeFails(t) ==
    /\ pc[t] = "sweep"
    /\ Return(t)
    /\ UNCHANGED <<storeVars, fileVars, timeVars, storeMu, stamps, configs>>

-----------------------------------------------------------------------------
(***************************************************************************)
(* plugin.reconfigure and shutdown                                         *)
(***************************************************************************)

\* configurePlugin: the retention is in force before the store is ensured.
Configure(c, p, d) ==
    /\ pc[c] = "idle"
    /\ configs < MaxConfigs
    /\ configs' = configs + 1
    /\ retention' = d
    /\ asked' = asked \cup {d}
    /\ Goto(c, "lock", [NoLocals EXCEPT !.path = p, !.days = d])
    /\ UNCHANGED <<storeVars, fileVars, clock, lastCleanup, storeMu, stamps>>

\* resolveDBPath cannot create the directory, and configurePlugin fails.
ResolveFails(c) ==
    /\ pc[c] = "lock"
    /\ Return(c)
    /\ UNCHANGED <<storeVars, fileVars, timeVars, storeMu, stamps, configs>>

Lock(c) ==
    /\ pc[c] = "lock"
    /\ storeMu = Nobody
    /\ storeMu' = c
    /\ Goto(c, "ensure", loc[c])
    /\ UNCHANGED <<storeVars, fileVars, timeVars, stamps, configs>>

SamePath(c) == globalStore # 0 /\ currentDBPath = loc[c].path

\* ensureStore has nothing to do.
KeepStore(c) ==
    /\ pc[c] = "ensure"
    /\ SamePath(c)
    /\ storeMu' = Nobody
    /\ Goto(c, "reset", loc[c])
    /\ UNCHANGED <<storeVars, fileVars, timeVars, stamps, configs>>

\* NewSQLiteStore succeeds.
OpenStore(c) ==
    /\ pc[c] = "ensure"
    /\ ~SamePath(c)
    /\ Len(paths) < MaxStores
    /\ paths' = Append(paths, loc[c].path)
    /\ Goto(c, "replace", [loc[c] EXCEPT !.store = Len(paths')])
    /\ UNCHANGED <<globalStore, currentDBPath, shut, leaked, fileVars, timeVars,
                   storeMu, stamps, configs>>

\* MUTANT of OpenFails: returns without the unlock.
OpenFailsLocked(c) ==
    /\ pc[c] = "ensure"
    /\ ~SamePath(c)
    /\ Return(c)
    /\ UNCHANGED <<storeVars, fileVars, timeVars, storeMu, stamps, configs>>

\* NewSQLiteStore fails.  When it was the schema the new handle is closed, when
\* it was a PRAGMA it is not, and before sql.Open there is none.  The old store
\* stays, and so does the new retention.
OpenFails(c) ==
    /\ pc[c] = "ensure"
    /\ ~SamePath(c)
    /\ storeMu' = Nobody
    /\ Return(c)
    /\ \/ UNCHANGED <<paths, shut, leaked>>
       \/ /\ Len(paths) < MaxStores
          /\ paths' = Append(paths, loc[c].path)
          /\ \/ shut' = shut \cup {Len(paths')} /\ UNCHANGED leaked
             \/ leaked' = leaked \cup {Len(paths')} /\ UNCHANGED shut
    /\ UNCHANGED <<globalStore, currentDBPath, fileVars, timeVars, stamps, configs>>

\* MUTANT of ReplaceStore: the old handle is not closed.
ReplaceStoreKeepingOld(c) ==
    /\ pc[c] = "replace"
    /\ globalStore' = loc[c].store
    /\ currentDBPath' = loc[c].path
    /\ storeMu' = Nobody
    /\ Goto(c, "reset", loc[c])
    /\ UNCHANGED <<paths, shut, leaked, fileVars, timeVars, stamps, configs>>

\* ensureStore closes the old store and publishes the new one.
ReplaceStore(c) ==
    /\ pc[c] = "replace"
    /\ shut' = IF globalStore = 0 THEN shut ELSE shut \cup {globalStore}
    /\ globalStore' = loc[c].store
    /\ currentDBPath' = loc[c].path
    /\ storeMu' = Nobody
    /\ Goto(c, "reset", loc[c])
    /\ UNCHANGED <<paths, leaked, fileVars, timeVars, stamps, configs>>

\* The rest of configurePlugin: the slot is freed, and maybeCleanup is called.
ResetSlot(c) ==
    /\ pc[c] = "reset"
    /\ IF loc[c].days > 0 THEN /\ lastCleanup' = Never
                               /\ Goto(c, "days", NoLocals)
                          ELSE Return(c) /\ UNCHANGED lastCleanup
    /\ UNCHANGED <<storeVars, fileVars, clock, retention, asked, storeMu, stamps,
                   configs>>

\* closeStore, at shutdown.
CloseStore(c) ==
    /\ pc[c] = "idle"
    /\ storeMu = Nobody
    /\ globalStore # 0
    /\ configs < MaxConfigs
    /\ configs' = configs + 1
    /\ shut' = shut \cup {globalStore}
    /\ globalStore' = 0
    /\ currentDBPath' = NoPath
    /\ UNCHANGED <<paths, leaked, fileVars, timeVars, storeMu, pc, loc, stamps>>

Tick ==
    /\ clock < MaxTime
    /\ clock' = clock + 1
    /\ UNCHANGED <<storeVars, fileVars, lastCleanup, retention, asked, storeMu, pc,
                   loc, stamps, configs>>

-----------------------------------------------------------------------------

Cleanup(t) ==
    \/ NoRetention(t) \/ LoadDays(t) \/ SlotTaken(t) \/ TakeSlot(t)
    \/ CleanStore(t) \/ DeleteBefore(t) \/ DeleteBeforeFails(t)

HandlerStep(t) ==
    \/ Insert(t) \/ InsertFails(t) \/ DeleteFails(t)
    \/ \E n \in DOMAIN stamps : DeleteOne(t, n)

ConfigStep(c) ==
    \/ ResolveFails(c) \/ Lock(c) \/ KeepStore(c) \/ OpenStore(c) \/ OpenFails(c)
    \/ ReplaceStore(c) \/ ResetSlot(c)

Next ==
    \/ \E t \in Handlers, ts \in 0 .. clock : HandleUsage(t, ts)
    \/ \E t \in Handlers : HandlerStep(t)
    \/ \E t \in Handlers, ids \in SUBSET DOMAIN stamps : DeleteUsage(t, ids)
    \/ \E c \in Configurers, p \in Paths, d \in Retentions : Configure(c, p, d)
    \/ \E c \in Configurers : ConfigStep(c) \/ CloseStore(c)
    \/ \E t \in Goroutines : Cleanup(t)
    \/ Tick

Spec == Init /\ [][Next]_vars

-----------------------------------------------------------------------------
(***************************************************************************)
(* Properties                                                              *)
(***************************************************************************)

Records == 1 .. Len(stamps)
Handles == 1 .. Len(paths)

\* The values of the variables; only the goroutine inside ensureStore holds the
\* lock, and it holds it from Lock to the end of ensureStore.
TypeOK ==
    /\ files \in [Paths -> SUBSET Records]
    /\ paths \in Seq(Paths)
    /\ shut \subseteq Handles
    /\ leaked \subseteq Handles
    /\ globalStore \in 0 .. Len(paths)
    /\ currentDBPath \in Paths \cup {NoPath}
    /\ storeMu \in Configurers \cup {Nobody}
    /\ \A c \in Configurers : pc[c] \in {"ensure", "replace"} <=> storeMu = c
    /\ retention \in Nat
    /\ clock \in Nat
    /\ lastCleanup \in {Never} \cup 0 .. clock
    /\ pc \in [Goroutines -> {"idle", "insert", "delete", "days", "slot",
                              "cleanStore", "sweep", "lock", "ensure", "replace",
                              "reset"}]
    /\ loc \in [Goroutines -> [store : 0 .. Len(paths), rec : 0 .. Len(stamps),
                               path : Paths \cup {NoPath}, days : Nat,
                               now : 0 .. clock, ids : SUBSET Records]]
    /\ stamps \in Seq(0 .. clock)
    /\ configs \in Nat
    /\ asked \subseteq Nat
    /\ stored \in [Paths -> SUBSET Records]
    /\ removed \subseteq Records

\* A record whose insert was acknowledged is in the file it was written to
\* until somebody asks for its deletion or it is older than a retention some
\* configuration asked for: closing, replacing and reopening stores under the
\* feet of inserts and cleanups loses nothing else.
StoredKept ==
    \A p \in Paths : \A n \in stored[p] :
        \/ n \in files[p]
        \/ n \in removed
        \/ \E d \in asked \ {0} : stamps[n] < clock - d

\* What currentStore returns is open and is the store of currentDBPath, and no
\* other handle stays open, except the one ensureStore is about to publish and
\* those NewSQLiteStore abandoned.
PublishedStore ==
    /\ globalStore = 0 <=> currentDBPath = NoPath
    /\ globalStore # 0 => /\ globalStore \notin shut \cup leaked
                          /\ paths[globalStore] = currentDBPath
    /\ \A h \in Handles \ (shut \cup leaked) :
          h = globalStore \/ \E c \in Configurers : pc[c] = "replace" /\ loc[c].store = h

\* The usage store implements UsageLedger.
Ledger == INSTANCE UsageLedger WITH
              files <- files, stamps <- stamps, clock <- clock, asked <- asked
LedgerSpec == Ledger!Spec
=============================================================================
