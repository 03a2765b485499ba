# Usage statistics plugin: a TLA+ model

The plugin is a shared library inside an LLM proxy (the *host*). The host calls
it from many goroutines: a hook before and after every upstream request, a hook
for every response and for every chunk of a streamed response, a usage record
per call, reconfigurations, and HTTP requests of a dashboard. The plugin keeps
usage records in `usage.db` and captured payloads in `request-logs.db`.

This directory models what decides which of it is stored, how long it stays, and
what the dashboard makes of it: the capture of requests and responses, the life
cycles of both stores, the summaries, pages and prices computed from them, and
the listing of the log. The modules are translated from the Go source;
`PROJECT.json` maps each definition to its lines.

## 1. The system

| component | state | operations | how it meets the others |
|---|---|---|---|
| stream aggregator (`stream_agg.go`) | `bufs`, one buffer per unfinished stream, `stop` | `add`, `evictOldestLocked`, `sweep`, `flushAll`, `emit`, `close` | host goroutines call `add`; it calls `captureStreamResponse` outside its lock |
| request log store (`reqlog.go`) | `batch`, the counters, the table `request_logs` | `enqueue`, `flush`, `loop`, `maybePrune`, `close`, `page`, `pageGrouped` | host goroutines and the aggregator enqueue; a worker and any caller that fills a batch write |
| request log life cycle (`reqlog.go`, `main.go`) | `reqLog`, `reqLogAgg`, `reqLogLive`, `reqLogPathV` under `reqLogMu` | `openReqLogStore`, `closeReqLogStore`, `ensureReqLog`, `streamAgg`, `currentReqLog` | replaces store and aggregator under the feet of captures |
| hook dispatch (`main.go`, `abi_cgo.go`) | none | `handleMethod` and its handlers | one call of the host, one handler |
| payload capture (`payload_capture.go`) | `inFlight`, `history` (300) | `recordInboundRequest`, `recordResponse` | joins a response to its prompt, saves it from a goroutine of its own |
| usage store (`store.go`) | table `usage_records`, chat previews, price overrides | `Insert`, `Delete`, `DeleteBefore`, `Summary`, `StoreLatest`, `ListPage`, `Query` | read by the API while `usage.handle` writes |
| usage life cycle (`main.go`) | `globalStore`, `currentDBPath`, `retentionDays`, `lastCleanup` | `configurePlugin`, `ensureStore`, `closeStore`, `maybeCleanup`, `handleUsage`, `usageDelete` | swaps the store under running inserts, deletions and cleanups |
| grouped request log page (`reqlog.go`, `reqlog_api.go`) | none | `reqLogListGet`, `page`, `pageFlat`, `pageGrouped` | two to four queries while flushes and pruning write |
| data sources, management API (`datasource.go`, `*_api.go`) | none | one handler per route | chooses between plugin and router source |
| router store (`routerstore.go`) | another program's database, read only | `RouterSummary`, `RouterPage`, `RouterLatest`, `scanRouterModelIndex` | written by model-router meanwhile |
| pricing (`pricing*.go`) | price book, overrides | `resolve`, `estimateRecordCost`, `pricingGet`, `pricingPut`, sync | annotates summaries |
| provider labels (`provider_label.go`) | a cached index of base URLs | lookup, invalidation | |
| configuration, masking, types | none | pure functions | |

What is hard here:

* `add` gives up the aggregator's lock between the eviction of a buffer and the
  insertion of its own, and every buffer is finalized outside the lock.
* A full batch is flushed by whichever caller filled it, at the same time as
  the worker or another caller flushes the one before; one SQLite connection
  serialises the transactions but does not order them. Every step of a flush
  can fail.
* Reconfiguration holds `reqLogMu` while it waits for a janitor and a worker.
  The janitor finalizes buffers, so it must not need that lock: it reads the
  store through `reqLogLive`. Captures keep the pointers they read before.
* `select` between a tick and a closed stop channel is a coin toss.
* A record, a deletion or a cleanup keeps the handle of the usage store it read,
  while a reconfiguration closes that handle and publishes another; a
  reconfiguration that fails has changed the retention already.
* A summary is a dozen queries and a page two to four, none in a transaction.
  The same summary is computed by SQL for one source and by a scan for the
  other. Names come in several spellings, and each part folds them its own way.

What makes the modelled components correct:

* aggregator: every accepted chunk is written in exactly one row, eventually;
  what the map exceeds its limit by does not add up; `close` leaves no older chunk behind;
* store: every sample is in one place, the counters tell the truth, the batch
  is bounded, rows are kept until the retention has passed, a later capture is
  only overtaken where flushes overlap, `close` flushes and returns;
* payload capture: a response is joined to its own latest prompt, the map never
  outgrows the ring;
* usage store: a stored record leaves its file only on request or by a retention
  somebody asked for, and the published handle is the only open one;
* dashboard: the parts of an answer add up, both sources agree on the figures
  they compute alike, a client that pages sees every row that matched when it
  began, every model is in one row of the catalogue;
* request log page: the line of a call says what the log holds of the call, and
  a client that pages sees every line that was there when it began and that no
  new row moved to the front;
* request log life cycle: at most one generation of store and aggregator is alive, nobody
  uses nil, disabling the log keeps what it held but for what host goroutines
  have taken out of it, nobody hangs.

## 2. The modules

| module | what it is |
|---|---|
| `StreamLedger` | what the aggregator promises: accepted chunks of a request become disjoint contiguous rows |
| `StreamAgg` | the aggregator; implements `StreamLedger` |
| `ReqLogStore` | one generation of the store |
| `ReqLogLifecycle` | generations of store and aggregator, the globals, captures and reconfigurations |
| `PayloadCapture` | the map from ids to prompts and the ring that bounds it, and the asynchronous saves |
| `UsageLedger` | what the usage store promises about a record: stored once, removed on request, or swept by a retention that was asked for |
| `UsageLifecycle` | handles, configurations, records, deletions and cleanups; implements `UsageLedger` |
| `Tables` | operators: rows as SQL and the loops of the plugin deliver them: a selection, a sort, a page of it |
| `PriceBook` | operators: how a name resolves to prices and what a call costs |
| `UsageViews` | operators: what `usage.db` makes of a call, the queries and sums of a summary, pages |
| `RouterViews` | operators: the same of the router's database, and the price catalogue |
| `Dashboard` | requests of several queries over both databases, with writes in between; composes the three modules above |
| `GroupedPage` | the listing of the request log, query by query, with writes in between |
| `MCStreamAgg`, `MCReqLogStore`, `MCPayloadCapture`, `MCUsageLifecycle`, `MCDashboard`, `MCGroupedPage` | the same with definitions for TLC |
| `TablesProofs` | lemmas: what the operators of `Tables` return for tables of any length, and sums and counts over finite sets |
| `StreamAggProofs`, `ReqLogStoreProofs`, `ReqLogLifecycleProofs`, `PayloadCaptureProofs`, `UsageLifecycleProofs`, `DashboardProofs`, `GroupedPageProofs` | theorems |

`StreamAgg` and `PayloadCapture` are checked with symmetry where no liveness
property is. `UsageLifecycle` and `Dashboard` meet in the usage store: the one
says which rows are in it, the other what is computed from them.

### StreamAgg

A chunk is the number it gets, per request, when `a.mu` is held for it; a buffer
is the set of its chunks. `add` is cut where it takes and releases the lock:
`AddCall` (up to `Lock`; `now` is read there, before the lock), `Evict` (first
critical section, ends with the unlock before `emit(victim)`), `EmitVictim`,
then `Fold` or `FoldLast` (the critical section that ends `add`), and `EmitOut`.
A request that is tracked, or for which there is room, goes from `AddCall`
straight to `Fold`/`FoldLast`. The janitor has `Sweep` (the critical section of
`sweep`; a sweep that finds nothing is a stutter), `FlushAll`, one `JanitorEmit`
per iteration of the emit loops, and `JanitorReturn`. Time is abstract: a
timestamp passes with every call, and `Age` lets one more of them count as
older than `streamAggIdleTTL`. The call of `finalize` is the append to `rows`:
the order of these calls is the order in which the store receives the rows.
`crowd` is history: the most goroutines that were ever between `Evict` and their
fold at once.

Abstracted: the bytes of a chunk (whether it is a terminator is the caller's
choice, `end`), the texts a buffer accumulates, and the nil, empty-id and
empty-body checks at the head of `add`.

### ReqLogStore

A sample is the number it gets when it is appended to the batch; `keys` says
which `(request_id, kind)` it has. `enqueue` is `EnqueueSample` (under `s.mu`)
and `Count` (`queued.Add`, outside it). `flush` is `Swap` or `NothingToFlush`,
then `Begin` (which waits for the connection) or `BeginFails`, then
`Commit`, `CommitFails`, or `BeginFails` again when the statement cannot be
prepared. `Commit` lets any subset of the rows fail on their own. The worker has
`Tick`, `Stopping`, `SkipPrune`, `Prune`; `close` is `Stop` and `CloseDB`. A
transaction that already has its connection survives `CloseDB`, as in
`database/sql`. A caller's own flush may still be under way then; nothing waits
for it.

Abstracted: what a row contains, and timestamps (`expired` counts the samples
that are older than the retention; samples are appended in time order). The
life cycle of `lastPrune` is part of `SkipPrune`'s choice. `raced` is history:
the samples whose batch was swapped out while another one was held.

### ReqLogLifecycle

Composes the two at the level of the globals. A store and the aggregator opened
with it are a *generation*; 0 is nil. A capture first reads a pointer under the
read lock (`ReadLog`, `ReadAgg`), then uses it (`Buffer`, `Complete`, `Evict`,
`Load`, then `enqueue`) whatever happened meanwhile. An append that does not fill
the batch is `Enqueue`; one that does is `FillBatch`, which takes the batch out,
and `Write`, the transaction of the host goroutine, for which `close` does not
wait: on a database closed by then it loses the batch (`dropped`). The janitor's
captures are `JanitorFinalize`, or `JanitorFills` and `JanitorWrites`. How many
samples fill a batch is `ReqLogStore`'s matter, so every append may. A reconfiguration takes the lock
(`Lock`), goes through the closing steps in the order of `NextStep`, which is
the one order for `openReqLogStore` and another for `closeReqLogStore`, and
gives the lock back. Chunks are buffered singly here, since how they share a
buffer is `StreamAgg`'s matter, and a transaction fails on a closed database and
never otherwise, since the other failures are `ReqLogStore`'s.

### PayloadCapture

A registration is its number. `Register` and `RegisterAndEvict` are
`recordInboundRequest` with and without room in the ring; in both the map is
written first and the oldest registration removed afterwards, together with
whatever is found under its ids by then. `Respond` is `recordResponse` up to the
start of its goroutine, `Save` and `SaveFails` are the goroutine. Request and
trace ids share one map, so they are one set here. Left out: the texts, the
trimming of ids, and bodies without a prompt, for which the hook does nothing.
The store the goroutine finds is part of `SaveFails`' choice.

### UsageLifecycle

A handle is the number of the `NewSQLiteStore` that made it; `paths` says which
file it is open on, `shut` which handles are closed, `leaked` which ones nobody
has. `handleUsage` is `HandleUsage` (up to `currentStore`), `Insert` or
`InsertFails`, then the cleanup. `usageDelete` is `DeleteUsage`, one `DeleteOne`
per id, or `DeleteFails`. `maybeCleanup`, called by both a handler and a
configuration, is cut at each read of shared state: `LoadDays`, `TakeSlot`,
`CleanStore`, `DeleteBefore`. `configurePlugin` is `Configure` (which has
stored the retention), `Lock`, one of `KeepStore`, `OpenStore` and `OpenFails`,
`ReplaceStore`, `ResetSlot`. A record carries the time its request came, which
may lie before the record is stored. Time is in hours; the slot lasts one.

### Tables, PriceBook, UsageViews, RouterViews

Operators only, without recursion, so that `DashboardProofs` can use them. In
`Tables` the place of a row in a result is a rank, the number of selected rows
that come before it: `WHERE` ranks places by themselves, `ORDER BY` by the
columns and then by place, as a stable sort does. Sums are folds over the finite
set of places, counts are cardinalities. The sort of the slowest calls is one of
these ranks as well; the sort behind the percentiles keeps the library's
`SortSeq`. A
model name is a record of what the code tells apart in it: prefix, stem,
suffixes, capitals. Go walks a map in any order, so `Resolve` returns the set of
prices that may be found: more than one where entries of the book differ in case
only. The token counters are small numbers, rates are whole numbers per token, and rounding is
left out. A summary is a record of what each query returned (`view`) and
operators over it, which are named after the functions that fill the answer.

### Dashboard

`Begin` is the parsing of a request and the choice of its source; each `Query` is one
statement, in the order of the code (`PluginPlan`, `RouterPlan`); `NextPage` is a
client that asks for the page after a full one. In between, calls are inserted
into either database, deleted, prices are put, and model-router may appear.
Two requests at once are not modelled: a request only reads, so it does not
matter to another one, and `PutPrices`, the one that writes, is one transaction.

### GroupedPage

A row is a capture with its id and time. A page of calls has four queries
(count, keys, attempts, responses), one of rows two. The model keeps what each
returned and computes the lines from that, as `pageGrouped` does. `walk` is a
client that pages as `dashboard2.html` does, until the total says it is done:
what had to be shown when it began, what was, which calls were moved to the front
by a new row meanwhile (`moved`), and whether anything happened that voids the
promise (`torn`). The grouping is by sets: the keys of the rows that
are kept, those of them that `HAVING` keeps, ranked by their newest rows.

## 3. The runs

| run | checks | shows |
|---|---|---|
| `stream` | `TypeOK`, `ExactlyOnce`, `TrackedBound`, `CloseDrains`, `LedgerSpec`, `EventuallyWritten` | no interleaving loses or doubles a chunk; what the map exceeds its limit by is bounded; refinement of `StreamLedger`; every accepted chunk is written |
| `stream_one_row` | `OneRowPerStream` (violated) | a stream may get two rows |
| `reqlog_store` | `TypeOK`, `SampleOnce`, `Accounting`, `QueueBound`, `RowsKept`, `CloseFlushes`, `OlderOnlyByRace`, `EventuallySettled`, `CloseReturns` | concurrent flushes, failures, pruning and close; captures are overtaken only where flushes overlap; nothing waits for ever |
| `reqlog_later_capture` | `LaterCaptureWins` (violated) | commits can overtake each other |
| `reqlog_lifecycle` | `TypeOK`, `SampleOnce`, `OneGeneration`, `DisableKeepsAll`, `ConfigReturns`, `CaptureReturns` | reconfiguration against captures, with batches written by the host's goroutines |
| `payload_capture` | `TypeOK`, `FoundExactly`, `PreviewJoins` | what the shared map finds, what a preview joins |
| `reqlog_reopen` | `ReopenKeepsAll` (violated) | changing the path loses unfinished streams |
| `usage_lifecycle` | `TypeOK`, `StoredKept`, `PublishedStore`, `LedgerSpec` | records, deletions and cleanups against reconfigurations; refinement of `UsageLedger` |
| `dashboard` | `TypeOK`, `SummaryAgrees`, `SourcesAgree`, `PagesCover`, `SlowestKept`, `CatalogueComplete`, `LifetimeCovers` | every answer of the dashboard, with writes between its queries |
| `catalogue_calls` | `CallsListed` (violated) | the calls of a merged spelling are in no row of the catalogue |
| `grouped_page` | `TypeOK`, `LinesAgree`, `WalkCovers` | what the lines of a page say and their order, and a client that pages while captures arrive |
| `grouped_total` | `PageAndTotalAgree` (violated) | a request without a trace is counted and never shown |

### Bounds

* `StreamAgg`: 3 requests, 2 goroutines, `MaxTracked` 1, `MaxChunks` 2, 3 calls
  (4 in `stream_one_row`). Two goroutines and a map of one buffer are the least
  with which one adder slips into the window another one opened; three requests
  are the one evicted, the one that is added after it, and the one that takes the
  room in between; buffers of two chunks are completed by the cap as well as by
  a terminator. The theorems remove these bounds.
* `ReqLogStore`: 1 key (2 in `reqlog_later_capture`), 2 goroutines plus the
  worker, batches of 2, 3 samples: one full batch and one partly filled one, and
  three possible writers that compete for one row. The theorems hold for any
  number of keys, and progress does not depend on which row is written.
* `ReqLogLifecycle`: one capturing goroutine, one reconfiguring goroutine, two
  paths, two generations, three reconfigurations, two samples: a log can be
  opened, moved, failed to reopen, and closed in each order with a stream
  unfinished, a capture under way, or a full batch in its hand. A second capturing goroutine could only
  meet the first inside an aggregator or a store, which the other two modules
  cover.
* `PayloadCapture`: two ids, a ring of two, five registrations, one response: an
  id can be registered again before its first registration leaves the ring, by
  the registration that makes it leave, and after it left.

* `UsageLifecycle`: one handling and one configuring goroutine, two paths, two
  handles, three configurations or shutdowns, two records, two hours: a handle
  can be replaced while an insert, a deletion or a cleanup holds it, a failed
  configuration can leave its retention behind, the cleanups of the two can overlap.
  The theorems remove these bounds.
* `Dashboard`: three rows in the two databases together, of four possible calls
  each, one write while a request runs, limits of 1 to 2, lists cut at 2, two
  priced models in two spellings each, one of them with conflicting rates. Three
  rows are a group of two and another one, and one more than every cut; one
  write is enough to come between any two queries, and a second one could only
  hide what the first one shows. The properties of whole answers are stated for
  answers no write came between.
* `GroupedPage`: four captures of a routed call with two targets, two direct
  calls and one without a trace; pages of one line; two writes while a client
  pages. A routed call needs three rows and its response a fourth.

`CHECK_DEADLOCK FALSE` is set where the host may stop calling, and at the bounds
must; the runs of `MCDashboard` and `MCGroupedPage` check deadlock, since a
request can always be asked and be finished.

### Fairness

Weak fairness for goroutines stands for Go's scheduler: a goroutine that can run
does. The ticker ticks and time passes (`WorkerStep`, `JanitorStep`, `Age`).
Strong fairness is used for two things only. A `select` whose stop branch stays
ready chooses at random among ready branches, so it does not choose the tick for
ever (`Stopping`, and `FlushAll` in the life cycle). `sync.RWMutex` lets neither
a waiting writer nor a waiting reader starve (`Lock`, `Reads`). Nothing obliges
the host to call anything, a transaction to succeed, or the plugin to be closed.

## 4. Findings

Five sentences of the repository do not hold of the code, each with a run.

* **A stream can have two rows** (`OneRowPerStream`). The chunk with a
  `finish_reason` ends the buffer, and the `[DONE]` after it makes another one.
  By the upsert on `(request_id, kind)` the second replaces the first.
* **The later capture need not win** (`LaterCaptureWins`). Two batches written at
  the same time may commit in either order. This needs two flushes to overlap,
  that is, a burst or a slow disk; where they do not, the later capture wins,
  whatever fails, is pruned or is closed (`OlderOnlyByRace`, proved).
* **Moving the log loses unfinished streams** (`ReopenKeepsAll`).
  `closeReqLogStore` stops the janitor first and its comment says why;
  `openReqLogStore` closes the store first.

Two of the five are plain errors of value:

* **The catalogue drops calls** (`CallsListed`). The rows of `GET pricing` merge
  the spellings of a model that agree on a price, but the calls, tokens and cost
  of a row are those of the displayed spelling only (`pricing_api.go:298`).
* **A request without a trace is never listed** (`PageAndTotalAgree`). SQL groups
  it under `row:<id>`, Go collects it under its empty trace (`reqlog.go:872` and
  `919`); it is part of the total and on no page. For captures with a trace the
  page and the total do agree.

More sentences are contradicted by what the model had to say to be faithful,
without a run of their own:

* `README.md:131` calls the limit of 64 streams hard. `add` checks for room once,
  then evicts and drops the lock; whoever comes in the window takes the room.
  The map stays too large when they have all left the window, since an eviction
  makes room for one buffer only. `TrackedBound`, which is proved, is what does
  hold: buffers and goroutines in the window together exceed the limit by no more
  than the most goroutines that were ever in the window at once.
* `store.go:1327-1328`: the provider shown beside a model is the one that served
  most of its traffic. Groups are per account, and a label keeps the calls of the
  first of its accounts only, so a provider with one busy account wins over one
  with two that are busier together. `SummaryAgrees` says what does hold: the
  provider served the model, alone exactly when no others are counted.
* `reqlog.go:670-672`: whether a call was routed "is a property of the whole
  CALL". Under a model filter only the rows the filter kept are counted, so a
  routed call can be listed as direct.
* `main.go:262` says of the retention that 0 disables the cleanup. A cleanup that
  has read the old retention still runs, on whatever store is published by then
  (`UsageLedger` therefore lets a sweep use any retention asked for so far).
* `datasource.go:82-83`: the router is only consulted for the latest rows when
  explicitly requested. It is consulted whenever `usage.db` cannot be read and
  the plugin was not requested. `StoreLatest` walks the row ids, not an index on
  the timestamp.
* `pricing_api.go:71`: the lifetime calls of a row are the "calls ever recorded".
  Calls without a `provider_model` are counted in the range under `unknown`
  (`pricing_api.go:153`), and `scanRouterModelIndex` skips them
  (`routerstore.go:99`): their row has calls in the range and none in its
  lifetime. `LifetimeCovers`, which is proved, is about the other rows.
* `pricing_api.go:29-31`: spellings are only merged when all agree on a price.
  `fingerprint` asks the book only (`pricing_api.go:47`), and leaves out the
  accounting mode. Give one spelling a price by hand and its group is still one
  row, at one of the two rates, while calls are billed at both.
* `store.go:638-639`: the derived counters of the totals mirror what the router
  path reports. The error rate (`routerstore.go:621-630`) is missing and stays 0;
  `SourcesAgree` says that the two agree only when nothing failed.
* A page of `ListPage` ignores the status code of the filter, the summary beside
  it honours it.
* Two book entries that differ in case only make the price of a third spelling
  depend on the order of a Go map (`pricing.go:238`). The code promises nothing
  there and nothing is stated of it.

`SourcesAgree` covers what the two summaries compute alike, and they do not
compute everything alike. Of the error rate of the totals and of the tokens
written to a cache, which the plugin sums and the router's side does not
(`routerstore.go:635`), it says when they agree: only when they are zero. In the
following they differ and nothing is stated:

* the router's side takes cached tokens from another column when they are zero
  (`routerstore.go:462`);
* it leaves calls without a latency out of its percentiles (`:867`) and those of
  the hours (`:1076`), the plugin takes them in;
* it calls pricing available only with a book (`:659`), the plugin with any price
  (`store.go:1243`);
* it samples the oldest calls for the scatter (`:562`), the plugin the newest;
* costs by model: the router charges each spelling its own calls, the plugin one
  spelling all of them; and the router groups aliases by its own column;
* attributions, prefixes and mappings are the router's alone; of aliases and keys
  the plugin knows no successes, error rates or percentiles.

The head of `reqlog.go` speaks of a bounded
channel, of a single worker that does every expensive step, and of one batch in
memory: there is no channel (`reqLogQueueSize` is unused), callers flush full
batches themselves on the hot path, and each flush under way holds a batch.
`enqueue` is said to drop on overflow: it never drops. `dropped` is a lower bound:
when `Commit` fails, rows that had been executed are lost without being counted
(`Accounting` therefore says `<=`).

`DisableKeepsAll` has two exceptions the code makes necessary. A host goroutine
that has taken a buffer out of the aggregator when the log is being disabled may
find `reqLogLive` nil and drop the buffer. And one that has filled the batch and
swapped it out holds samples of other captures as well; `close` waits for the
worker only (`reqlog.go:420-422`), so that goroutine may fail at `BeginTx` and
lose all of them.

`WalkCovers` has the exceptions of paging by `LIMIT` and `OFFSET` over calls that
are sorted by `MAX(id)` (`reqlog.go:808-811`): a call that gets a new row between
two pages moves to the front and may be missed. It says nothing of a walk that
was torn by the retention, by a row that changed its trace, by a capture between
the two queries of one page, or, under a filter, by a row that may have changed
what matches.

## 5. The proofs

The proof modules prove, for all values of the constants that satisfy the named
assumptions: finitely many requests and goroutines, positive caps, a finite book
whose rates are numbers, calls that
have the columns the queries read, with whole numbers as counters
(`RowsAssumption`; what is negative is the plugin's to clean), pages of at most
the size the server allows, filters that have all their parts, lists of at least
one slowest call (`CapsAssumption`). No theorem bounds the rows, the calls, the names, the pages or the writes.

| theorem | property | argument |
|---|---|---|
| `StreamAggProofs!TypeCorrect` | `TypeOK` | inductive as it stands |
| `TrackedBounded` | `TrackedBound` | inductive with `TypeOK`: buffers and evictors are counted together, so an eviction trades one for the other and a fold after it back; the sum grows only by a fold that finds room in the map, and besides it there are at most `crowd` evictors |
| `ChunksExactlyOnce` | `ExactlyOnce` | `PartInv`: the buffers, hands and rows of a request partition `1 .. accepted` |
| `CloseLeavesNothing` | `CloseDrains` | `CloseInv` adds what the map holds while the janitor flushes |
| `ImplementsLedger` | `LedgerSpec` | `RunInv`: every buffer and hand is a contiguous run; then an emit is a `WriteRow`, a fold an `Accept`, the rest stutters |
| `ReqLogStoreProofs!TypeCorrect` | `TypeOK` | `TypeInv` adds that a nonempty set of samples has a greatest one, which `Latest` chooses |
| `SamplesExactlyOnce` | `SampleOnce` | split into `Apart` (places are disjoint) and `Located` (they cover all samples) |
| `CountersCorrect` | `Accounting` | cardinalities of disjoint unions, from `Apart` |
| `BatchBounded` | `QueueBound` | only a swap shrinks the batch, only a caller that saw it full appends beyond it |
| `RowsStay` | `RowsKept` | a row is replaced by a committed sample or deleted when outdated |
| `LaterWinsUnlessRaced` | `OlderOnlyByRace` | `RaceInv`: what is in the batch is newer than all that left it (`BatchIsNewest`), and a sample in a hand is older than a committed one, or one in another hand, only if that one is `raced` (`Overtaken`) |
| `CloseLeavesNothing` | `CloseFlushes` | `StopInv`: what the last flush swapped out and what came later |
| `ReqLogLifecycleProofs!TypeCorrect` | `TypeOK` | with `MayHold`: a chunk in a capture's hand comes with an aggregator; that `streamAgg` returns one needs `Phases` |
| `OneGenerationLeft` | `OneGeneration` | not inductive: `Mutex`, `OneStore`, `OneJanitor` and `Phases` say, for each step of the holder of `reqLogMu`, which globals are cleared and what state the store and the janitor they name are in |
| `DisablingSavesAll` | `DisableKeepsAll` | `Owing` follows what is owed through the closing steps: in the buffers, then with the janitor, then in the batch or in the janitor's own transaction, then saved; a host goroutine that takes a batch out takes it out of what is owed; a janitor finds the closing store since `reqLogLive` is cleared only after the aggregator is closed |
| `SamplesInOnePlace` | `SampleOnce` | inductive with the types: every step moves a set of samples from some holders to one other (`MoveOnce`) |
| `PayloadCaptureProofs!TypeCorrect` | `TypeOK` | with `Ring`: the ring is the last registrations in order |
| `LookupExact` | `FoundExactly` | inductive with `Ring`: which registration leaves is known from the count |
| `PreviewsJoin` | `PreviewJoins` | a response joins what `FoundExactly` says is found; later registrations change nothing before them |
| `UsageLifecycleProofs!TypeCorrect` | `TypeOK` | `Typed` adds what a goroutine holds at each place: a handle that was opened, a record that has a stamp, the lock |
| `AlwaysStoredKept` | `StoredKept` | inductive with `Typed`: files only shrink by a deletion that was asked for or by a sweep with a retention a configuration asked for |
| `AlwaysPublishedStore` | `PublishedStore` | `Pending` adds the handle between `OpenStore` and `ReplaceStore`, which only the holder of the lock can have |
| `ImplementsLedger` | `LedgerSpec` | `Unstored`: a record on its way is in no file yet; then each step is an action of the ledger or a stutter |
| `DashboardProofs!TypeCorrect` | `TypeOK` | `StateInvariant`: `TablesOK`, `OverridesOK` and `RequestOK`, inductive together |
| `LifetimeIsCovering` | `LifetimeCovers` | `CatalogueInvariant`: the index is read after the traffic and rows are only added, so every call of the range that names a model is found in it, and no two in the same place |
| `CatalogueIsComplete` | `CatalogueComplete` | from the same invariant: each name is there once up to case, and the names of a group become one row together or one row each |
| `PagesAreCovering` | `PagesCover` | not inductive: `WalkOK` says that the rows a client has not seen have at least as many rows before them as the offset it asks for next; inserted rows only add to these, and a page shows the rows from its offset on |
| `SlowestIsKept` | `SlowestKept` | `KeptSteps`: after each row the list is `TopList` of what was seen: falling, and its k-th number is one that at least k of the numbers seen reach. Two such lists of a length are equal (`TopsSame`), and the sorted whole, cut, is one |
| `SummaryIsConsistent` | `SummaryAgrees` | `SnapshotInvariant`: the queries of an undisturbed request saw one state of the databases. A breakdown is then a partition of the rows by a key (`GroupedParts`), what is counted and summed over the parts is that of the whole (`PartedTotals`), and exactly one spelling of a model takes its costs (`OneTakesCosts`) |
| `SourcesAreAgreeing` | `SourcesAgree` | from the same invariant: the router's scan reads the same columns (`AsRoutedFacts`), and what it drops as not positive, or counts in its own order, changes none of the results compared (`RoutedTotals`, `RoutedGroups`, `RoutedKeys`, `RoutedCodes`) |
| `GroupedPageProofs!TypeCorrect` | `TypeOK` | `StateInvariant`: ids ascend, the index is unique, the answered queries are the first ones of the plan |
| `WalksAreCovering` | `WalkCovers` | `WalkOK` as above, for lines instead of rows: a capture brings its own call to the front, which is `moved` from then on, and leaves the order of the others (`CallArrives`) and, where it replaces a row, the whole list (`CallsAlike`) |
| `LinesAreTrue` | `LinesAgree` | `PageOK`: the four queries of an undisturbed page saw one table; the attempts of a line are then a selection of a selection of it, hence all rows of the call in the order of their ids; a page is a slice of the calls by their newest rows (`SlicesAreLists`, `LinesInOrder`) |

The theorems about answers rest on `TablesProofs`. A selection or a sort *lists*
a set of rows in an order (`Lists`) when it has each of them once, at the place
its rank says. `SelectionLists`, `SortLists`, `ReverseLists`, `ArrangedLists` and
`SliceLists` say what is listed after each operation, and are proved by
bijections between finite sets: a place is the number of rows before it, so no
induction over the data is needed. `AheadGrows` is what pages rest on: where rows
are added, a row never moves forward.

The theorems about summaries need sums and folds, where a place is not enough.
The prover cannot instantiate an induction theorem whose parameter is an
operator, so these are proved by a smallest counterexample: if a statement about
the subsets of a finite set fails for one of them, it fails for one such that it
holds for all subsets with a member less (`SmallestSet`). With it `SumFolds` says
that the library's fold has a value, `SumOne` that any member may be taken out of
a sum, `SumParts` that the sums over a partition add up, `SumMoved` that a sum is
carried along a bijection, and `KeptSteps` follows the loop over the rows.

What the summary's theorems do not say: they are about the answers no write came
between, as the properties are; and the percentiles of the two sources are equal
since they are the same function of the same values, nothing is proved of
what a percentile is.

Only model-checked: all liveness (`EventuallyWritten`, `EventuallySettled`,
`CloseReturns`, `ConfigReturns`, `CaptureReturns`), which needs fairness and
`ENABLED`, out of the prover's reach. Every invariant and every action property
that a passing run checks is also a theorem.

## 6. Plan

1. `StreamFraming`: `consume`, `scanObjectEnd` and the tail recovered by
   `summariseStream`: the same objects whatever the cuts between chunks.
2. The raw export (`Query`) and the two listings of names of the router store.
