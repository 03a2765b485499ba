------------------------------ MODULE Dashboard ------------------------------
(***************************************************************************)
(* The management API over the two databases (main.go, datasource.go,      *)
(* store.go, routerstore.go, pricing_api.go).  A request asks its queries   *)
(* one after the other, without a transaction, while the plugin stores and *)
(* deletes rows, the router writes its own database and another request    *)
(* replaces the manual prices.                                             *)
(*                                                                         *)
(* One request is followed from its first query to its answer.  The rows   *)
(* are in rowid order, view[q] is what query q of the request returned,    *)
(* and the operators of UsageViews and RouterViews make the answer of it.  *)
(***************************************************************************)
EXTENDS RouterViews

CONSTANTS
    Calls,         \* what the host may report, each with an id of its own
    Routed,        \* what the router may log
    RouterBook,    \* the router's price book
    PriceLists,    \* the bodies of PUT pricing: sequences of [model, price]
    Filters,       \* the filters a request may carry
    Limit,         \* the page size a client asks for
    Kinds,         \* the requests that are made
    MaxRows,       \* bounds the rows of the two databases together
    MaxWrites      \* bounds the writes while a request runs

\* The book is read as the router wrote it.
ASSUME DashboardAssumption ==
    /\ IsFiniteSet(DOMAIN RouterBook.prices)
    /\ \A n \in DOMAIN RouterBook.prices : IsName(n) /\ IsPrice(RouterBook.prices[n])

\* The columns the queries filter, group and sort by, and the manual prices.
Columns == Counters \cup {"id", "at", "model", "alias", "provider", "key", "failed"}
ASSUME RowsAssumption ==
    /\ \A c \in Calls \cup Routed :
          /\ Columns \subseteq DOMAIN c /\ IsName(c.model)
          /\ \A f \in Counters \cup {"id", "at"} : c[f] \in Int
    /\ \A list \in PriceLists : \A i \in DOMAIN list :
          IsName(list[i].model) /\ IsPrice(list[i].price)

\* A client that asks for more rows than a page may have takes a full page for
\* the last one; the dashboard asks for fewer.
ASSUME RequestsAssumption ==
    /\ Kinds \subseteq {"summary", "page", "latest", "pricing"}
    /\ Limit \in 1 .. PageCap /\ PageCap \in Nat
    /\ MaxWrites \in Nat

VARIABLES
    usage,         \* the rows of usage.db
    router,        \* the rows of model-router.db
    installed,     \* model-router.db exists
    overrides,     \* the manual prices
    req,           \* the request: [kind, filter, offset]
    view,          \* what its queries returned so far
    walk,          \* a client paging: the ids it must see, those it saw
    writes         \* the writes since the request began

vars == <<usage, router, installed, overrides, req, view, walk, writes>>

Idle == [kind |-> "idle"]
NoWalk == [due |-> {}, shown |-> {}]
Ids(s) == {r.id : r \in Range(s)}
EmptyBook == [prices |-> <<>>, suffixes |-> {}, mappings |-> <<>>]
Book == IF installed THEN RouterBook ELSE EmptyBook

Init ==
    /\ usage = <<>> /\ router = <<>> /\ overrides = <<>>
    /\ installed \in BOOLEAN
    /\ req = Idle /\ view = <<>> /\ walk = NoWalk /\ writes = 0

-----------------------------------------------------------------------------
(***************************************************************************)
(* The writers                                                             *)
(***************************************************************************)

\* A write that happens while a request runs is counted.
Written ==
    /\ req # Idle => writes < MaxWrites
    /\ writes' = IF req = Idle THEN 0 ELSE writes + 1
    /\ UNCHANGED <<req, view>>

Insert(c) ==
    /\ Written
    /\ Len(usage) + Len(router) < MaxRows
    /\ c.id \notin Ids(usage)
    /\ usage' = Append(usage, Stored(Reported(c)))
    /\ UNCHANGED <<router, installed, overrides, walk>>

InsertRouted(c) ==
    /\ Written
    /\ installed
    /\ Len(usage) + Len(router) < MaxRows
    /\ c.id \notin Ids(router)
    /\ router' = Append(router, c)
    /\ UNCHANGED <<usage, installed, overrides, walk>>

\* One statement of Delete, which takes the ids of the request one by one.  A
\* deleted row moves the rows after it to other pages: the walk promises no more.
Delete(id) ==
    /\ Written
    /\ id \in Ids(usage)
    /\ usage' = Where(usage, LAMBDA r : r.id # id)
    /\ walk' = NoWalk
    /\ UNCHANGED <<router, installed, overrides>>

\* The model-router plugin is installed: the source of a page may change.
Install ==
    /\ Written
    /\ ~installed
    /\ installed' = TRUE
    /\ walk' = NoWalk
    /\ UNCHANGED <<usage, router, overrides>>

\* pricingPut: a name counts once whatever its case, and one negative rate
\* refuses the list; SavePriceOverrides replaces the whole set.
FirstOfName(list, i) ==
    list[i].model # NoName /\ \A j \in 1 .. i - 1 : ~EqualFold(list[j].model, list[i].model)
Cleaned(list) ==
    LET kept == {i \in DOMAIN list : FirstOfName(list, i)}
    IN [n \in {Lower(list[i].model) : i \in kept} |->
            list[CHOOSE i \in kept : Lower(list[i].model) = n].price]
Negative(price) == \E f \in RateColumns : price[f] < 0
PutPrices(list) ==
    /\ Written
    /\ \A i \in DOMAIN list : FirstOfName(list, i) => ~Negative(list[i].price)
    /\ overrides' = Cleaned(list)
    /\ overrides' # overrides
    /\ UNCHANGED <<usage, router, installed, walk>>

-----------------------------------------------------------------------------
(***************************************************************************)
(* The requests                                                            *)
(***************************************************************************)

\* The queries of a request, in the order of the code; a query of the first
\* component reads usage.db, one of the second model-router.db.
PluginPlan == [
    summary |-> <<"totals", "models", "aliases", "providers", "keys", "hours",
                  "samples", "codes", "book", "costs", "scan", "servers">>,
    page    |-> <<"count", "page">>,
    latest  |-> <<"newest">>]

\* MUTANT of RouterPlan: the lifetime counts are read before the range.
RouterPlanIndexFirst == [
    summary |-> <<"book", "matched">>,
    page    |-> <<"matched">>,
    latest  |-> <<"newest">>,
    pricing |-> <<"book", "index", "matched">>]

RouterPlan == [
    summary |-> <<"book", "matched">>,
    page    |-> <<"matched">>,
    latest  |-> <<"newest">>,
    pricing |-> <<"book", "matched", "index">>]

\* resolveSource, of a request that may force the plugin: the router's
\* database whenever there is one.
ResolveSource(forced) == IF installed /\ ~forced THEN "router" ELSE "plugin"

\* Where a request is answered from: the latest rows come from usage.db and only
\* when that fails from the resolved source, the catalogue always from the router.
Sources(kind, forced) ==
    CASE kind = "latest" -> {"plugin", ResolveSource(forced)}
      [] kind = "pricing" -> {"router"}
      [] OTHER -> {ResolveSource(forced)}

Plan == IF req.source = "router" THEN RouterPlan[req.kind] ELSE PluginPlan[req.kind]
Asked == {Plan[i] : i \in DOMAIN Plan}
Answered == req # Idle /\ DOMAIN view = Asked

\* What a query returns.
Rows(q) ==
    LET f == req.filter
    IN CASE q \in {"count", "page"} -> Where(usage, LAMBDA r : PageMatches(f, r))
         [] q = "newest" -> IF req.source = "router" THEN RouterLatest(router, Limit)
                                                      ELSE StoreLatest(usage, Limit)
         [] q = "scan" -> NewestFirst(Where(usage, LAMBDA r : Matches(f, r)))
         [] q = "matched" -> Matching(f, router)
         [] q = "index" -> router
         [] q = "book" -> [book |-> Book, manual |-> overrides]
         [] OTHER -> Where(usage, LAMBDA r : Matches(f, r))

Page(rows) ==
    IF req.source = "router" THEN RouterPage(rows, req.offset, Limit)
                             ELSE ListPage(rows, req.offset, Limit)

Begin(kind, f, forced) ==
    /\ req = Idle
    /\ kind = "pricing" => installed
    /\ \E source \in Sources(kind, forced) :
          req' = [kind |-> kind, filter |-> f, forced |-> forced,
                  source |-> source, offset |-> 0]
    /\ writes' = 0
    /\ UNCHANGED <<usage, router, installed, overrides, view, walk>>

\* The next query of the plan.  The first page of a walk says what is due.
Query ==
    /\ req # Idle
    /\ ~Answered
    /\ LET q == Plan[Cardinality(DOMAIN view) + 1]
           rows == Rows(q)
       IN /\ view' = [x \in DOMAIN view \cup {q} |-> IF x = q THEN rows ELSE view[x]]
          /\ walk' = IF req.kind = "page" /\ q \in {"page", "matched"}
                     THEN [due |-> IF req.offset = 0 THEN Ids(rows) ELSE walk.due,
                           shown |-> walk.shown \cup Ids(Page(rows))]
                     ELSE walk
    /\ UNCHANGED <<usage, router, installed, overrides, req, writes>>

Listing == IF req.source = "router" THEN view.matched ELSE view.page
LastPage == Len(Page(Listing)) < Limit

\* The client asks for the page after a full one.
NextPage ==
    /\ Answered
    /\ req.kind = "page"
    /\ ~LastPage
    /\ ResolveSource(req.forced) = req.source
    /\ req' = [req EXCEPT !.offset = @ + Limit]
    /\ view' = <<>>
    /\ UNCHANGED <<usage, router, installed, overrides, walk, writes>>

Finish ==
    /\ Answered
    /\ req' = Idle /\ view' = <<>> /\ walk' = NoWalk /\ writes' = 0
    /\ UNCHANGED <<usage, router, installed, overrides>>

Next ==
    \/ \E c \in Calls : Insert(c)
    \/ \E c \in Routed : InsertRouted(c)
    \/ \E id \in Ids(usage) : Delete(id)
    \/ Install
    \/ \E list \in PriceLists : PutPrices(list)
    \/ \E kind \in Kinds, f \in Filters :
          \E forced \in IF kind = "pricing" THEN {FALSE} ELSE BOOLEAN :
              Begin(kind, f, forced)
    \/ Query
    \/ NextPage
    \/ Finish

Spec == Init /\ [][Next]_vars

-----------------------------------------------------------------------------
(***************************************************************************)
(* The answers                                                             *)
(***************************************************************************)

IsAnswer(kind, source) == Answered /\ req.kind = kind /\ req.source = source
Quiet == writes = 0

\* What estimateRecordCost says of each row of a query.
Charges(s) ==
    [i \in DOMAIN s |->
        LET costs == Costs(s[i], view.book.book, view.book.manual)
        IN IF costs = {} THEN Unpriced ELSE CHOOSE c \in costs : TRUE]

PluginView ==
    [q \in DOMAIN view \cup {"charges"} |->
        IF q = "charges" THEN Charges(view.costs) ELSE view[q]]
CatalogueView == Catalogue(view.book.book, view.book.manual, view.index, view.matched)
RoutedColumns == [routerModel |-> NoName, attribution |-> ""]
AsRouted(s) ==
    [i \in DOMAIN s |->
        [f \in DOMAIN s[i] \cup DOMAIN RoutedColumns |->
            IF f \in DOMAIN s[i] THEN s[i][f] ELSE RoutedColumns[f]]]
SumOver(groups, field) == SumFunction([k \in DOMAIN groups |-> groups[k][field]])

-----------------------------------------------------------------------------
(***************************************************************************)
(* Properties                                                              *)
(***************************************************************************)

\* Types of the databases and of the request in progress.
TypeOK ==
    /\ \A i \in DOMAIN usage : usage[i].input >= 0 /\ usage[i].model # NoName
    /\ Cardinality(Ids(usage)) = Len(usage)
    /\ Range(router) \subseteq Routed
    /\ installed \in BOOLEAN
    /\ \A n \in DOMAIN overrides : n = Lower(n) /\ ~Negative(overrides[n])
    /\ req # Idle => DOMAIN view \subseteq Asked
    /\ writes \in 0 .. MaxWrites

\* The parts of one summary tell the same story when nothing was written while
\* it ran: every grouping, the hours and the histograms add up to the totals,
\* the costs of the models to the total cost, the priced and unpriced calls to
\* all calls, the failures of a group of the scan are those SQL counted, and the
\* provider a row names served its model, alone exactly when no others are
\* counted beside it.
\* (Summary, fillTotals to fillModelProviders: twelve queries, two spellings of
\* one model, lists keyed by different names.)
SummaryAgrees ==
    IsAnswer("summary", "plugin") /\ Quiet =>
        LET v == PluginView
            t == Aggregate(v.totals)
            groups == <<Grouped(v.models, ModelOf), Grouped(v.aliases, AliasOf),
                        Grouped(v.providers, ProviderOf), Grouped(v.keys, KeyOf)>>
            hours == [h \in DOMAIN ByHour(v) |-> ByHour(v)[h].totals]
            cost == TotalCost(v)
        IN /\ \A i \in DOMAIN groups, f \in DOMAIN t : SumOver(groups[i], f) = t[f]
           /\ \A f \in {"calls", "failed", "total"} : SumOver(hours, f) = t[f]
           /\ cost.calls + cost.unpriced = t.calls
           /\ \A f \in DOMAIN cost : SumOver(CostByModel(v), f) = cost[f]
           /\ SumFunction(UnpricedByModel(v)) = cost.unpriced
           /\ \A m \in DOMAIN groups[1] :
                 Health(groups[1], v.scan, ModelOf)[m].failed = groups[1][m].failed
           /\ SumFunction(Histogram(v.scan, "latency", LatencyBounds)) = t.calls
           /\ SumFunction(StatusCodes(v.codes)) <= t.failed
           /\ \A m \in DOMAIN groups[1], label \in Range(Labels) :
                 label \in Dominant(v.servers, m) =>
                    LET rows == {r \in Range(v.scan) : EqualFold(r.model, m)}
                        served == {r \in rows : LabelOf(r) = label}
                    IN served # {} /\ (Others(v.servers, m) = 0 <=> served = rows)

\* The plugin's summary of some rows and the router's of the same rows have the
\* same totals of calls, failures, successes, input, output, reasoning and all
\* tokens, latencies and times to first token, the same number of models and
\* keys, of calls that hung or hit a cache, the same greatest latency, percentiles
\* of the time to first token, cost, unpriced calls, calls per model and per key,
\* status codes and slowest calls, and, when every call took time, percentiles of
\* the latency (store.go:639 "so the two sources agree on the same payload shape").
\* The error rates of the totals agree only when nothing failed, as the plugin
\* never sets its own (routerstore.go:621), and the tokens written to a cache only
\* when there were none, as the router's side does not sum them (:635).
\* Of the rest nothing is said, since there they differ: the router's side takes
\* the cached tokens from another column when they are zero (:462), leaves calls without a latency out of its
\* percentiles (:867) and those of the hours (:1076), calls pricing available only
\* with a book (:659, not store.go:1243), samples the oldest calls for the scatter, not the
\* newest (:562), charges each spelling of a model its own calls and groups by the
\* router's alias; attributions, prefixes and mappings are the router's alone, and
\* of aliases and keys the plugin knows no successes, error rates or percentiles.
SourcesAgree ==
    IsAnswer("summary", "plugin") /\ Quiet =>
        LET v == PluginView
            here == SummaryTotals(v)
            p == Performance(v.samples)
            there == RouterSummary(AsRouted(v.costs), v.charges)
            stats == there.totals.stats
            models == there.dimensions.byModel
            keys == there.dimensions.byKey
        IN /\ \A f \in {"calls", "failed", "input", "output", "reasoning", "total",
                         "latency", "ttft"} : stats[f] = here.sums[f]
           /\ \A f \in {"success", "activeModels", "activeKeys"} : there.totals[f] = here[f]
           /\ stats.errors = here.errors <=> here.sums.failed = 0
           /\ stats.cacheNew = here.sums.cacheNew <=> here.sums.cacheNew = 0
           /\ <<there.totals.hung, there.totals.max, stats.cacheHits, stats.pTTFT>>
                = <<p.hung, p.max, p.cacheHits, p.pTTFT>>
           /\ (\A i \in DOMAIN v.samples : v.samples[i].latency > 0) => stats.p = p.p
           /\ there.totals.cost = TotalCost(v)
           /\ there.totals.unpriced = UnpricedByModel(v)
           /\ DOMAIN models = DOMAIN Grouped(v.models, ModelOf)
           /\ DOMAIN keys = DOMAIN Grouped(v.keys, KeyOf)
           /\ \A m \in DOMAIN models :
                 models[m].calls = Grouped(v.models, ModelOf)[m].calls
           /\ \A k \in DOMAIN keys : keys[k].calls = Grouped(v.keys, KeyOf)[k].calls
           /\ there.codes = StatusCodes(v.codes)
           /\ there.slowest = Slowest(v.scan)

\* A client that pages until a page is not full has seen every row that matched
\* when it began, although rows are inserted before and between its pages
\* (ListPage and RouterPage: LIMIT and OFFSET over a moving table).
PagesCover ==
    Answered /\ req.kind = "page" /\ LastPage => walk.due \subseteq walk.shown

\* The list of slowest requests, kept in one pass by inserting, sorting and
\* cutting, holds the slowest of all (fillDistributions, RouterSummary).
SlowestKept ==
    Answered /\ req.kind = "summary" =>
        LET s == IF req.source = "router" THEN view.matched ELSE view.scan
            all == Falling(Values(s, "latency"))
        IN Slowest(s) = Slice(all, 0, SlowestCap)

\* Every model of the book, of the traffic ever seen and of the manual prices is
\* in exactly one row of the catalogue (pricing_api.go:5).
CatalogueComplete ==
    IsAnswer("pricing", "router") =>
        \A n \in DOMAIN view.book.book.prices \cup DOMAIN view.book.manual
                 \cup ({r.model : r \in Range(view.index)} \ {NoName}) :
            \E row \in CatalogueView :
                /\ \E m \in {row.model} \cup row.also : EqualFold(m, n)
                /\ \A other \in CatalogueView \ {row} :
                      \A m \in {other.model} \cup other.also : ~EqualFold(m, n)

\* The calls of the range are among the calls ever recorded, although the range
\* and the lifetime are two queries between which the router writes.  The row
\* Unknown is left out: the calls whose model the router did not record are
\* counted there in the range (pricing_api.go:153) but skipped by
\* scanRouterModelIndex (routerstore.go:99), so that their row has no lifetime.
LifetimeCovers ==
    IsAnswer("pricing", "router") =>
        \A row \in CatalogueView : row.model # Unknown => row.calls <= row.lifetime

-----------------------------------------------------------------------------
(***************************************************************************)
(* Claims of the comments that the code does not keep                      *)
(***************************************************************************)

\* pricing_api.go:5-8: the catalogue is complete and its counters are those of
\* the range, so they add up to the calls of the range.
CallsListed ==
    IsAnswer("pricing", "router") =>
        SumOver([row \in CatalogueView |-> row], "calls") = Len(view.matched)
=============================================================================
