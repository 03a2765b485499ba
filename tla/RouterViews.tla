----------------------------- MODULE RouterViews -----------------------------
(***************************************************************************)
(* What the dashboard shows of the database of the model-router plugin     *)
(* (routerstore.go, pricing_api.go), which it only reads: one scan brings  *)
(* the rows of a time range into memory, and all the rest happens there.   *)
(*                                                                         *)
(* A row has the fields of a row of usage.db and those that only the       *)
(* router knows: routerModel, tier, attribution.                           *)
(***************************************************************************)
EXTENDS UsageViews

\* scanRouterRows, of a table in the order of its sequence numbers.
Scan(f, s) == ByTime(Where(s, LAMBDA r : InRange(f, r)))

Cached(r) == IF r.cached = 0 /\ r.cacheRead > 0 THEN r.cacheRead ELSE r.cached

RouterModelOf(r) == Named(r.model)
Direct == [NoName EXCEPT !.stem = "Direct / No Router"]
RouterAliasOf(r) == IF r.routerModel = NoName THEN Direct ELSE r.routerModel
AttributionOf(r) == FirstOf(r.attribution, "unattributed")

\* matchRouterRecord.
RouterMatches(f, r) ==
    /\ f.model \in {Unset, r.model, r.alias, r.routerModel}
    /\ f.alias \in {Unset, RouterAliasOf(r)}
    /\ f.provider \in {Unset, r.provider}
    /\ f.key \in {Unset, r.key, r.provider}
    /\ f.effort \in {Unset, EffortOf(r)}
    /\ f.exec \in {Unset, r.exec}
    /\ f.code \in {Unset, r.code}
    /\ f.attribution \in {Unset, r.attribution}
    /\ f.tier \in {Unset, r.tier}
    /\ f.cachedOnly => Cached(r) > 0
    /\ f.failed \in {Unset, r.failed}

Matching(f, s) == Where(Scan(f, s), LAMBDA r : RouterMatches(f, r))

\* RouterPage of the matching rows.
RouterPage(s, offset, limit) ==
    Slice(Reverse(s), offset, Clamp(limit, PageDefault, PageCap))

\* RouterLatest walks the index backwards.
RouterLatest(s, limit) ==
    Slice(NewestFirst(s), 0, Clamp(limit, LatestDefault, LatestCap))

-----------------------------------------------------------------------------
(***************************************************************************)
(* RouterSummary                                                           *)
(***************************************************************************)

\* enhancedGroupAcc.add over some rows, and enhancedToStats of it: the error rate
\* is that of the failures, tokens written to a cache are not summed.
Stats(s) ==
    [calls |-> Len(s), failed |-> Failures(s), errors |-> Failures(s),
     input |-> Sum(s, "input"), output |-> Sum(s, "output"), cacheNew |-> 0,
     reasoning |-> Sum(s, "reasoning"), total |-> Sum(s, "total"),
     latency |-> Sum(s, "latency"), ttft |-> Sum(s, "ttft"),
     cached |-> SumFunction([i \in DOMAIN s |-> Cached(s[i])]),
     cacheHits |-> Count(s, LAMBDA r : Cached(r) > 0),
     p |-> Percentiles(Positive(Values(s, "latency"))),
     pTTFT |-> Percentiles(Positive(Values(s, "ttft")))]

By(s, Key(_)) == [k \in Keys(s, Key) |-> Stats(Part(s, Key, k))]

\* The prefix of the alias, else the provider.
PrefixOf(r) == IF r.alias.route = "" THEN FirstOf(r.provider, "none") ELSE r.alias.route

\* The accumulators of the scan, by dimension.
Dimensions(s) ==
    [byModel |-> By(s, RouterModelOf), byAlias |-> By(s, RouterAliasOf),
     byProvider |-> By(s, ProviderOf), byKey |-> By(s, KeyOf),
     byAttribution |-> By(s, AttributionOf), byEffort |-> By(s, EffortOf),
     byExecutor |-> By(s, ExecutorOf), byPrefix |-> By(s, PrefixOf)]

\* routerMaps: which models each router alias led to, and how often.
Mappings(s) ==
    LET routed == Where(s, LAMBDA r : r.routerModel # NoName)
        Pair(r) == <<r.routerModel, RouterModelOf(r)>>
    IN [k \in Keys(routed, Pair) |-> Len(Part(routed, Pair, k))]

\* richHourAcc.
HourTrend(s) ==
    [h \in Keys(s, HourOf) |->
        LET mine == Part(s, HourOf, h)
        IN [totals |-> HourTotals(mine),
            routed |-> Count(mine, LAMBDA r : AttributionOf(r) = "routed"),
            direct |-> Count(mine, LAMBDA r : AttributionOf(r) = "direct"),
            p |-> Percentiles(Positive(Values(mine, "latency")))]]

\* The totals after the scan, with the cost charged to each row.
RouterTotals(s, charges) ==
    LET v == [costs |-> [i \in DOMAIN s |-> [s[i] EXCEPT !.model = Named(@)]],
              charges |-> charges]
    IN [stats |-> Stats(s),
        success |-> Len(s) - Failures(s),
        activeModels |-> Cardinality(Keys(s, RouterModelOf)),
        activeKeys |-> Cardinality(Keys(s, KeyOf)),
        max |-> Max(Range(Values(s, "latency")) \cup {0}),
        hung |-> Exceeding(Positive(Values(s, "latency")), 300),
        cost |-> TotalCost(v),
        unpriced |-> UnpricedByModel(v)]

\* RouterSummary of the matching rows.
RouterSummary(s, charges) ==
    [totals |-> RouterTotals(s, charges),
     dimensions |-> Dimensions(s),
     mappings |-> Mappings(s),
     byHour |-> HourTrend(s),
     codes |-> StatusCodes(s),
     latencies |-> Histogram(s, "latency", LatencyBounds),
     tokens |-> Histogram(s, "input", TokenBounds),
     slowest |-> Slowest(s),
     scatter |-> Scatter(s)]

-----------------------------------------------------------------------------
(***************************************************************************)
(* The price catalogue, GET pricing                                        *)
(***************************************************************************)

\* scanRouterModelIndex: the lifetime calls by lower-cased model.
LifetimeCalls(s, m) == Cardinality({i \in DOMAIN s : EqualFold(s[i].model, m)})

\* scanRouterModelIndex shows the greatest spelling, which is not in capitals.
Indexed(s) ==
    LET all == {r.model : r \in Range(s)} \ {NoName}
    IN {n \in all : n.caps => Lower(n) \notin all}

\* add in pricingGet: a name that differs in case only from one that is there
\* changes nothing.  Which one of two such names comes first is up to Go's map.
Spelled(names, more) ==
    names \cup {n \in more : /\ \A m \in names : ~EqualFold(m, n)
                             /\ n = CHOOSE m \in more : EqualFold(m, n)}

\* MUTANT of CatalogueNames: the catalogue lists the models of the range.
CatalogueNamesInRange(book, overrides, index, traffic) ==
    Spelled(Spelled(Spelled({}, DOMAIN book.prices),
                    {RouterModelOf(r) : r \in Range(traffic)}),
            DOMAIN overrides)

\* The book is asked before the index, the traffic and the overrides.
CatalogueNames(book, overrides, index, traffic) ==
    Spelled(Spelled(Spelled(Spelled({}, DOMAIN book.prices), Indexed(index)),
                    {RouterModelOf(r) : r \in Range(traffic)}),
            DOMAIN overrides)

\* fingerprint, which leaves the accounting mode out.
Fingerprints(names, book) ==
    {[p EXCEPT !.mode = ""] : p \in UNION {BookPrices(n, book) : n \in names}}

\* A group is one row when the spellings that have a book price agree on it.
Merges(names, book) == Cardinality(Fingerprints(names, book)) <= 1

\* displayName: the shortest spelling.
Size(n) == 2 * Len(n.tail) + (IF n.route = "" THEN 0 ELSE 1)
DisplayName(names) == CHOOSE n \in names : \A m \in names : Size(n) <= Size(m)

\* One row: what the calls of this very spelling came to, the lifetime calls
\* of any case, the price of the first call that has one, else the name's own.
CatalogueRow(name, also, book, overrides, index, traffic) ==
    LET mine == Part(traffic, RouterModelOf, name)
        found == Where([i \in DOMAIN mine |-> RecordPrices(mine[i], book, overrides)],
                       LAMBDA prices : prices # {})
    IN [model |-> name, also |-> also,
        calls |-> Cardinality({i \in DOMAIN traffic : RouterModelOf(traffic[i]) = name}),
        priced |-> Len(found),
        lifetime |-> LifetimeCalls(index, name),
        inBook |-> BookPrices(name, book) # {},
        prices |-> IF found = <<>> THEN Resolve(name, book, overrides) ELSE Head(found)]

\* The names that share the comparison name of n, and the rows of such a group.
GroupOf(n, names, book) == {m \in names : ComparisonName(m, book) = ComparisonName(n, book)}
GroupRows(group, book, overrides, index, traffic) ==
    LET Row(n, also) == CatalogueRow(n, also, book, overrides, index, traffic)
        shown == DisplayName(group)
    IN IF Merges(group, book) THEN {Row(shown, group \ {shown})} ELSE {Row(m, {}) : m \in group}

\* pricingGet.
Catalogue(book, overrides, index, traffic) ==
    LET names == CatalogueNames(book, overrides, index, traffic)
    IN UNION {GroupRows(GroupOf(n, names, book), book, overrides, index, traffic) : n \in names}
=============================================================================
