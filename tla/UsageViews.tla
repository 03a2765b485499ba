----------------------------- MODULE UsageViews -----------------------------
(***************************************************************************)
(* What the dashboard shows of usage.db (store.go).  Summary asks one query *)
(* after the other, and each sees the table as it is then: v[q] is the     *)
(* sequence of rows query q saw, in rowid order, and the operators below   *)
(* are what Summary makes of them.  v.charges says, for the rows of the    *)
(* cost query, what each costs, Unpriced when it has no price.             *)
(*                                                                         *)
(* A row is a record of call data: at is its timestamp, id its place in    *)
(* the order of the ids; latencies are in whole seconds.  An               *)
(* average is left as the sum it is taken of, a rate as a numerator over a *)
(* denominator, and lists that are sorted for display are functions.       *)
(***************************************************************************)
EXTENDS PriceBook, SequencesExt, Tables

CONSTANTS
    Unset,         \* a filter that is not set
    Unpriced,      \* the cost of a row without a price
    Labels,        \* Labels[<<auth, provider>>]: the identity that served a row
    Alphabet,      \* the providers in alphabetical order
    HourLength,    \* what substr(timestamp, 1, 13) cuts
    SlowestCap,    \* 30
    ScatterCap,    \* 150
    PageDefault, PageCap,     \* 50 and 500
    LatestDefault, LatestCap  \* 15 and 200

ASSUME CapsAssumption == SlowestCap \in Nat \ {0}

-----------------------------------------------------------------------------
(***************************************************************************)
(* Rows in, rows out                                                       *)
(***************************************************************************)

\* normalizeTotalTokens, of a call whose negative counters are zeroed first.
Total(c) ==
    CASE c.total # 0 -> c.total
      [] c.total = 0 /\ c.input + c.output + c.reasoning # 0 ->
            c.input + c.output + c.reasoning
      [] OTHER -> c.cached

Counters == {"input", "output", "reasoning", "cached", "cacheRead", "cacheNew",
             "total", "latency", "ttft", "code"}
NonNegative(c) ==
    [f \in DOMAIN c |-> IF f \in Counters /\ c[f] < 0 THEN 0 ELSE c[f]]

\* toRecord: an error status is a failure whatever the host says.
Reported(c) == [c EXCEPT !.failed = @ \/ c.code >= 400]

Unknown == [NoName EXCEPT !.stem = "unknown"]
Named(n) == IF n = NoName THEN Unknown ELSE n

\* MUTANT of Stored: negative counters are stored.
StoredAsReported(c) == [c EXCEPT !.total = Total(c), !.model = Named(@)]

\* The row Insert makes of a call.
Stored(c) ==
    LET clean == NonNegative(c)
    IN [clean EXCEPT !.total = Total(clean), !.model = Named(@)]

InRange(f, r) == f.from <= r.at /\ r.at < f.to

\* The filter of ListPage.
PageMatches(f, r) ==
    /\ InRange(f, r)
    /\ f.model \in {Unset, r.model, r.alias}
    /\ f.provider \in {Unset, r.provider}
    /\ f.key \in {Unset, r.key}
    /\ f.failed \in {Unset, r.failed}

\* filterWhere, which Summary uses.
Matches(f, r) == PageMatches(f, r) /\ f.code \in {Unset, r.code}

\* The limit of a page; limits are clamped alike everywhere.
Clamp(limit, default, cap) == IF limit <= 0 THEN default ELSE Min({limit, cap})

\* StoreLatest.
StoreLatest(s, limit) == Slice(Reverse(s), 0, Clamp(limit, LatestDefault, LatestCap))

PageOrder(s) == OrderBy(s, LAMBDA a, b : a.at > b.at \/ (a.at = b.at /\ a.id > b.id))

\* The rows of ListPage.
ListPage(s, offset, limit) ==
    Slice(PageOrder(s), offset, Clamp(limit, PageDefault, PageCap))

-----------------------------------------------------------------------------
(***************************************************************************)
(* Sums and percentiles                                                    *)
(***************************************************************************)

Values(s, field) == [i \in DOMAIN s |-> s[i][field]]
Sum(s, field) == SumFunction(Values(s, field))
Failures(s) == Count(s, LAMBDA r : r.failed)
Positive(xs) == Where(xs, LAMBDA x : x > 0)
Exceeding(xs, bound) == Count(xs, LAMBDA x : x > bound)

\* percentile.
Percentile(xs, pct) ==
    IF xs = <<>> THEN 0
    ELSE SortSeq(xs, <)[Min({(Len(xs) * pct) \div 100 + 1, Len(xs)})]

Percentiles(xs) == [pct \in {50, 75, 90, 95, 99} |-> Percentile(xs, pct)]

\* The columns of fillTotals and fillGrouped.
Aggregate(s) ==
    [calls |-> Len(s), failed |-> Failures(s),
     input |-> Sum(s, "input"), output |-> Sum(s, "output"),
     reasoning |-> Sum(s, "reasoning"), cached |-> Sum(s, "cached"),
     cacheNew |-> Sum(s, "cacheNew"), total |-> Sum(s, "total"),
     latency |-> Sum(s, "latency"), ttft |-> Sum(s, "ttft")]

Part(s, Key(_), k) == Where(s, LAMBDA r : Key(r) = k)
Keys(s, Key(_)) == {Key(s[i]) : i \in DOMAIN s}
Grouped(s, Key(_)) == [k \in Keys(s, Key) |-> Aggregate(Part(s, Key, k))]

-----------------------------------------------------------------------------
(***************************************************************************)
(* Summary                                                                 *)
(***************************************************************************)

FirstOf(name, default) == IF name = "" THEN default ELSE name
ModelOf(r) == r.model
AliasOf(r) == IF r.alias = NoName THEN r.model ELSE r.alias
ProviderOf(r) == FirstOf(r.provider, "unknown")
KeyOf(r) == FirstOf(r.key, ProviderOf(r))
HourOf(r) == r.at \div HourLength
LowerModel(r) == Lower(r.model)

\* fillByHour: counters from one query, latencies from the next one, for the
\* hours the first one knows.
HourTotals(s) ==
    [calls |-> Len(s), failed |-> Failures(s), input |-> Sum(s, "input"),
     output |-> Sum(s, "output"), total |-> Sum(s, "total")]
ByHour(v) ==
    [h \in Keys(v.hours, HourOf) |->
        [totals |-> HourTotals(Part(v.hours, HourOf, h)),
         p |-> Percentiles(Values(Part(v.samples, HourOf, h), "latency"))]]

\* fillByHour: what the Performance tab shows of all hours.
CacheHits(s) == Count(s, LAMBDA r : r.cached > 0 \/ r.cacheRead > 0)
Latencies(s, bound) ==
    LET all == Values(s, "latency")
    IN [p |-> Percentiles(all), max |-> Max(Range(all) \cup {0}),
        pTTFT |-> Percentiles(Positive(Values(s, "ttft"))),
        hung |-> Exceeding(all, bound), cacheHits |-> CacheHits(s)]

\* MUTANT of Performance: a call of exactly five minutes counts as hung.
PerformanceHungAtBound(s) == Latencies(s, 299)

Performance(s) == Latencies(s, 300)

\* fillStatusCodes.
Coded(r) == r.failed /\ r.code > 0
StatusCodes(s) ==
    [c \in {r.code : r \in {r \in Range(s) : Coded(r)}} |->
        Count(s, LAMBDA r : Coded(r) /\ r.code = c)]

\* fillCosts looks a row up by its lower-cased model; of two spellings the one
\* that is listed last has taken the entry: fewest calls, then the name.
Listed(v) == Grouped(v.models, ModelOf)

\* The totals of Summary: fillTotals and the derived counters of its last lines.
\* The error rate of the totals, unlike that of hours and models, is never set.
SummaryTotals(v) ==
    LET sums == Aggregate(v.totals)
    IN [sums |-> sums, errors |-> 0, success |-> sums.calls - sums.failed,
        activeModels |-> Cardinality(Keys(v.models, ModelOf)),
        activeKeys |-> Cardinality(Keys(v.keys, KeyOf))]

\* MUTANT of TakesCosts: every spelling takes the costs of its model.
TakesCostsAlways(v, m) == TRUE

TakesCosts(v, m) ==
    \A k \in DOMAIN Listed(v) \ {m} :
        EqualFold(k, m) => \/ Listed(v)[m].calls < Listed(v)[k].calls
                           \/ Listed(v)[m].calls = Listed(v)[k].calls /\ ~m.caps

\* The costs of the priced ones among some rows of the cost query.
Priced(v, rows) == {i \in rows : v.charges[i] # Unpriced}
CostOf(v, rows) ==
    [calls |-> Cardinality(Priced(v, rows)),
     unpriced |-> Cardinality(rows \ Priced(v, rows)),
     cost |-> SumFunctionOnSet(v.charges, Priced(v, rows))]

TotalCost(v) == CostOf(v, DOMAIN v.costs)
CostByModel(v) ==
    [m \in DOMAIN Listed(v) |->
        CostOf(v, IF TakesCosts(v, m)
                  THEN {i \in DOMAIN v.costs : EqualFold(v.costs[i].model, m)}
                  ELSE {})]

\* Pricing.Unpriced, by the model as it is spelled.
UnpricedByModel(v) ==
    LET rows == DOMAIN v.costs \ Priced(v, DOMAIN v.costs)
    IN [m \in {v.costs[i].model : i \in rows} |->
            Cardinality({i \in rows : v.costs[i].model = m})]

LatencyBounds == <<1, 3, 5, 10, 30, 60, 300, 1800>>
TokenBounds == <<1000, 10000, 50000, 100000, 200000, 400000>>

\* latencyBucketLabel and tokenBucketLabel, by the number of the bucket.
Bucket(x, bounds) == Cardinality({i \in DOMAIN bounds : bounds[i] <= x})
Histogram(s, field, bounds) ==
    [b \in 0 .. Len(bounds) |-> Count(s, LAMBDA r : Bucket(r[field], bounds) = b)]

\* distributionQuery: the index on the timestamp, walked backwards.
ByTime(s) == OrderBy(s, LAMBDA a, b : a.at < b.at)
NewestFirst(s) == Reverse(ByTime(s))

Falling(xs) == OrderBy(xs, LAMBDA a, b : a > b)

\* MUTANT of Keep: the list is cut before it is sorted.
KeepUnsorted(top, x) ==
    IF Len(top) < SlowestCap THEN Falling(Append(top, x)) ELSE top

\* The list of the slowest requests takes in one more.
Keep(top, x) ==
    IF Len(top) < SlowestCap \/ x > Last(top)
    THEN Slice(Falling(Append(top, x)), 0, SlowestCap)
    ELSE top

Slowest(s) == FoldLeft(Keep, <<>>, Values(s, "latency"))
Scatter(s) == Slice(Where(s, LAMBDA r : r.latency > 0 \/ r.ttft > 0), 0, ScatterCap)

\* groupAccumulator.apply: the failures of the scan over the calls of the group
\* query, and the latencies of the scan that are not zero.
Health(groups, s, Key(_)) ==
    [k \in DOMAIN groups |->
        [failed |-> Failures(Part(s, Key, k)), calls |-> groups[k].calls,
         p |-> Percentiles(Positive(Values(Part(s, Key, k), "latency")))]]

\* fillDistributions; efforts and executors are grouped without SQL.
EffortOf(r) == FirstOf(r.effort, "Not Specified")
ExecutorOf(r) == FirstOf(r.exec, "unknown")

\* fillModelProviders: identities are grouped by spelling, provider and
\* account, the groups of one lower-cased model follow each other by spelling
\* and by falling calls, then by provider, and a label counts with the first
\* group that has it.
Rank(r) == CHOOSE i \in DOMAIN Alphabet : Alphabet[i] = r.provider
LabelOf(r) == Labels[<<r.auth, r.provider>>]
ServerGroup(r) == <<r.model, r.auth, r.provider>>
FirstSpelling(s, m) ==
    LET same == {r.model : r \in {r \in Range(s) : EqualFold(r.model, m)}}
    IN IF Cardinality(same) = 2 THEN CHOOSE k \in same : k.caps ELSE CHOOSE k \in same : TRUE
Dominant(s, m) ==
    LET mine == {r \in Range(s) : r.model = FirstSpelling(s, m)}
        Served(r) == Len(Part(s, ServerGroup, ServerGroup(r)))
        First(r, q) == \/ Served(q) < Served(r)
                       \/ Served(q) = Served(r) /\ Rank(r) <= Rank(q)
    IN {LabelOf(r) : r \in {r \in mine : \A q \in mine : First(r, q)}}
Others(s, m) ==
    Cardinality({LabelOf(r) : r \in {r \in Range(s) : EqualFold(r.model, m)}}) - 1
=============================================================================
