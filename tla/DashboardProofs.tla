--------------------------- MODULE DashboardProofs ---------------------------
(***************************************************************************)
(* Proofs about the dashboard, for any book, any manual prices, any rows   *)
(* and any number of writes.                                               *)
(*                                                                         *)
(*   State: StateOK, the types, is inductive.                              *)
(*   Catalogue: CatalogueOK, what the queries have read so far and in      *)
(*   which order, is inductive with it; the rest is about the partition of *)
(*   the names into groups and rows.                                       *)
(*   Pages: WalkOK says where in the listing the rows wait that a paging   *)
(*   client has not seen: never before the offset it asks for next.        *)
(*   Snapshot: SnapshotOK says that the queries of a request no write ran  *)
(*   into are answers about one state of the databases.                    *)
(*   Slowest: a list sorted and cut at every row ends with the greatest    *)
(*   numbers of all, which no order of the rows changes.                   *)
(*   Summaries: a table is cut in parts by a key (model, provider, hour);  *)
(*   what is counted and summed over the parts is that of the whole.       *)
(***************************************************************************)
EXTENDS Dashboard, TablesProofs

-----------------------------------------------------------------------------
(***************************************************************************)
(* Tables, manual prices and requests                                      *)
(***************************************************************************)

UsageRows == {Stored(Reported(c)) : c \in Calls}

\* No two rows of a table have the same id.
DistinctIds(s) == \A i, j \in DOMAIN s : s[i].id = s[j].id => i = j

\* What the two databases hold.
TablesOK ==
    /\ usage \in Seq(UsageRows) /\ DistinctIds(usage)
    /\ router \in Seq(Routed) /\ DistinctIds(router)
    /\ installed \in BOOLEAN
    /\ writes \in 0 .. MaxWrites

\* The manual prices are kept by lower-cased names and are not negative.
OverridesOK ==
    \A n \in DOMAIN overrides :
        IsName(n) /\ n = Lower(n) /\ IsPrice(overrides[n]) /\ ~Negative(overrides[n])

\* The request in progress, and what it may have asked so far.
Requests == [kind : Kinds, filter : Filters, forced : BOOLEAN,
             source : {"plugin", "router"}, offset : Nat]
RequestOK ==
    \/ req = Idle /\ DOMAIN view = {} /\ walk = NoWalk
    \/ /\ req \in Requests
       /\ DOMAIN view \subseteq Asked
       /\ req.kind = "pricing" => req.source = "router" /\ installed
       /\ req.kind # "page" => walk = NoWalk

StateOK == TablesOK /\ OverridesOK /\ RequestOK

\* The name of a call that has none.
LEMMA UnknownIsName == IsName(Unknown) /\ Unknown # NoName
  <1>1. IsName(NoName) /\ NoName.stem = ""
    <2>1. NoName = [part \in {"route", "stem", "tail", "caps"} |-> NoName[part]]
      BY DEF NoName
    <2>2. NoName.tail \in Seq(STRING) /\ NoName.caps \in BOOLEAN /\ NoName.stem = ""
      BY DEF NoName
    <2> QED
      BY <2>1, <2>2 DEF IsName
  <1>2. IsName(Unknown) /\ Unknown.stem = "unknown"
    BY <1>1 DEF Unknown, IsName
  <1> QED
    BY <1>1, <1>2

\* What Insert makes of a call keeps its id and its time, has no negative counter
\* and always has a model.
LEMMA StoredId ==
  ASSUME NEW c \in Calls
  PROVE  LET r == Stored(Reported(c))
         IN  /\ r.id = c.id /\ r.id \in Int /\ r.at \in Int
             /\ IsName(r.model) /\ r.model # NoName
             /\ Columns \subseteq DOMAIN r /\ \A f \in Counters : r[f] \in Nat
  <1> DEFINE r == Stored(Reported(c))
  <1>1. /\ Columns \subseteq DOMAIN c /\ IsName(c.model)
        /\ \A f \in Counters \cup {"id", "at"} : c[f] \in Int
    BY RowsAssumption
  <1> DEFINE d == Reported(c)
             e == NonNegative(d)
  <1>2. DOMAIN d = DOMAIN c /\ \A f \in DOMAIN c \ {"failed"} : d[f] = c[f]
    BY DEF Reported
  <1> HIDE DEF d
  <1>3. DOMAIN e = DOMAIN c /\ \A f \in DOMAIN c :
            e[f] = IF f \in Counters /\ d[f] < 0 THEN 0 ELSE d[f]
    BY <1>2 DEF NonNegative
  <1> HIDE DEF e
  <1>4. /\ {"id", "at", "model", "total"} \subseteq DOMAIN c
        /\ Counters \subseteq DOMAIN c /\ "failed" \notin Counters \cup {"id", "at", "model"}
        /\ {"id", "at", "model"} \cap Counters = {}
    BY <1>1 DEF Columns, Counters
  <1>5. ASSUME NEW f \in Counters
        PROVE  e[f] \in Nat
    <2>1. d[f] \in Int /\ e[f] = IF d[f] < 0 THEN 0 ELSE d[f]
      BY <1>1, <1>2, <1>3, <1>4
    <2> QED
      BY <2>1
  <1>6. e.id = c.id /\ e.at = c.at /\ e.model = c.model
    BY <1>2, <1>3, <1>4
  <1>7. Total(e) \in Nat
    <2>1. /\ e.total \in Nat /\ e.input \in Nat /\ e.output \in Nat
          /\ e.reasoning \in Nat /\ e.cached \in Nat
      BY <1>5 DEF Counters
    <2> QED
      BY <2>1 DEF Total
  <1>8. r = [e EXCEPT !.total = Total(e), !.model = Named(@)]
    BY DEF Stored, d, e
  <1> HIDE DEF r
  <1>9. /\ r.id = c.id /\ r.at = c.at /\ r.model = Named(c.model)
        /\ DOMAIN r = DOMAIN c
    BY <1>3, <1>4, <1>6, <1>8
  <1>10. ASSUME NEW f \in Counters
         PROVE  r[f] \in Nat
    <2>1. f = "total" => r[f] = Total(e)
      BY <1>3, <1>4, <1>8
    <2>2. f # "total" => r[f] = e[f]
      BY <1>3, <1>4, <1>8
    <2> QED
      BY <1>5, <1>7, <2>1, <2>2
  <1>11. IsName(r.model) /\ r.model # NoName
    BY <1>1, <1>9, UnknownIsName DEF Named
  <1> QED
    BY <1>1, <1>9, <1>10, <1>11 DEF r

LEMMA StoredFacts ==
  ASSUME NEW r \in UsageRows
  PROVE  /\ r.id \in Int /\ r.at \in Int /\ r.input >= 0
         /\ IsName(r.model) /\ r.model # NoName
         /\ Columns \subseteq DOMAIN r /\ \A f \in Counters : r[f] \in Nat
  <1>1. "input" \in Counters
    BY DEF Counters
  <1> QED
    BY <1>1, StoredId DEF UsageRows

LEMMA RoutedFacts ==
  ASSUME NEW r \in Routed
  PROVE  r.id \in Int /\ r.at \in Int /\ IsName(r.model) /\ r.latency \in Int
  BY RowsAssumption DEF Counters

\* A table lists its rows in the order of their rowids.
LEMMA TableIsList ==
  ASSUME NEW S, NEW s \in Seq(S), DistinctIds(s)
  PROVE  Lists(s, Range(s), InOrder(s))
  <1>1. \A i, j \in DOMAIN s : s[i] = s[j] => i = j
    BY DEF DistinctIds
  <1> QED
    BY <1>1, TableLists

\* A row with a new id is added at the end, the others stay as they are.
LEMMA AppendRow ==
  ASSUME NEW S, NEW s \in Seq(S), DistinctIds(s), NEW c \in S, c.id \notin Ids(s)
  PROVE  /\ Append(s, c) \in Seq(S) /\ DistinctIds(Append(s, c))
         /\ Range(Append(s, c)) = Range(s) \cup {c}
         /\ \A x, y \in Range(s) :
               <<x, y>> \in InOrder(Append(s, c)) <=> <<x, y>> \in InOrder(s)
  <1> DEFINE t == Append(s, c)
  <1>1. /\ t \in Seq(S) /\ Len(s) \in Nat
        /\ DOMAIN s = 1 .. Len(s) /\ DOMAIN t = 1 .. Len(s) + 1
        /\ t[Len(s) + 1] = c /\ \A i \in 1 .. Len(s) : t[i] = s[i]
    OBVIOUS
  <1>2. \A i \in DOMAIN s : s[i].id # c.id
    BY DEF Ids, Range
  <1> HIDE DEF t
  <1>3. DistinctIds(t)
    BY <1>1, <1>2 DEF DistinctIds
  <1>4. Range(t) = Range(s) \cup {c}
    BY <1>1 DEF Range
  <1>5. ASSUME NEW x \in Range(s), NEW y \in Range(s)
        PROVE  <<x, y>> \in InOrder(t) <=> <<x, y>> \in InOrder(s)
    <2>1. x # c /\ y # c
      BY <1>2 DEF Range
    <2>2. ASSUME <<x, y>> \in InOrder(t)
          PROVE  <<x, y>> \in InOrder(s)
      <3>1. PICK i, j \in DOMAIN t : i < j /\ t[i] = x /\ t[j] = y
        BY <2>2 DEF InOrder
      <3>2. i \in DOMAIN s /\ j \in DOMAIN s
        BY <1>1, <2>1, <3>1
      <3> QED
        BY <1>1, <3>1, <3>2 DEF InOrder
    <2>3. ASSUME <<x, y>> \in InOrder(s)
          PROVE  <<x, y>> \in InOrder(t)
      <3>1. PICK i, j \in DOMAIN s : i < j /\ s[i] = x /\ s[j] = y
        BY <2>3 DEF InOrder
      <3>2. i \in DOMAIN t /\ j \in DOMAIN t /\ t[i] = x /\ t[j] = y
        BY <1>1, <3>1
      <3> QED
        BY <1>4, <3>1, <3>2 DEF InOrder
    <2> QED
      BY <2>2, <2>3
  <1> QED
    BY <1>1, <1>3, <1>4, <1>5 DEF t

\* A row with another id is not there yet.
LEMMA NewId ==
  ASSUME NEW S, NEW s \in Seq(S), NEW i, i \notin Ids(s), NEW r \in Range(s)
  PROVE  r.id # i
  BY DEF Ids

\* A selection of a table is a table.
LEMMA SelectedTable ==
  ASSUME NEW S, NEW s \in Seq(S), DistinctIds(s), NEW Y \in SUBSET Range(s)
  PROVE  LET I == {i \in DOMAIN s : s[i] \in Y}
             t == RowsAt(s, I, Ascending(I))
         IN  Lists(t, Y, InOrder(s)) /\ t \in Seq(S) /\ DistinctIds(t)
  <1> DEFINE I == {i \in DOMAIN s : s[i] \in Y}
             t == RowsAt(s, I, Ascending(I))
  <1>1. Lists(t, Y, InOrder(s))
    BY TableIsList, SelectionLists
  <1> HIDE DEF t
  <1>2. (\A i, j \in 1 .. Len(t) : t[i] = t[j] => i = j) /\ DOMAIN t = 1 .. Len(t) /\ Range(t) = Y
    BY <1>1, ListsOnce
  <1>3. \A x, y \in Y : x.id = y.id => x = y
    BY DEF DistinctIds, Range
  <1>4. DistinctIds(t)
    BY <1>2, <1>3 DEF DistinctIds, Range
  <1>5. Y \subseteq S /\ t \in Seq(Y)
    BY <1>1 DEF Range, Lists
  <1>6. t \in Seq(S)
    BY <1>5, SeqMonotonic
  <1> QED
    BY <1>1, <1>4, <1>6 DEF t

-----------------------------------------------------------------------------
(***************************************************************************)
(* Every step keeps them                                                   *)
(***************************************************************************)

\* A plan is a sequence of one query or more.
LEMMA PlanFacts ==
  ASSUME req \in Requests, req.kind = "pricing" => req.source = "router"
  PROVE  \E n \in Nat \ {0} : DOMAIN Plan = 1 .. n
  <1>1. req.kind \in {"summary", "page", "latest", "pricing"} /\ req.source \in {"plugin", "router"}
    BY RequestsAssumption DEF Requests
  <1>2. CASE req.source = "router"
    <2>1. Plan = RouterPlan[req.kind]
      BY <1>2 DEF Plan
    <2>2. /\ DOMAIN RouterPlan["summary"] = 1 .. 2 /\ DOMAIN RouterPlan["page"] = 1 .. 1
          /\ DOMAIN RouterPlan["latest"] = 1 .. 1 /\ DOMAIN RouterPlan["pricing"] = 1 .. 3
      BY DEF RouterPlan
    <2>3. DOMAIN Plan = 1 .. 1 \/ DOMAIN Plan = 1 .. 2 \/ DOMAIN Plan = 1 .. 3
      BY <1>1, <2>1, <2>2, Zenon
    <2>4. 1 \in Nat \ {0} /\ 2 \in Nat \ {0} /\ 3 \in Nat \ {0}
      OBVIOUS
    <2> QED
      BY <2>3, <2>4, Zenon
  <1>3. CASE req.source = "plugin"
    <2>1. Plan = PluginPlan[req.kind] /\ req.kind # "pricing"
      BY <1>3 DEF Plan
    <2>2. /\ DOMAIN PluginPlan["summary"] = 1 .. 12 /\ DOMAIN PluginPlan["page"] = 1 .. 2
          /\ DOMAIN PluginPlan["latest"] = 1 .. 1
      BY DEF PluginPlan
    <2>3. DOMAIN Plan = 1 .. 1 \/ DOMAIN Plan = 1 .. 2 \/ DOMAIN Plan = 1 .. 12
      BY <1>1, <2>1, <2>2, Zenon
    <2>4. 1 \in Nat \ {0} /\ 2 \in Nat \ {0} /\ 12 \in Nat \ {0}
      OBVIOUS
    <2> QED
      BY <2>3, <2>4, Zenon
  <1> QED
    BY <1>1, <1>2, <1>3

\* As long as a query of the plan is missing, the next one is of the plan.
LEMMA NextQuery ==
  ASSUME req \in Requests, req.kind = "pricing" => req.source = "router",
         NEW D \in SUBSET Asked, D # Asked
  PROVE  Cardinality(D) + 1 \in DOMAIN Plan /\ Plan[Cardinality(D) + 1] \in Asked
  <1>1. PICK n \in Nat \ {0} : DOMAIN Plan = 1 .. n
    BY PlanFacts
  <1> DEFINE f == [i \in 1 .. n |-> Plan[i]]
  <1>2. f \in Surjection(1 .. n, Asked)
    BY <1>1 DEF Surjection, Asked
  <1>3. IsFiniteSet(1 .. n) /\ Cardinality(1 .. n) = n
    BY PlacesCount
  <1>4. IsFiniteSet(Asked) /\ Cardinality(Asked) <= n
    BY <1>2, <1>3, FS_Surjection
  <1>5. IsFiniteSet(D) /\ Cardinality(D) <= Cardinality(Asked) /\ Cardinality(D) # Cardinality(Asked)
    BY <1>4, FS_Subset
  <1>6. Cardinality(D) \in Nat /\ Cardinality(Asked) \in Nat
    BY <1>4, <1>5, FS_CardinalityType
  <1>7. Cardinality(D) + 1 \in DOMAIN Plan
    BY <1>1, <1>4, <1>5, <1>6
  <1> QED
    BY <1>7 DEF Asked

\* What Query does when there is something left to ask.
LEMMA QueryFacts ==
  ASSUME RequestOK, Query
  PROVE  LET q == Plan[Cardinality(DOMAIN view) + 1]
         IN  /\ req \in Requests /\ q \in Asked
             /\ DOMAIN view' = DOMAIN view \cup {q}
             /\ view'[q] = Rows(q)
             /\ \A x \in DOMAIN view : x # q => view'[x] = view[x]
  <1>1. req # Idle /\ ~Answered
    BY DEF Query
  <1>2. req \in Requests /\ DOMAIN view \subseteq Asked /\ (req.kind = "pricing" => req.source = "router")
    BY <1>1 DEF RequestOK
  <1>3. DOMAIN view # Asked
    BY <1>1 DEF Answered
  <1> DEFINE q == Plan[Cardinality(DOMAIN view) + 1]
  <1>4. q \in Asked
    BY <1>2, <1>3, NextQuery
  <1>5. view' = [x \in DOMAIN view \cup {q} |-> IF x = q THEN Rows(q) ELSE view[x]]
    BY DEF Query
  <1> HIDE DEF q
  <1>6. /\ DOMAIN view' = DOMAIN view \cup {q} /\ view'[q] = Rows(q)
        /\ \A x \in DOMAIN view : x # q => view'[x] = view[x]
    BY <1>5
  <1> QED
    BY <1>2, <1>4, <1>6 DEF q

\* No request is idle.
LEMMA IdleIsNone == Idle \notin Requests /\ (req \in Requests => req # Idle)
  BY RequestsAssumption DEF Idle, Requests

\* A write is counted, and leaves the request and its answers alone.
LEMMA WrittenFacts ==
  ASSUME StateOK, Written, installed' \in {installed, TRUE}, walk' \in {walk, NoWalk}
  PROVE  writes' \in 0 .. MaxWrites /\ RequestOK'
  <1>1. writes' \in 0 .. MaxWrites
    BY RequestsAssumption DEF StateOK, TablesOK, Written
  <1>2. req' = req /\ view' = view
    BY DEF Written
  <1>3. Asked' = Asked
    BY <1>2 DEF Asked, Plan
  <1>4. ASSUME req = Idle
        PROVE  RequestOK'
    BY <1>2, <1>4, IdleIsNone DEF StateOK, RequestOK
  <1>5. ASSUME req # Idle
        PROVE  RequestOK'
    <2>1. req \in Requests /\ (req.kind = "pricing" => req.source = "router" /\ installed)
      BY <1>5 DEF StateOK, RequestOK
    <2>2. DOMAIN view \subseteq Asked /\ (req.kind # "page" => walk = NoWalk)
      BY <1>5 DEF StateOK, RequestOK
    <2>3. req.kind # "page" => walk' = NoWalk
      BY <2>2
    <2>4. req.kind = "pricing" => installed'
      BY <2>1
    <2> QED
      BY <1>2, <1>3, <2>1, <2>2, <2>3, <2>4 DEF RequestOK, Requests
  <1> QED
    BY <1>1, <1>4, <1>5

LEMMA InsertKeeps ==
  ASSUME StateOK, NEW c \in Calls, Insert(c)
  PROVE  StateOK'
  <1> DEFINE r == Stored(Reported(c))
  <1>1. r \in UsageRows
    BY DEF UsageRows
  <1>2. r.id = c.id
    BY StoredId
  <1> HIDE DEF r
  <1>3. usage' = Append(usage, r) /\ r.id \notin Ids(usage) /\ Written
    BY <1>2 DEF Insert, r
  <1>4. usage' \in Seq(UsageRows) /\ DistinctIds(usage')
    BY <1>1, <1>3, AppendRow DEF StateOK, TablesOK
  <1>5. UNCHANGED <<router, installed, overrides, walk>>
    BY DEF Insert
  <1>6. writes' \in 0 .. MaxWrites /\ RequestOK'
    BY <1>3, <1>5, WrittenFacts
  <1> QED
    BY <1>4, <1>5, <1>6 DEF StateOK, TablesOK, OverridesOK, DistinctIds

LEMMA InsertRoutedKeeps ==
  ASSUME StateOK, NEW c \in Routed, InsertRouted(c)
  PROVE  StateOK'
  <1>1. router' = Append(router, c) /\ c.id \notin Ids(router) /\ Written
    BY DEF InsertRouted
  <1>2. router' \in Seq(Routed) /\ DistinctIds(router')
    BY <1>1, AppendRow DEF StateOK, TablesOK
  <1>3. UNCHANGED <<usage, installed, overrides, walk>>
    BY DEF InsertRouted
  <1>4. writes' \in 0 .. MaxWrites /\ RequestOK'
    BY <1>1, <1>3, WrittenFacts
  <1> QED
    BY <1>2, <1>3, <1>4 DEF StateOK, TablesOK, OverridesOK, DistinctIds

LEMMA DeleteKeeps ==
  ASSUME StateOK, NEW id, Delete(id)
  PROVE  StateOK'
  <1> DEFINE Y == {r \in Range(usage) : r.id # id}
             I == {i \in DOMAIN usage : usage[i] \in Y}
  <1>1. usage' = RowsAt(usage, I, Ascending(I))
    <2>1. I = {i \in DOMAIN usage : usage[i].id # id}
      BY DEF Range
    <2> QED
      BY <2>1 DEF Delete, Where
  <1>2. usage' \in Seq(UsageRows) /\ DistinctIds(usage')
    <2>1. Y \in SUBSET Range(usage)
      OBVIOUS
    <2> HIDE DEF Y
    <2> QED
      BY <1>1, <2>1, SelectedTable DEF StateOK, TablesOK
  <1>3. UNCHANGED <<router, installed, overrides>> /\ walk' = NoWalk /\ Written
    BY DEF Delete
  <1>4. writes' \in 0 .. MaxWrites /\ RequestOK'
    BY <1>3, WrittenFacts
  <1> QED
    BY <1>2, <1>3, <1>4 DEF StateOK, TablesOK, OverridesOK, DistinctIds

LEMMA InstallKeeps ==
  ASSUME StateOK, Install
  PROVE  StateOK'
  <1>1. /\ UNCHANGED <<usage, router, overrides>>
        /\ installed' = TRUE /\ walk' = NoWalk /\ Written
    BY DEF Install
  <1>2. writes' \in 0 .. MaxWrites /\ RequestOK'
    BY <1>1, WrittenFacts
  <1> QED
    BY <1>1, <1>2 DEF StateOK, TablesOK, OverridesOK, DistinctIds

\* Lower case is lower case already.
LEMMA LowerFacts ==
  ASSUME NEW n, IsName(n)
  PROVE  /\ IsName(Lower(n)) /\ Lower(Lower(n)) = Lower(n)
         /\ ~Lower(n).caps /\ Lower(n).tail = n.tail /\ Lower(n).route = n.route
         /\ ~n.caps => Lower(n) = n
  <1>1. IsName(Lower(n)) /\ ~Lower(n).caps /\ Lower(n).tail = n.tail /\ Lower(n).route = n.route
    BY DEF IsName, Lower
  <1>2. ASSUME NEW m, IsName(m), ~m.caps
        PROVE  Lower(m) = m
    <2>1. m = [part \in {"route", "stem", "tail", "caps"} |-> m[part]] /\ m.caps = FALSE
      BY <1>2 DEF IsName
    <2> QED
      BY <2>1 DEF Lower
  <1> QED
    BY <1>1, <1>2

LEMMA PutPricesKeeps ==
  ASSUME StateOK, NEW list \in PriceLists, PutPrices(list)
  PROVE  StateOK'
  <1>1. /\ UNCHANGED <<usage, router, installed, walk>> /\ Written
        /\ overrides' = Cleaned(list)
        /\ \A i \in DOMAIN list : FirstOfName(list, i) => ~Negative(list[i].price)
    BY DEF PutPrices
  <1>2. writes' \in 0 .. MaxWrites /\ RequestOK'
    BY <1>1, WrittenFacts
  <1>3. ASSUME NEW n \in DOMAIN Cleaned(list)
        PROVE  /\ IsName(n) /\ n = Lower(n)
               /\ IsPrice(Cleaned(list)[n]) /\ ~Negative(Cleaned(list)[n])
    <2> DEFINE kept == {i \in DOMAIN list : FirstOfName(list, i)}
               first == CHOOSE i \in kept : Lower(list[i].model) = n
    <2>1. PICK i \in kept : n = Lower(list[i].model)
      BY DEF Cleaned
    <2>2. IsName(list[i].model)
      BY RowsAssumption
    <2>3. IsName(n) /\ n = Lower(n)
      BY <2>1, <2>2, LowerFacts
    <2>4. first \in kept
      BY <2>1
    <2>5. Cleaned(list)[n] = list[first].price
      BY DEF Cleaned
    <2>6. IsPrice(list[first].price)
      BY <2>4, RowsAssumption
    <2> QED
      BY <1>1, <2>3, <2>4, <2>5, <2>6
  <1>4. OverridesOK'
    BY <1>1, <1>3 DEF OverridesOK
  <1> QED
    BY <1>1, <1>2, <1>4 DEF StateOK, TablesOK, DistinctIds

\* A request that begins is one of the plan, of a source that is there.
LEMMA BeginFacts ==
  ASSUME NEW kind \in Kinds, NEW f \in Filters, NEW forced \in BOOLEAN, Begin(kind, f, forced)
  PROVE  /\ req = Idle /\ req' \in Requests /\ req'.kind = kind /\ req'.offset = 0
         /\ kind = "pricing" => req'.source = "router" /\ installed
         /\ writes' = 0
         /\ UNCHANGED <<usage, router, installed, overrides, view, walk>>
  <1>1. PICK source \in Sources(kind, forced) :
           req' = [kind |-> kind, filter |-> f, forced |-> forced, source |-> source, offset |-> 0]
    BY DEF Begin
  <1>2. CASE kind = "pricing"
    <2>1. Sources(kind, forced) = {"router"}
      BY <1>2 DEF Sources
    <2> QED
      BY <1>1, <1>2, <2>1 DEF Begin, Requests
  <1>3. CASE kind # "pricing"
    <2>1. Sources(kind, forced) \subseteq {"plugin", "router"}
      BY <1>3 DEF Sources, ResolveSource
    <2> QED
      BY <1>1, <1>3, <2>1 DEF Begin, Requests
  <1> QED
    BY <1>2, <1>3

LEMMA BeginKeeps ==
  ASSUME StateOK, NEW kind \in Kinds, NEW f \in Filters, NEW forced \in BOOLEAN,
         Begin(kind, f, forced)
  PROVE  StateOK'
  <1>1. /\ req = Idle /\ req' \in Requests /\ req'.kind = kind
        /\ kind = "pricing" => req'.source = "router" /\ installed
        /\ writes' = 0
        /\ UNCHANGED <<usage, router, installed, overrides, view, walk>>
    BY BeginFacts
  <1>2. DOMAIN view = {} /\ walk = NoWalk
    BY <1>1, IdleIsNone DEF StateOK, RequestOK
  <1>3. RequestOK'
    BY <1>1, <1>2 DEF RequestOK, Requests
  <1> QED
    BY <1>1, <1>3, RequestsAssumption DEF StateOK, TablesOK, OverridesOK, DistinctIds

LEMMA QueryKeeps ==
  ASSUME StateOK, Query
  PROVE  StateOK'
  <1> DEFINE q == Plan[Cardinality(DOMAIN view) + 1]
  <1>1. req \in Requests /\ q \in Asked /\ DOMAIN view' = DOMAIN view \cup {q}
    BY QueryFacts DEF StateOK
  <1> HIDE DEF q
  <1>2. UNCHANGED <<usage, router, installed, overrides, req, writes>>
    BY DEF Query
  <1>3. req.kind # "page" => walk' = walk
    BY DEF Query
  <1>4. Asked' = Asked
    BY <1>2 DEF Asked, Plan
  <1>5. RequestOK'
    BY <1>1, <1>2, <1>3, <1>4, IdleIsNone DEF StateOK, RequestOK, Requests
  <1> QED
    BY <1>2, <1>5 DEF StateOK, TablesOK, OverridesOK, DistinctIds

LEMMA NextPageKeeps ==
  ASSUME StateOK, NextPage
  PROVE  StateOK'
  <1>1. /\ req # Idle /\ req.kind = "page"
        /\ req' = [req EXCEPT !.offset = @ + Limit] /\ view' = <<>>
        /\ UNCHANGED <<usage, router, installed, overrides, walk, writes>>
    BY DEF NextPage, Answered
  <1>2. req \in Requests
    BY <1>1 DEF StateOK, RequestOK
  <1>3. req' \in Requests /\ req'.kind = "page"
    BY <1>1, <1>2, RequestsAssumption DEF Requests
  <1>4. DOMAIN view' = {}
    BY <1>1
  <1>5. RequestOK'
    BY <1>3, <1>4 DEF RequestOK, Requests
  <1> QED
    BY <1>1, <1>5 DEF StateOK, TablesOK, OverridesOK, DistinctIds

LEMMA FinishKeeps ==
  ASSUME StateOK, Finish
  PROVE  StateOK'
  <1>1. /\ req' = Idle /\ view' = <<>> /\ walk' = NoWalk /\ writes' = 0
        /\ UNCHANGED <<usage, router, installed, overrides>>
    BY DEF Finish
  <1>2. DOMAIN view' = {}
    BY <1>1
  <1> QED
    BY <1>1, <1>2, RequestsAssumption DEF StateOK, TablesOK, OverridesOK, RequestOK, DistinctIds, NoWalk

LEMMA InitStateOK ==
  ASSUME Init
  PROVE  StateOK
  <1>1. usage = <<>> /\ router = <<>> /\ DOMAIN view = {} /\ DOMAIN overrides = {} /\ DOMAIN usage = {}
        /\ DOMAIN router = {}
    BY DEF Init
  <1>2. usage \in Seq(UsageRows) /\ router \in Seq(Routed)
    BY <1>1, EmptySeq
  <1> QED
    BY <1>1, <1>2, RequestsAssumption
    DEF Init, StateOK, TablesOK, OverridesOK, RequestOK, DistinctIds

LEMMA NextStateOK ==
  ASSUME StateOK, [Next]_vars
  PROVE  StateOK'
  <1>1. ASSUME NEW c \in Calls, Insert(c)
        PROVE  StateOK'
    BY <1>1, InsertKeeps
  <1>2. ASSUME NEW c \in Routed, InsertRouted(c)
        PROVE  StateOK'
    BY <1>2, InsertRoutedKeeps
  <1>3. ASSUME NEW id \in Ids(usage), Delete(id)
        PROVE  StateOK'
    BY <1>3, DeleteKeeps
  <1>4. CASE Install
    BY <1>4, InstallKeeps
  <1>5. ASSUME NEW list \in PriceLists, PutPrices(list)
        PROVE  StateOK'
    BY <1>5, PutPricesKeeps
  <1>6. ASSUME NEW kind \in Kinds, NEW f \in Filters, NEW forced \in BOOLEAN,
               Begin(kind, f, forced)
        PROVE  StateOK'
    BY <1>6, BeginKeeps
  <1>7. CASE Query
    BY <1>7, QueryKeeps
  <1>8. CASE NextPage
    BY <1>8, NextPageKeeps
  <1>9. CASE Finish
    BY <1>9, FinishKeeps
  <1>10. CASE UNCHANGED vars
    <2>1. Asked' = Asked
      BY <1>10 DEF vars, Asked, Plan
    <2>2. TablesOK' /\ OverridesOK'
      BY <1>10 DEF vars, StateOK, TablesOK, OverridesOK, DistinctIds
    <2>3. RequestOK'
      BY <1>10, <2>1 DEF vars, StateOK, RequestOK
    <2> QED
      BY <2>2, <2>3 DEF StateOK
  <1> QED
    BY <1>1, <1>2, <1>3, <1>4, <1>5, <1>6, <1>7, <1>8, <1>9, <1>10 DEF Next

\* The two tables keep their rows apart, the manual prices are clean, and the
\* request holds answers to its own queries only.
THEOREM StateInvariant == Spec => []StateOK
  BY InitStateOK, NextStateOK, PTL DEF Spec

\* The types of the databases and of the request: no stored row has a negative
\* input or no model, ids stay unique (Insert, Delete), and PUT pricing never
\* leaves a negative rate or a name in capitals behind.
THEOREM TypeCorrect == Spec => []TypeOK
  <1>1. ASSUME StateOK
        PROVE  TypeOK
    <2>1. \A i \in DOMAIN usage : usage[i].input >= 0 /\ usage[i].model # NoName
      <3>1. \A i \in DOMAIN usage : usage[i] \in UsageRows
        BY <1>1 DEF StateOK, TablesOK
      <3> QED
        BY <3>1, StoredFacts
    <2>2. Cardinality(Ids(usage)) = Len(usage)
      <3> DEFINE A == DOMAIN usage
                 s == [i \in A |-> usage[i].id]
                 B == Ids(usage)
      <3>1. A = 1 .. Len(usage) /\ Len(usage) \in Nat
        BY <1>1 DEF StateOK, TablesOK
      <3>2. IsFiniteSet(A) /\ Cardinality(A) = Len(usage)
        BY <3>1, PlacesCount
      <3>3. \A i, j \in A : s[i] = s[j] => i = j
        BY <1>1 DEF StateOK, TablesOK, DistinctIds
      <3>4. (\A i \in A : s[i] \in B) /\ \A x \in B : \E i \in A : s[i] = x
        BY DEF Ids, Range
      <3> HIDE DEF A, s, B
      <3>5. Cardinality(B) = Cardinality(A)
        BY <3>2, <3>3, <3>4, RowsCount
      <3> QED
        BY <3>2, <3>5 DEF B
    <2>3. Range(router) \subseteq Routed
      BY <1>1 DEF StateOK, TablesOK, Range
    <2>4. req # Idle => DOMAIN view \subseteq Asked
      BY <1>1 DEF StateOK, RequestOK
    <2> QED
      BY <1>1, <2>1, <2>2, <2>3, <2>4 DEF TypeOK, StateOK, TablesOK, OverridesOK
  <1> QED
    BY <1>1, StateInvariant, PTL

-----------------------------------------------------------------------------
(***************************************************************************)
(* What the queries of the router's database return                        *)
(***************************************************************************)

\* The order of the scan: by timestamp, and as the rows stand in the table.
ScanOrder(s) ==
    {p \in Range(s) \X Range(s) :
        p[1].at < p[2].at \/ (p[1].at = p[2].at /\ p \in InOrder(s))}

\* The rows of the router that a request is about.
RouterRows(f) == {r \in Range(router) : InRange(f, r) /\ RouterMatches(f, r)}

\* A table sorted by time lists its rows in the order of the scan.
LEMMA ByTimeLists ==
  ASSUME NEW s, NEW X \in SUBSET Range(s), NEW t, Lists(t, X, InOrder(s)),
         \A x \in X : x.at \in Int
  PROVE  Lists(ByTime(t), X, ScanOrder(s))
  <1> DEFINE N == ScanOrder(s)
             R == InOrder(s)
             I == DOMAIN t
             Comes(i, j) == t[i].at < t[j].at \/ (~(t[j].at < t[i].at) /\ i < j)
             Q == {p \in I \X I : Comes(p[1], p[2])}
  <1>1. \A x, y \in X : <<x, y>> \in N <=> x.at < y.at \/ (x.at = y.at /\ <<x, y>> \in R)
    BY DEF ScanOrder
  <1>2. Orders(R, X)
    BY DEF Lists
  <1> HIDE DEF N, R
  <1>3. Orders(N, X)
    <2>1. ASSUME NEW x \in X
          PROVE  <<x, x>> \notin N
      <3>1. <<x, x>> \notin R /\ x.at \in Int
        BY <1>2 DEF Orders
      <3>2. ~(x.at < x.at)
        BY <3>1
      <3> QED
        BY <1>1, <3>1, <3>2
    <2>2. ASSUME NEW x \in X, NEW y \in X, x # y
          PROVE  <<x, y>> \in N \/ <<y, x>> \in N
      <3>1. <<x, y>> \in R \/ <<y, x>> \in R
        BY <1>2, <2>2 DEF Orders
      <3>2. x.at < y.at \/ y.at < x.at \/ x.at = y.at
        OBVIOUS
      <3> QED
        BY <1>1, <3>1, <3>2
    <2>3. ASSUME NEW x \in X, NEW y \in X, NEW z \in X, <<x, y>> \in N, <<y, z>> \in N
          PROVE  <<x, z>> \in N
      <3>1. /\ x.at < y.at \/ (x.at = y.at /\ <<x, y>> \in R)
            /\ y.at < z.at \/ (y.at = z.at /\ <<y, z>> \in R)
        BY <1>1, <2>3
      <3>2. <<x, y>> \in R /\ <<y, z>> \in R => <<x, z>> \in R
        BY <1>2 DEF Orders
      <3>3. x.at < z.at \/ (x.at = z.at /\ <<x, z>> \in R)
        BY <3>1, <3>2
      <3> QED
        BY <1>1, <3>3
    <2> QED
      BY <2>1, <2>2, <2>3 DEF Orders
  <1>4. I = 1 .. Len(t) /\ Range(t) = X /\ \A i \in I : t[i] \in X
    BY ListsOnce DEF Range
  <1>5. ASSUME NEW i \in I, NEW j \in I
        PROVE  <<i, j>> \in Q <=> <<t[i], t[j]>> \in N
    <2>1. i < j <=> <<t[i], t[j]>> \in R
      BY <1>4, ListsOrder DEF R
    <2>2. t[i].at \in Int /\ t[j].at \in Int
      BY <1>4
    <2>3. <<i, j>> \in Q <=> t[i].at < t[j].at \/ (t[i].at = t[j].at /\ <<t[i], t[j]>> \in R)
      BY <2>1, <2>2
    <2> QED
      BY <1>1, <1>4, <2>3
  <1>6. ByTime(t) = RowsAt(t, I, Q)
    BY DEF ByTime, OrderBy
  <1> HIDE DEF Q, I
  <1>7. Lists(t, X, R)
    BY DEF R
  <1>8. Lists(RowsAt(t, I, Q), X, N)
    BY <1>3, <1>5, <1>7, SortLists DEF I
  <1> QED
    BY <1>6, <1>8 DEF N

\* scanRouterRows and the filter after it list the rows the request is about.
LEMMA MatchingLists ==
  ASSUME StateOK, NEW f
  PROVE  Lists(Matching(f, router), RouterRows(f), ScanOrder(router))
  <1> DEFINE X == {r \in Range(router) : InRange(f, r)}
             Y == RouterRows(f)
             t == Where(router, LAMBDA r : InRange(f, r))
             u == Scan(f, router)
             v == Matching(f, router)
  <1>1. X \in SUBSET Range(router) /\ Y \in SUBSET X
    BY DEF RouterRows
  <1>2. router \in Seq(Routed) /\ DistinctIds(router)
    BY DEF StateOK, TablesOK
  <1>3. \A x \in X : x.at \in Int
    BY <1>2, RoutedFacts DEF Range
  <1>4. Lists(t, X, InOrder(router))
    <2> DEFINE I == {i \in DOMAIN router : router[i] \in X}
    <2>1. I = {i \in DOMAIN router : InRange(f, router[i])}
      BY DEF Range
    <2>2. t = RowsAt(router, I, Ascending(I))
      BY <2>1 DEF Where
    <2> HIDE DEF t, X
    <2>3. Lists(RowsAt(router, I, Ascending(I)), X, InOrder(router))
      BY <1>1, <1>2, SelectedTable
    <2> QED
      BY <2>2, <2>3
  <1> HIDE DEF X, Y, t
  <1>5. Lists(u, X, ScanOrder(router))
    <2>1. u = ByTime(t)
      BY DEF Scan, t
    <2> QED
      BY <1>1, <1>3, <1>4, <2>1, ByTimeLists
  <1> HIDE DEF u
  <1>6. Lists(v, Y, ScanOrder(router))
    <2> DEFINE I == {i \in DOMAIN u : u[i] \in Y}
    <2>1. Range(u) = X
      BY <1>5, ListsOnce
    <2>2. \A i \in DOMAIN u : u[i] \in Y <=> RouterMatches(f, u[i])
      BY <2>1 DEF X, Y, RouterRows, Range
    <2>3. I = {i \in DOMAIN u : RouterMatches(f, u[i])}
      BY <2>2
    <2>4. v = RowsAt(u, I, Ascending(I))
      BY <2>3 DEF Matching, Where, u
    <2> HIDE DEF v
    <2>5. Lists(RowsAt(u, I, Ascending(I)), Y, ScanOrder(router))
      BY <1>1, <1>5, SelectionLists
    <2> QED
      BY <2>4, <2>5
  <1> QED
    BY <1>6 DEF v, Y

-----------------------------------------------------------------------------
(***************************************************************************)
(* What a request for the catalogue has read                               *)
(***************************************************************************)

\* The catalogue asks for the book, then for the range, then for the index, and
\* the router only adds rows: whatever the range returned is in the index.
CatalogueOK ==
    req.kind = "pricing" =>
        /\ DOMAIN view \in {{}, {"book"}, {"book", "matched"}, {"book", "matched", "index"}}
        /\ "book" \in DOMAIN view =>
              view.book.book = RouterBook /\ \A n \in DOMAIN view.book.manual : IsName(n)
        /\ "matched" \in DOMAIN view =>
              /\ Range(view.matched) \subseteq Range(router)
              /\ DOMAIN view.matched = 1 .. Len(view.matched) /\ Len(view.matched) \in Nat
              /\ \A i, j \in DOMAIN view.matched : view.matched[i] = view.matched[j] => i = j
        /\ "index" \in DOMAIN view =>
              /\ view.index \in Seq(Routed)
              /\ Range(view.matched) \subseteq Range(view.index)

\* The next query of a request for the catalogue.
LEMMA CatalogueNext ==
  ASSUME StateOK, req \in Requests, req.kind = "pricing"
  PROVE  LET q(D) == Plan[Cardinality(D) + 1]
         IN  /\ q({}) = "book" /\ q({"book"}) = "matched"
             /\ q({"book", "matched"}) = "index"
             /\ Asked = {"book", "matched", "index"}
  <1>1. Plan = <<"book", "matched", "index">>
    BY DEF StateOK, RequestOK, Plan, RouterPlan, Idle
  <1>2. Cardinality({}) = 0 /\ Cardinality({"book"}) = 1
    BY FS_EmptySet, FS_Singleton
  <1>3. Cardinality({"book", "matched"}) = 2
    <2> DEFINE one == {"book"}
    <2>1. {"book", "matched"} = one \cup {"matched"} /\ "matched" \notin one
      OBVIOUS
    <2>2. IsFiniteSet(one) /\ Cardinality(one) = 1
      BY FS_Singleton
    <2> HIDE DEF one
    <2>3. Cardinality(one \cup {"matched"}) = Cardinality(one) + 1
      BY <2>1, <2>2, FS_AddElement
    <2> QED
      BY <2>1, <2>2, <2>3
  <1>4. Asked = {"book", "matched", "index"}
    BY <1>1 DEF Asked
  <1> QED
    BY <1>1, <1>2, <1>3, <1>4

LEMMA QueryKeepsCatalogue ==
  ASSUME StateOK, CatalogueOK, Query
  PROVE  CatalogueOK'
  <1> SUFFICES ASSUME req'.kind = "pricing"
               PROVE  CatalogueOK'
    BY DEF CatalogueOK
  <1> DEFINE q == Plan[Cardinality(DOMAIN view) + 1]
  <1>1. /\ req \in Requests /\ q \in Asked
        /\ DOMAIN view' = DOMAIN view \cup {q}
        /\ view'[q] = Rows(q)
        /\ \A x \in DOMAIN view : x # q => view'[x] = view[x]
    BY QueryFacts DEF StateOK
  <1>2. UNCHANGED <<router, installed, overrides, req>> /\ DOMAIN view # Asked
    BY DEF Query, Answered
  <1>3. req.kind = "pricing" /\ installed
    BY <1>1, <1>2, IdleIsNone DEF StateOK, RequestOK
  <1>4. \/ DOMAIN view = {} /\ q = "book"
        \/ DOMAIN view = {"book"} /\ q = "matched"
        \/ DOMAIN view = {"book", "matched"} /\ q = "index"
    BY <1>1, <1>2, <1>3, CatalogueNext DEF CatalogueOK
  <1> HIDE DEF q
  <1>5. CASE DOMAIN view = {} /\ q = "book"
    <2>1. Rows("book") = [book |-> Book, manual |-> overrides]
      BY DEF Rows
    <2>2. DOMAIN view' = {"book"} /\ view'.book = [book |-> Book, manual |-> overrides]
      BY <1>1, <1>5, <2>1
    <2>3. view'.book.book = RouterBook /\ \A n \in DOMAIN view'.book.manual : IsName(n)
      BY <1>3, <2>2 DEF Book, StateOK, OverridesOK
    <2> QED
      BY <2>2, <2>3 DEF CatalogueOK
  <1>6. CASE DOMAIN view = {"book"} /\ q = "matched"
    <2>1. Rows("matched") = Matching(req.filter, router)
      BY DEF Rows
    <2>2. DOMAIN view' = {"book", "matched"} /\ view'.book = view.book
          /\ view'.matched = Matching(req.filter, router)
      BY <1>1, <1>6, <2>1
    <2>3. Lists(view'.matched, RouterRows(req.filter), ScanOrder(router))
      BY <2>2, MatchingLists
    <2>4. /\ Range(view'.matched) \subseteq Range(router')
          /\ DOMAIN view'.matched = 1 .. Len(view'.matched) /\ Len(view'.matched) \in Nat
          /\ \A i, j \in DOMAIN view'.matched : view'.matched[i] = view'.matched[j] => i = j
      BY <1>2, <2>3, ListsOnce DEF RouterRows
    <2>5. view'.book.book = RouterBook /\ \A n \in DOMAIN view'.book.manual : IsName(n)
      BY <1>3, <1>6, <2>2 DEF CatalogueOK
    <2> QED
      BY <2>2, <2>4, <2>5 DEF CatalogueOK
  <1>7. CASE DOMAIN view = {"book", "matched"} /\ q = "index"
    <2>1. Rows("index") = router
      BY DEF Rows
    <2>2. /\ DOMAIN view' = {"book", "matched", "index"}
          /\ view'.book = view.book /\ view'.matched = view.matched /\ view'.index = router
      BY <1>1, <1>7, <2>1
    <2>3. /\ view'.index \in Seq(Routed)
          /\ Range(view'.matched) \subseteq Range(view'.index)
      BY <1>3, <1>7, <2>2 DEF StateOK, TablesOK, CatalogueOK
    <2>4. /\ Range(view'.matched) \subseteq Range(router')
          /\ DOMAIN view'.matched = 1 .. Len(view'.matched) /\ Len(view'.matched) \in Nat
          /\ \A i, j \in DOMAIN view'.matched : view'.matched[i] = view'.matched[j] => i = j
      BY <1>2, <1>3, <1>7, <2>2 DEF CatalogueOK
    <2>5. view'.book.book = RouterBook /\ \A n \in DOMAIN view'.book.manual : IsName(n)
      BY <1>3, <1>7, <2>2 DEF CatalogueOK
    <2> QED
      BY <2>2, <2>3, <2>4, <2>5 DEF CatalogueOK
  <1> QED
    BY <1>4, <1>5, <1>6, <1>7

LEMMA NextCatalogueOK ==
  ASSUME StateOK, CatalogueOK, [Next]_vars
  PROVE  CatalogueOK'
  <1>1. ASSUME NEW c \in Routed, InsertRouted(c)
        PROVE  CatalogueOK'
    <2>1. UNCHANGED <<req, view>> /\ router' = Append(router, c) /\ c.id \notin Ids(router)
      BY <1>1 DEF InsertRouted, Written
    <2>2. Range(router') = Range(router) \cup {c}
      BY <2>1, AppendRow DEF StateOK, TablesOK
    <2> QED
      BY <2>1, <2>2 DEF CatalogueOK
  <1>2. ASSUME UNCHANGED <<router, req, view>>
        PROVE  CatalogueOK'
    BY <1>2 DEF CatalogueOK
  <1>3. ASSUME NEW kind \in Kinds, NEW f \in Filters, NEW forced \in BOOLEAN,
               Begin(kind, f, forced)
        PROVE  CatalogueOK'
    <2>1. UNCHANGED <<view>> /\ req = Idle
      BY <1>3, BeginFacts
    <2>2. DOMAIN view' = {}
      BY <2>1, IdleIsNone DEF StateOK, RequestOK
    <2> QED
      BY <2>2 DEF CatalogueOK
  <1>4. CASE Query
    BY <1>4, QueryKeepsCatalogue
  <1>5. ASSUME NextPage \/ Finish
        PROVE  CatalogueOK'
    <2>1. view' = <<>>
      BY <1>5 DEF NextPage, Finish
    <2>2. DOMAIN view' = {}
      BY <2>1
    <2> QED
      BY <2>2 DEF CatalogueOK
  <1>6. ASSUME NEW c \in Calls, Insert(c)
        PROVE  UNCHANGED <<router, req, view>>
    BY <1>6 DEF Insert, Written
  <1>7. ASSUME NEW id, Delete(id)
        PROVE  UNCHANGED <<router, req, view>>
    BY <1>7 DEF Delete, Written
  <1>8. ASSUME NEW list, PutPrices(list)
        PROVE  UNCHANGED <<router, req, view>>
    BY <1>8 DEF PutPrices, Written
  <1>9. Install \/ UNCHANGED vars => UNCHANGED <<router, req, view>>
    BY DEF Install, Written, vars
  <1> QED
    BY <1>1, <1>2, <1>3, <1>4, <1>5, <1>6, <1>7, <1>8, <1>9 DEF Next

\* What a catalogue request has read is in order whenever it is answered.
THEOREM CatalogueInvariant == Spec => []CatalogueOK
  <1>1. Init => CatalogueOK
    BY DEF Init, Idle, CatalogueOK
  <1> QED
    BY <1>1, NextCatalogueOK, StateInvariant, PTL DEF Spec

-----------------------------------------------------------------------------
(***************************************************************************)
(* The rows of the catalogue                                               *)
(***************************************************************************)

\* The spellings a row of the catalogue stands for.
Stands(row) == {row.model} \cup row.also

\* The name and the spellings of a row.
LEMMA RowNames ==
  ASSUME NEW n, NEW also, NEW book, NEW manual, NEW index, NEW traffic
  PROVE  /\ CatalogueRow(n, also, book, manual, index, traffic).model = n
         /\ CatalogueRow(n, also, book, manual, index, traffic).also = also
  BY DEF CatalogueRow

\* Of some spellings there is a shortest one.
LEMMA DisplayNameIsOne ==
  ASSUME NEW S, S # {}, \A n \in S : IsName(n)
  PROVE  DisplayName(S) \in S
  <1> DEFINE T == {Size(n) : n \in S}
  <1>1. \A n \in S : Size(n) \in Nat
    <2> SUFFICES ASSUME NEW n \in S
                 PROVE  Size(n) \in Nat
      OBVIOUS
    <2> DEFINE l == Len(n.tail)
    <2>1. l \in Nat
      BY DEF IsName
    <2>2. Size(n) = 2 * l + (IF n.route = "" THEN 0 ELSE 1)
      BY DEF Size
    <2>3. 2 * l + 0 \in Nat /\ 2 * l + 1 \in Nat
      BY <2>1
    <2> QED
      BY <2>2, <2>3, Zenon
  <1>2. T \in SUBSET Nat /\ T # {}
    BY <1>1
  <1>3. \E x \in T : \A y \in T : x <= y
    BY <1>2, LeastNumber
  <1>4. \E n \in S : \A m \in S : Size(n) <= Size(m)
    BY <1>3
  <1> QED
    BY <1>4 DEF DisplayName

\* No two names of a set differ in case only.
Apart(names) == \A m, n \in names : EqualFold(m, n) => m = n

\* Every name that is added is there afterwards, up to case, and none twice.
LEMMA SpelledFacts ==
  ASSUME NEW names, Apart(names), NEW more
  PROVE  /\ Apart(Spelled(names, more))
         /\ names \subseteq Spelled(names, more)
         /\ Spelled(names, more) \subseteq names \cup more
         /\ \A n \in more : \E m \in Spelled(names, more) : EqualFold(m, n)
  <1> DEFINE S == Spelled(names, more)
             pick(low) == CHOOSE m \in more : Lower(m) = low
  <1>1. ASSUME NEW n
        PROVE  n \in S <=>
                  \/ n \in names
                  \/ /\ n \in more /\ \A m \in names : ~EqualFold(m, n)
                     /\ n = pick(Lower(n))
    BY DEF Spelled, EqualFold
  <1>2. ASSUME NEW n \in more
        PROVE  pick(Lower(n)) \in more /\ Lower(pick(Lower(n))) = Lower(n)
    OBVIOUS
  <1> HIDE DEF S, pick
  <1>3. Apart(S)
    BY <1>1 DEF Apart, EqualFold
  <1>4. ASSUME NEW n \in more
        PROVE  \E m \in S : EqualFold(m, n)
    <2>1. CASE \E m \in names : EqualFold(m, n)
      BY <1>1, <2>1
    <2>2. CASE \A m \in names : ~EqualFold(m, n)
      <3>1. pick(Lower(n)) \in S
        BY <1>1, <1>2, <2>2 DEF EqualFold
      <3> QED
        BY <1>2, <3>1 DEF EqualFold
    <2> QED
      BY <2>1, <2>2
  <1>5. names \subseteq S /\ S \subseteq names \cup more
    BY <1>1
  <1> QED
    BY <1>3, <1>4, <1>5 DEF S

\* Every model the index counts is in it, up to case.
LEMMA IndexedCovers ==
  ASSUME NEW s, \A r \in Range(s) : IsName(r.model), NEW n \in {r.model : r \in Range(s)} \ {NoName}
  PROVE  \E m \in Indexed(s) : EqualFold(m, n)
  <1> DEFINE all == {r.model : r \in Range(s)} \ {NoName}
  <1>1. IsName(n) /\ n \in all
    OBVIOUS
  <1>2. CASE n \in Indexed(s)
    BY <1>2 DEF EqualFold
  <1>3. CASE n \notin Indexed(s)
    <2>1. Lower(n) \in all
      BY <1>1, <1>3 DEF Indexed
    <2>2. ~Lower(n).caps /\ Lower(Lower(n)) = Lower(n)
      BY <1>1, LowerFacts
    <2>3. Lower(n) \in Indexed(s)
      BY <2>1, <2>2 DEF Indexed
    <2> QED
      BY <2>2, <2>3 DEF EqualFold
  <1> QED
    BY <1>2, <1>3

\* The names of the catalogue are those of the book, the index, the traffic and
\* the manual prices, each once up to case.
LEMMA CatalogueNamesFacts ==
  ASSUME NEW book, NEW manual, NEW index, NEW traffic
  PROVE  LET N == CatalogueNames(book, manual, index, traffic)
             T == {RouterModelOf(r) : r \in Range(traffic)}
         IN  /\ Apart(N)
             /\ N \subseteq DOMAIN book.prices \cup Indexed(index) \cup T \cup DOMAIN manual
             /\ \A n \in DOMAIN book.prices \cup Indexed(index) \cup DOMAIN manual :
                   \E m \in N : EqualFold(m, n)
  <1> DEFINE N == CatalogueNames(book, manual, index, traffic)
             T == {RouterModelOf(r) : r \in Range(traffic)}
             B == DOMAIN book.prices
             J == Indexed(index)
             M == DOMAIN manual
             s1 == Spelled({}, B)
             s2 == Spelled(s1, J)
             s3 == Spelled(s2, T)
             s4 == Spelled(s3, M)
  <1>1. N = s4
    BY DEF CatalogueNames
  <1> HIDE DEF N, T, B, J, M
  <1>2. Apart({})
    BY DEF Apart
  <1>3. Apart(s1) /\ s1 \subseteq B /\ \A n \in B : \E m \in s1 : EqualFold(m, n)
    BY <1>2, SpelledFacts
  <1> HIDE DEF s1
  <1>4. /\ Apart(s2) /\ s1 \subseteq s2 /\ s2 \subseteq s1 \cup J
        /\ \A n \in J : \E m \in s2 : EqualFold(m, n)
    BY <1>3, SpelledFacts
  <1> HIDE DEF s2
  <1>5. Apart(s3) /\ s2 \subseteq s3 /\ s3 \subseteq s2 \cup T
    BY <1>4, SpelledFacts
  <1> HIDE DEF s3
  <1>6. /\ Apart(s4) /\ s3 \subseteq s4 /\ s4 \subseteq s3 \cup M
        /\ \A n \in M : \E m \in s4 : EqualFold(m, n)
    BY <1>5, SpelledFacts
  <1> HIDE DEF s4
  <1>7. ASSUME NEW n \in B \cup J \cup M
        PROVE  \E m \in s4 : EqualFold(m, n)
    BY <1>3, <1>4, <1>5, <1>6
  <1>8. s4 \subseteq B \cup J \cup T \cup M
    BY <1>3, <1>4, <1>5, <1>6
  <1> QED
    BY <1>1, <1>6, <1>7, <1>8 DEF N, T, B, J, M

\* A row is that of a group whose prices agree, or of one name of another group.
LEMMA CatalogueRows ==
  ASSUME NEW book, NEW manual, NEW index, NEW traffic, NEW row
  PROVE  LET N == CatalogueNames(book, manual, index, traffic)
             G(n) == GroupOf(n, N, book)
             D(n) == DisplayName(G(n))
             Row(n, also) == CatalogueRow(n, also, book, manual, index, traffic)
         IN  row \in Catalogue(book, manual, index, traffic) <=>
                \E n \in N :
                    \/ Merges(G(n), book) /\ row = Row(D(n), G(n) \ {D(n)})
                    \/ ~Merges(G(n), book) /\ \E m \in G(n) : row = Row(m, {})
  <1> DEFINE N == CatalogueNames(book, manual, index, traffic)
             Row(n, also) == CatalogueRow(n, also, book, manual, index, traffic)
  <1>1. row \in Catalogue(book, manual, index, traffic) <=>
           \E n \in N : row \in GroupRows(GroupOf(n, N, book), book, manual, index, traffic)
    BY DEF Catalogue
  <1>2. ASSUME NEW group
        PROVE  row \in GroupRows(group, book, manual, index, traffic) <=>
                  \/ Merges(group, book) /\ row = Row(DisplayName(group), group \ {DisplayName(group)})
                  \/ ~Merges(group, book) /\ \E m \in group : row = Row(m, {})
    BY DEF GroupRows
  <1> QED
    BY <1>1, <1>2, Zenon

\* Each name of the catalogue is in exactly one row of it.
LEMMA NameHasOneRow ==
  ASSUME NEW book, NEW manual, NEW index, NEW traffic,
         \A n \in CatalogueNames(book, manual, index, traffic) : IsName(n),
         NEW m \in CatalogueNames(book, manual, index, traffic)
  PROVE  \E row \in Catalogue(book, manual, index, traffic) :
            /\ m \in Stands(row)
            /\ \A other \in Catalogue(book, manual, index, traffic) :
                  m \in Stands(other) => other = row
  <1> DEFINE N == CatalogueNames(book, manual, index, traffic)
             C == Catalogue(book, manual, index, traffic)
             G(n) == GroupOf(n, N, book)
             Row(n, also) == CatalogueRow(n, also, book, manual, index, traffic)
             D(n) == DisplayName(G(n))
             Joint(n) == Row(D(n), G(n) \ {D(n)})
  <1>1. ASSUME NEW row
        PROVE  row \in C <=>
                  \E n \in N :
                      \/ Merges(G(n), book) /\ row = Joint(n)
                      \/ ~Merges(G(n), book) /\ \E k \in G(n) : row = Row(k, {})
    BY CatalogueRows, SMTT(30)
  <1>2. ASSUME NEW n \in N
        PROVE  n \in G(n) /\ D(n) \in G(n) /\ Stands(Joint(n)) = G(n)
    <2>1. n \in G(n) /\ \A k \in G(n) : IsName(k)
      BY DEF GroupOf
    <2>2. D(n) \in G(n)
      BY <2>1, DisplayNameIsOne
    <2>3. Joint(n).model = D(n) /\ Joint(n).also = G(n) \ {D(n)}
      BY RowNames
    <2> QED
      BY <2>1, <2>2, <2>3 DEF Stands
  <1>3. \A n : Stands(Row(n, {})) = {n}
    BY RowNames DEF Stands
  <1>4. ASSUME NEW n \in N, m \in G(n)
        PROVE  G(n) = G(m)
    BY <1>4 DEF GroupOf
  <1> HIDE DEF N, C, G, Row, D, Joint
  <1>5. CASE Merges(G(m), book)
    <2>1. Joint(m) \in C /\ m \in Stands(Joint(m))
      BY <1>1, <1>2, <1>5 DEF N
    <2>2. ASSUME NEW other \in C, m \in Stands(other)
          PROVE  other = Joint(m)
      <3>1. PICK n \in N :
              \/ Merges(G(n), book) /\ other = Joint(n)
              \/ ~Merges(G(n), book) /\ \E k \in G(n) : other = Row(k, {})
        BY <1>1
      <3>2. m \in G(n)
        BY <1>2, <1>3, <2>2, <3>1
      <3>3. G(n) = G(m)
        BY <1>4, <3>2
      <3> QED
        BY <1>5, <3>1, <3>3 DEF Joint, D
    <2> QED
      BY <2>1, <2>2 DEF C
  <1>6. CASE ~Merges(G(m), book)
    <2>1. Row(m, {}) \in C /\ m \in Stands(Row(m, {}))
      BY <1>1, <1>2, <1>3, <1>6 DEF N
    <2>2. ASSUME NEW other \in C, m \in Stands(other)
          PROVE  other = Row(m, {})
      <3>1. PICK n \in N :
              \/ Merges(G(n), book) /\ other = Joint(n)
              \/ ~Merges(G(n), book) /\ \E k \in G(n) : other = Row(k, {})
        BY <1>1
      <3>2. m \in G(n)
        BY <1>2, <1>3, <2>2, <3>1
      <3>3. G(n) = G(m)
        BY <1>4, <3>2
      <3>4. PICK k \in G(n) : other = Row(k, {})
        BY <1>6, <3>1, <3>3
      <3>5. k = m
        BY <1>3, <2>2, <3>4
      <3> QED
        BY <3>4, <3>5
    <2> QED
      BY <2>1, <2>2 DEF C
  <1> QED
    BY <1>5, <1>6

\* A row stands for names of the catalogue only.
LEMMA RowStandsForNames ==
  ASSUME NEW book, NEW manual, NEW index, NEW traffic,
         \A n \in CatalogueNames(book, manual, index, traffic) : IsName(n),
         NEW row \in Catalogue(book, manual, index, traffic)
  PROVE  Stands(row) \subseteq CatalogueNames(book, manual, index, traffic)
  <1> DEFINE N == CatalogueNames(book, manual, index, traffic)
             G(n) == GroupOf(n, N, book)
             Row(n, also) == CatalogueRow(n, also, book, manual, index, traffic)
             D(n) == DisplayName(G(n))
  <1>1. PICK n \in N :
              \/ Merges(G(n), book) /\ row = Row(D(n), G(n) \ {D(n)})
              \/ ~Merges(G(n), book) /\ \E k \in G(n) : row = Row(k, {})
    BY CatalogueRows
  <1>2. n \in G(n) /\ G(n) \subseteq N
    BY DEF GroupOf
  <1>3. D(n) \in G(n)
    BY <1>2, DisplayNameIsOne
  <1>4. \A k, also : Row(k, also).model = k /\ Row(k, also).also = also
    BY RowNames
  <1> HIDE DEF N, G, Row, D
  <1> QED
    BY <1>1, <1>2, <1>3, <1>4 DEF Stands, N

\* What an answered request for the catalogue has in hand.
LEMMA AnsweredCatalogue ==
  ASSUME StateOK, CatalogueOK, IsAnswer("pricing", "router")
  PROVE  /\ view.book.book = RouterBook
         /\ \A n \in DOMAIN view.book.manual : IsName(n)
         /\ Range(view.matched) \subseteq Range(view.index)
         /\ Range(view.index) \subseteq Routed /\ Range(view.matched) \subseteq Routed
         /\ IsFiniteSet(DOMAIN view.matched) /\ IsFiniteSet(DOMAIN view.index)
         /\ \A i, j \in DOMAIN view.matched : view.matched[i] = view.matched[j] => i = j
  <1>1. req # Idle /\ DOMAIN view = Asked /\ req.kind = "pricing"
    BY DEF IsAnswer, Answered
  <1>2. DOMAIN view = {"book", "matched", "index"}
    BY <1>1, CatalogueNext DEF StateOK, RequestOK
  <1>3. /\ view.book.book = RouterBook
        /\ \A n \in DOMAIN view.book.manual : IsName(n)
        /\ Range(view.matched) \subseteq Range(view.index)
        /\ view.index \in Seq(Routed)
        /\ DOMAIN view.matched = 1 .. Len(view.matched) /\ Len(view.matched) \in Nat
        /\ \A i, j \in DOMAIN view.matched : view.matched[i] = view.matched[j] => i = j
    BY <1>1, <1>2 DEF CatalogueOK
  <1>4. Range(view.index) \subseteq Routed /\ Len(view.index) \in Nat
        /\ DOMAIN view.index = 1 .. Len(view.index)
    BY <1>3 DEF Range
  <1>5. IsFiniteSet(DOMAIN view.matched) /\ IsFiniteSet(DOMAIN view.index)
    BY <1>3, <1>4, PlacesCount
  <1> QED
    BY <1>3, <1>4, <1>5

\* All its names are names.
LEMMA CatalogueIsNames ==
  ASSUME StateOK, CatalogueOK, IsAnswer("pricing", "router")
  PROVE  \A n \in CatalogueNames(view.book.book, view.book.manual, view.index, view.matched) :
            IsName(n)
  <1> DEFINE T == {RouterModelOf(r) : r \in Range(view.matched)}
  <1>1. \A n \in DOMAIN view.book.book.prices \cup DOMAIN view.book.manual : IsName(n)
    BY AnsweredCatalogue, DashboardAssumption
  <1>2. \A r \in Routed : IsName(r.model)
    BY RoutedFacts
  <1>3. \A n \in Indexed(view.index) : IsName(n)
    BY <1>2, AnsweredCatalogue DEF Indexed
  <1>4. \A n \in T : IsName(n)
    BY <1>2, AnsweredCatalogue, UnknownIsName DEF RouterModelOf, Named
  <1> QED
    BY <1>1, <1>3, <1>4, CatalogueNamesFacts

\* Every model of the book, of the traffic ever seen and of the manual prices is in
\* exactly one row of the catalogue: pricingGet (pricing_api.go) loses none and
\* shows none twice, whatever the spellings are and however they are grouped.
THEOREM CatalogueIsComplete == Spec => []CatalogueComplete
  <1>1. ASSUME StateOK, CatalogueOK
        PROVE  CatalogueComplete
    <2> DEFINE book == view.book.book
               manual == view.book.manual
               N == CatalogueNames(book, manual, view.index, view.matched)
               C == Catalogue(book, manual, view.index, view.matched)
               M == {r.model : r \in Range(view.index)} \ {NoName}
    <2> SUFFICES ASSUME IsAnswer("pricing", "router"),
                        NEW n \in DOMAIN book.prices \cup DOMAIN manual \cup M
                 PROVE  \E row \in C :
                           /\ \E m \in Stands(row) : EqualFold(m, n)
                           /\ \A other \in C \ {row} :
                                 \A m \in Stands(other) : ~EqualFold(m, n)
      BY DEF CatalogueComplete, CatalogueView, Stands
    <2>1. \A m \in N : IsName(m)
      BY <1>1, CatalogueIsNames
    <2>2. /\ Apart(N)
          /\ \A m \in DOMAIN book.prices \cup Indexed(view.index) \cup DOMAIN manual :
                \E k \in N : EqualFold(k, m)
      BY CatalogueNamesFacts
    <2>3. \A r \in Range(view.index) : IsName(r.model)
      BY <1>1, AnsweredCatalogue, RoutedFacts
    <2>4. PICK m \in N : EqualFold(m, n)
      <3>1. CASE n \in M
        <4>1. PICK k \in Indexed(view.index) : EqualFold(k, n)
          BY <2>3, <3>1, IndexedCovers
        <4>2. PICK l \in N : EqualFold(l, k)
          BY <2>2
        <4> QED
          BY <4>1, <4>2 DEF EqualFold
      <3>2. CASE n \notin M
        BY <2>2, <3>2
      <3> QED
        BY <3>1, <3>2
    <2>5. PICK row \in C : m \in Stands(row) /\ \A other \in C : m \in Stands(other) => other = row
      BY <2>1, NameHasOneRow
    <2>6. ASSUME NEW other \in C \ {row}, NEW k \in Stands(other), EqualFold(k, n)
          PROVE  FALSE
      <3>1. k \in N
        BY <2>1, RowStandsForNames
      <3>2. k = m
        BY <2>2, <2>4, <2>6, <3>1 DEF Apart, EqualFold
      <3> QED
        BY <2>5, <2>6, <3>2
    <2> QED
      BY <2>4, <2>5, <2>6
  <1> QED
    BY <1>1, StateInvariant, CatalogueInvariant, PTL

\* Rows that differ and are found elsewhere are at least as many there.
LEMMA FoundElsewhere ==
  ASSUME NEW s, NEW t, NEW A, NEW B, IsFiniteSet(B),
         \A i, j \in A : s[i] = s[j] => i = j,
         \A i \in A : \E j \in B : t[j] = s[i]
  PROVE  Cardinality(A) <= Cardinality(B)
  <1> DEFINE f == [i \in A |-> CHOOSE j \in B : t[j] = s[i]]
  <1>1. \A i \in A : f[i] \in B /\ t[f[i]] = s[i]
    OBVIOUS
  <1>2. f \in [A -> B]
    BY <1>1
  <1> HIDE DEF f
  <1>3. f \in Injection(A, B)
    BY <1>1, <1>2 DEF Injection, IsInjective
  <1> QED
    BY <1>3, FS_Injection

\* A row of the catalogue is the row of some name.
LEMMA RowOfName ==
  ASSUME NEW book, NEW manual, NEW index, NEW traffic,
         NEW row \in Catalogue(book, manual, index, traffic)
  PROVE  \E n, also : row = CatalogueRow(n, also, book, manual, index, traffic)
  <1> DEFINE G(n) == GroupOf(n, CatalogueNames(book, manual, index, traffic), book)
             Row(n, also) == CatalogueRow(n, also, book, manual, index, traffic)
  <1>1. \E n :
            \/ row = Row(DisplayName(G(n)), G(n) \ {DisplayName(G(n))})
            \/ \E m \in G(n) : row = Row(m, {})
    BY CatalogueRows
  <1> QED
    BY <1>1

\* In every row but Unknown, the calls of the range are among the calls ever
\* recorded: scanRouterModelIndex (routerstore.go) runs after scanRouterRows, and the
\* router only adds rows.  It skips the calls without a model, which pricingGet files
\* under Unknown, so that row is not covered.
THEOREM LifetimeIsCovering == Spec => []LifetimeCovers
  <1>1. ASSUME StateOK, CatalogueOK
        PROVE  LifetimeCovers
    <2> DEFINE s == view.matched
               t == view.index
    <2> SUFFICES ASSUME IsAnswer("pricing", "router"), NEW row \in CatalogueView,
                        row.model # Unknown
                 PROVE  row.calls <= row.lifetime
      BY DEF LifetimeCovers
    <2>1. PICK n, also : row = CatalogueRow(n, also, view.book.book, view.book.manual, t, s)
      BY RowOfName DEF CatalogueView
    <2> DEFINE A == {i \in DOMAIN s : RouterModelOf(s[i]) = n}
               B == {i \in DOMAIN t : EqualFold(t[i].model, n)}
    <2>2. n # Unknown
      BY <2>1, RowNames
    <2>3. row.calls = Cardinality(A) /\ row.lifetime = Cardinality(B)
      BY <2>1 DEF CatalogueRow, LifetimeCalls
    <2>4. IsFiniteSet(B)
      BY <1>1, AnsweredCatalogue, FS_Subset
    <2>5. \A i, j \in A : s[i] = s[j] => i = j
      BY <1>1, AnsweredCatalogue
    <2>6. ASSUME NEW i \in A
          PROVE  \E j \in B : t[j] = s[i]
      <3>1. s[i] \in Range(s)
        BY DEF Range
      <3>2. s[i] \in Range(t)
        BY <1>1, <3>1, AnsweredCatalogue
      <3>3. PICK j \in DOMAIN t : t[j] = s[i]
        BY <3>2 DEF Range
      <3>4. s[i].model = n
        BY <2>2 DEF RouterModelOf, Named
      <3> QED
        BY <3>3, <3>4 DEF EqualFold
    <2> HIDE DEF A, B
    <2>7. Cardinality(A) <= Cardinality(B)
      BY <2>4, <2>5, <2>6, FoundElsewhere
    <2> QED
      BY <2>3, <2>7
  <1> QED
    BY <1>1, StateInvariant, CatalogueInvariant, PTL

-----------------------------------------------------------------------------
(***************************************************************************)
(* Pages                                                                   *)
(***************************************************************************)

\* A page of the client is a slice, since the client's limit is not clamped.
LEMMA LimitFacts == Limit \in Nat \ {0} /\ Clamp(Limit, PageDefault, PageCap) = Limit
  <1>1. Limit \in Nat \ {0} /\ Limit <= PageCap /\ PageCap \in Int
    BY RequestsAssumption
  <1>2. Min({Limit, PageCap}) = Limit
    BY <1>1, MinOfTwo
  <1> QED
    BY <1>1, <1>2 DEF Clamp

\* The rows a listing is about and the order it shows them in: of the router the
\* scan backwards, of usage.db the newest first and then the greatest id.
PluginRows == {r \in Range(usage) : PageMatches(req.filter, r)}
PluginOrder ==
    {p \in Range(usage) \X Range(usage) :
        p[1].at > p[2].at \/ (p[1].at = p[2].at /\ p[1].id > p[2].id)}
RouterOrder ==
    {p \in Range(router) \X Range(router) : <<p[2], p[1]>> \in ScanOrder(router)}

Matched == IF req.source = "router" THEN RouterRows(req.filter) ELSE PluginRows
ListingOrder == IF req.source = "router" THEN RouterOrder ELSE PluginOrder

\* The query that lists the rows.
Lister == IF req.source = "router" THEN "matched" ELSE "page"

\* WHERE over usage.db.
LEMMA PluginLists ==
  ASSUME StateOK
  PROVE  LET rows == Where(usage, LAMBDA r : PageMatches(req.filter, r))
         IN  Lists(rows, PluginRows, InOrder(usage))
  <1> DEFINE rows == Where(usage, LAMBDA r : PageMatches(req.filter, r))
             X == PluginRows
             I == {i \in DOMAIN usage : usage[i] \in X}
  <1>1. I = {i \in DOMAIN usage : PageMatches(req.filter, usage[i])}
    BY DEF Range, PluginRows
  <1>2. rows = RowsAt(usage, I, Ascending(I))
    BY <1>1 DEF Where
  <1>3. X \in SUBSET Range(usage) /\ usage \in Seq(UsageRows) /\ DistinctIds(usage)
    BY DEF PluginRows, StateOK, TablesOK
  <1> HIDE DEF rows, X
  <1>4. Lists(RowsAt(usage, I, Ascending(I)), X, InOrder(usage))
    BY <1>3, SelectedTable
  <1> QED
    BY <1>2, <1>4 DEF rows, X

\* Ids tell the rows of a table apart.
LEMMA IdsApart ==
  ASSUME NEW S, NEW s \in Seq(S), DistinctIds(s), NEW x \in Range(s), NEW y \in Range(s), x.id = y.id
  PROVE  x = y
  BY DEF DistinctIds, Range

\* ORDER BY timestamp DESC, id DESC.
LEMMA PluginOrderLists ==
  ASSUME StateOK, NEW t, NEW R, Lists(t, PluginRows, R)
  PROVE  Lists(PageOrder(t), PluginRows, PluginOrder)
  <1> DEFINE X == PluginRows
             N == PluginOrder
             I == DOMAIN t
             Earlier(a, b) == a.at > b.at \/ (a.at = b.at /\ a.id > b.id)
             Comes(i, j) == Earlier(t[i], t[j]) \/ (~Earlier(t[j], t[i]) /\ i < j)
             Q == {p \in I \X I : Comes(p[1], p[2])}
  <1>1. X \subseteq Range(usage) /\ usage \in Seq(UsageRows) /\ DistinctIds(usage)
    BY DEF PluginRows, StateOK, TablesOK
  <1>2. \A x \in X : x.at \in Int /\ x.id \in Int
    <2>1. \A x \in Range(usage) : x \in UsageRows
      BY <1>1 DEF Range
    <2> QED
      BY <1>1, <2>1, StoredFacts
  <1>3. \A x, y \in X : x.id = y.id => x = y
    BY <1>1, IdsApart
  <1>4. \A x, y \in X : <<x, y>> \in N <=> x.at > y.at \/ (x.at = y.at /\ x.id > y.id)
    BY <1>1 DEF PluginOrder
  <1>5. Lists(t, X, R)
    OBVIOUS
  <1>6. PageOrder(t) = RowsAt(t, I, Q)
    BY DEF PageOrder, OrderBy
  <1> HIDE DEF X, N
  <1>7. Orders(N, X)
    <2>1. ASSUME NEW x \in X
          PROVE  <<x, x>> \notin N
      BY <1>2, <1>4
    <2>2. ASSUME NEW x \in X, NEW y \in X, x # y
          PROVE  <<x, y>> \in N \/ <<y, x>> \in N
      <3>1. x.id # y.id /\ x.id \in Int /\ y.id \in Int /\ x.at \in Int /\ y.at \in Int
        BY <1>2, <1>3, <2>2
      <3> QED
        BY <1>4, <3>1
    <2>3. ASSUME NEW x \in X, NEW y \in X, NEW z \in X, <<x, y>> \in N, <<y, z>> \in N
          PROVE  <<x, z>> \in N
      <3>1. /\ x.at > y.at \/ (x.at = y.at /\ x.id > y.id)
            /\ y.at > z.at \/ (y.at = z.at /\ y.id > z.id)
        BY <1>4, <2>3
      <3>2. x.at > z.at \/ (x.at = z.at /\ x.id > z.id)
        BY <1>2, <3>1
      <3> QED
        BY <1>4, <3>2
    <2> QED
      BY <2>1, <2>2, <2>3 DEF Orders
  <1>8. I = 1 .. Len(t) /\ (\A i \in I : t[i] \in X) /\ \A i, j \in I : t[i] = t[j] => i = j
    BY <1>5, ListsOnce DEF Range
  <1>9. ASSUME NEW i \in I, NEW j \in I
        PROVE  <<i, j>> \in Q <=> <<t[i], t[j]>> \in N
    <2>1. /\ t[i].at \in Int /\ t[j].at \in Int /\ t[i].id \in Int /\ t[j].id \in Int
          /\ i # j => t[i].id # t[j].id
      BY <1>2, <1>3, <1>8
    <2>2. i = j => ~(i < j)
      BY <1>8
    <2>3. Comes(i, j) <=> Earlier(t[i], t[j])
      BY <2>1, <2>2
    <2>4. Earlier(t[i], t[j]) <=> <<t[i], t[j]>> \in N
      BY <1>4, <1>8
    <2>5. <<i, j>> \in Q <=> Comes(i, j)
      OBVIOUS
    <2> QED
      BY <2>3, <2>4, <2>5
  <1> HIDE DEF Q, I
  <1>10. Lists(RowsAt(t, I, Q), X, N)
    BY <1>5, <1>7, <1>9, SortLists DEF I
  <1> QED
    BY <1>6, <1>10 DEF X, N

\* What the listing query returns, and the page that is cut from it.
LEMMA PageFacts ==
  ASSUME StateOK, req \in Requests
  PROVE  /\ Range(Rows(Lister)) = Matched
         /\ \E t : Lists(t, Matched, ListingOrder) /\ Page(Rows(Lister)) = Slice(t, req.offset, Limit)
  <1> DEFINE rows == Rows(Lister)
  <1>1. CASE req.source = "router"
    <2>1. rows = Matching(req.filter, router)
      BY <1>1 DEF Rows, Lister
    <2>2. Lists(rows, RouterRows(req.filter), ScanOrder(router))
      BY <2>1, MatchingLists
    <2>3. \A x, y \in RouterRows(req.filter) :
             <<x, y>> \in RouterOrder <=> <<y, x>> \in ScanOrder(router)
      BY DEF RouterOrder, RouterRows
    <2>4. Page(rows) = Slice(Reverse(rows), req.offset, Limit)
      BY <1>1, LimitFacts DEF Page, RouterPage
    <2> HIDE DEF rows
    <2>5. Lists(Reverse(rows), RouterRows(req.filter), RouterOrder)
      BY <2>2, <2>3, ReverseLists
    <2>6. Range(rows) = RouterRows(req.filter)
      BY <2>2, ListsOnce
    <2> QED
      BY <1>1, <2>4, <2>5, <2>6 DEF Matched, ListingOrder, rows
  <1>2. CASE req.source # "router"
    <2>1. rows = Where(usage, LAMBDA r : PageMatches(req.filter, r))
      BY <1>2 DEF Rows, Lister
    <2>2. Lists(rows, PluginRows, InOrder(usage))
      BY <2>1, PluginLists
    <2>3. Page(rows) = Slice(PageOrder(rows), req.offset, Limit)
      BY <1>2, LimitFacts DEF Page, ListPage
    <2> HIDE DEF rows
    <2>4. Lists(PageOrder(rows), PluginRows, PluginOrder)
      BY <2>2, PluginOrderLists
    <2>5. Range(rows) = PluginRows
      BY <2>2, ListsOnce
    <2> QED
      BY <1>2, <2>3, <2>4, <2>5 DEF Matched, ListingOrder, rows
  <1> QED
    BY <1>1, <1>2

\* Whatever the client must still see has enough rows before it to be on a page
\* yet to come; and when the last page is there nothing is left.
Selected == Lister \in DOMAIN view
Waiting(n) ==
    \A id \in walk.due \ walk.shown :
        \E r \in Matched : r.id = id /\ Ahead(r, Matched, ListingOrder) >= n
WalkOK ==
    req.kind = "page" =>
        /\ Waiting(IF Selected THEN req.offset + Limit ELSE req.offset)
        /\ Selected /\ LastPage => walk.due \subseteq walk.shown

\* The page that is read now shows what waits before its end.
LEMMA PageShows ==
  ASSUME StateOK, req \in Requests,
         NEW r \in Matched, Ahead(r, Matched, ListingOrder) >= req.offset,
         \/ Ahead(r, Matched, ListingOrder) < req.offset + Limit
         \/ Len(Page(Rows(Lister))) < Limit
  PROVE  r \in Range(Page(Rows(Lister)))
  <1>1. PICK t : Lists(t, Matched, ListingOrder) /\ Page(Rows(Lister)) = Slice(t, req.offset, Limit)
    BY PageFacts
  <1>2. req.offset \in Nat
    BY DEF Requests
  <1> QED
    BY <1>1, <1>2, LimitFacts, SliceLists

\* Numbers before a row are numbers.
LEMMA MatchedAhead ==
  ASSUME StateOK, req \in Requests, NEW r \in Matched
  PROVE  Ahead(r, Matched, ListingOrder) \in Nat
  <1>1. PICK t : Lists(t, Matched, ListingOrder)
    BY PageFacts
  <1>2. IsFiniteSet(Matched) /\ Orders(ListingOrder, Matched)
    BY <1>1 DEF Lists
  <1> QED
    BY <1>2, AheadType

LEMMA QueryKeepsWalk ==
  ASSUME StateOK, WalkOK, Query
  PROVE  WalkOK'
  <1> SUFFICES ASSUME req'.kind = "page"
               PROVE  WalkOK'
    BY DEF WalkOK
  <1> DEFINE q == Plan[Cardinality(DOMAIN view) + 1]
             rows == Rows(Lister)
             n == req.offset + Limit
  <1>1. /\ req \in Requests /\ q \in Asked
        /\ DOMAIN view' = DOMAIN view \cup {q}
        /\ view'[q] = Rows(q)
        /\ \A x \in DOMAIN view : x # q => view'[x] = view[x]
    BY QueryFacts DEF StateOK
  <1>2. UNCHANGED <<usage, router, req>>
    BY DEF Query
  <1>3. /\ Matched' = Matched /\ ListingOrder' = ListingOrder /\ Lister' = Lister
        /\ req.kind = "page" /\ \A s : Page(s)' = Page(s)
    BY <1>2 DEF Matched, ListingOrder, Lister, RouterRows, PluginRows, RouterOrder, PluginOrder, Page
  <1>4. q \in {"page", "matched"} <=> q = Lister
    <2>1. CASE req.source = "router"
      <3>1. Plan = <<"matched">>
        BY <1>3, <2>1 DEF Plan, RouterPlan
      <3>2. Asked = {"matched"}
        BY <3>1 DEF Asked
      <3> HIDE DEF q
      <3> QED
        BY <1>1, <2>1, <3>2 DEF Lister
    <2>2. CASE req.source # "router"
      <3>1. Plan = <<"count", "page">>
        BY <1>3, <2>2 DEF Plan, PluginPlan
      <3>2. Asked = {"count", "page"}
        BY <3>1 DEF Asked
      <3> HIDE DEF q
      <3> QED
        BY <1>1, <2>2, <3>2 DEF Lister
    <2> QED
      BY <2>1, <2>2
  <1>5. walk' = IF q \in {"page", "matched"}
                THEN [due |-> IF req.offset = 0 THEN Ids(Rows(q)) ELSE walk.due,
                      shown |-> walk.shown \cup Ids(Page(Rows(q)))]
                ELSE walk
    BY <1>3 DEF Query
  <1> HIDE DEF q
  <1>6. CASE q # Lister
    <2>1. walk' = walk /\ Selected' = Selected
      BY <1>1, <1>3, <1>4, <1>5, <1>6 DEF Selected
    <2>2. Selected => view'[Lister] = view[Lister]
      BY <1>1, <1>6 DEF Selected
    <2>3. Selected => LastPage' = LastPage
      BY <1>2, <1>3, <2>2 DEF LastPage, Listing, Lister, Page
    <2> QED
      BY <1>2, <1>3, <2>1, <2>3 DEF WalkOK, Waiting
  <1>7. CASE q = Lister
    <2>1. /\ walk'.shown = walk.shown \cup Ids(Page(rows))
          /\ walk'.due = IF req.offset = 0 THEN Ids(rows) ELSE walk.due
      BY <1>4, <1>5, <1>7
    <2>2. Selected' /\ view'[Lister] = rows
      BY <1>1, <1>3, <1>7 DEF Selected
    <2>3. LastPage' <=> Len(Page(rows)) < Limit
      BY <1>2, <1>3, <2>2 DEF LastPage, Listing, Lister, Page
    <2>4. Range(rows) = Matched
      BY <1>1, PageFacts
    <2>5. req.offset \in Nat /\ Limit \in Nat \ {0}
      BY <1>1, LimitFacts DEF Requests
    <2>6. ASSUME NEW id \in walk'.due \ walk'.shown
          PROVE  \E r \in Matched : /\ r.id = id
                                    /\ Ahead(r, Matched, ListingOrder) >= req.offset
                                    /\ r \notin Range(Page(rows))
      <3>1. \A r \in Range(Page(rows)) : r.id # id
        BY <2>1 DEF Ids
      <3>2. CASE req.offset = 0
        <4>1. PICK r \in Matched : r.id = id
          BY <2>1, <2>4, <3>2 DEF Ids
        <4>2. Ahead(r, Matched, ListingOrder) >= req.offset
          BY <1>1, <3>2, MatchedAhead
        <4> QED
          BY <3>1, <4>1, <4>2
      <3>3. CASE req.offset # 0
        <4>1. id \in walk.due \ walk.shown
          BY <2>1, <3>3
        <4>2. PICK r \in Matched : /\ r.id = id
                                   /\ Ahead(r, Matched, ListingOrder) >=
                                         IF Selected THEN req.offset + Limit ELSE req.offset
          BY <1>3, <4>1 DEF WalkOK, Waiting
        <4>3. Ahead(r, Matched, ListingOrder) \in Nat
          BY <1>1, MatchedAhead
        <4>4. Ahead(r, Matched, ListingOrder) >= req.offset
          BY <2>5, <4>2, <4>3
        <4> QED
          BY <3>1, <4>2, <4>4
      <3> QED
        BY <3>2, <3>3
    <2>7. Waiting(n)'
      <3> SUFFICES ASSUME NEW id \in walk'.due \ walk'.shown
                   PROVE  \E r \in Matched : r.id = id /\ Ahead(r, Matched, ListingOrder) >= n
        BY <1>2, <1>3 DEF Waiting
      <3>1. PICK r \in Matched : /\ r.id = id
                                 /\ Ahead(r, Matched, ListingOrder) >= req.offset
                                 /\ r \notin Range(Page(rows))
        BY <2>6
      <3>2. ~(Ahead(r, Matched, ListingOrder) < n)
        BY <1>1, <3>1, PageShows
      <3>3. Ahead(r, Matched, ListingOrder) \in Nat
        BY <1>1, MatchedAhead
      <3> QED
        BY <2>5, <3>1, <3>2, <3>3
    <2>8. ASSUME LastPage'
          PROVE  walk'.due \subseteq walk'.shown
      <3> SUFFICES ASSUME NEW id \in walk'.due \ walk'.shown
                   PROVE  FALSE
        OBVIOUS
      <3>1. PICK r \in Matched : /\ r.id = id
                                 /\ Ahead(r, Matched, ListingOrder) >= req.offset
                                 /\ r \notin Range(Page(rows))
        BY <2>6
      <3> QED
        BY <1>1, <2>3, <2>8, <3>1, PageShows
    <2> QED
      BY <1>2, <2>2, <2>7, <2>8 DEF WalkOK
  <1> QED
    BY <1>6, <1>7

\* Rows that are added move no row forward.
LEMMA GrowingKeepsWalk ==
  ASSUME StateOK, WalkOK, UNCHANGED <<req, view, walk>>,
         Matched \subseteq Matched', IsFiniteSet(Matched'),
         \A x, y \in Matched : <<x, y>> \in ListingOrder => <<x, y>> \in ListingOrder'
  PROVE  WalkOK'
  <1> SUFFICES ASSUME req.kind = "page"
               PROVE  WalkOK'
    BY DEF WalkOK
  <1>1. /\ Lister' = Lister /\ Selected' = Selected /\ LastPage' = LastPage
    BY DEF Lister, Selected, LastPage, Listing, Page
  <1> DEFINE n == IF Selected THEN req.offset + Limit ELSE req.offset
  <1>2. CASE req \notin Requests
    <2>1. req = Idle
      BY <1>2 DEF StateOK, RequestOK
    <2> QED
      BY <2>1 DEF Idle
  <1>3. CASE req \in Requests
    <2>1. n \in Nat
      BY <1>3, LimitFacts DEF Requests
    <2>2. Waiting(n)
      BY DEF WalkOK
    <2> HIDE DEF n
    <2>3. ASSUME NEW id \in walk.due \ walk.shown
          PROVE  \E r \in Matched' : r.id = id /\ Ahead(r, Matched', ListingOrder') >= n
      <3>1. PICK r \in Matched : r.id = id /\ Ahead(r, Matched, ListingOrder) >= n
        BY <2>2 DEF Waiting
      <3>2. Ahead(r, Matched, ListingOrder) <= Ahead(r, Matched', ListingOrder')
        BY AheadGrows
      <3>3. Ahead(r, Matched, ListingOrder) \in Nat
        BY <1>3, MatchedAhead
      <3>4. Ahead(r, Matched', ListingOrder') \in Nat
        <4> DEFINE B == {x \in Matched' : <<x, r>> \in ListingOrder'}
        <4>1. IsFiniteSet(B)
          BY FS_Subset
        <4>2. Cardinality(B) \in Nat
          BY <4>1, FS_CardinalityType
        <4> QED
          BY <4>2 DEF Ahead
      <3> QED
        BY <2>1, <3>1, <3>2, <3>3, <3>4
    <2>4. \A id \in walk'.due \ walk'.shown :
             \E r \in Matched' : r.id = id /\ Ahead(r, Matched', ListingOrder') >= n
      BY <2>3
    <2>5. n = IF Selected' THEN req'.offset + Limit ELSE req'.offset
      BY <1>1 DEF n
    <2>6. Selected' /\ LastPage' => walk'.due \subseteq walk'.shown
      BY <1>1 DEF WalkOK
    <2> QED
      BY <2>4, <2>5, <2>6 DEF WalkOK, Waiting
  <1> QED
    BY <1>2, <1>3

LEMMA InsertKeepsWalk ==
  ASSUME StateOK, WalkOK, NEW c \in Calls, Insert(c)
  PROVE  WalkOK'
  <1> DEFINE r == Stored(Reported(c))
  <1>1. r \in UsageRows /\ r.id = c.id
    BY StoredId DEF UsageRows
  <1> HIDE DEF r
  <1>2. usage' = Append(usage, r) /\ r.id \notin Ids(usage) /\ UNCHANGED <<req, view, walk, router>>
    BY <1>1 DEF Insert, Written, r
  <1>3. usage' \in Seq(UsageRows) /\ Range(usage) \subseteq Range(usage')
    BY <1>1, <1>2, AppendRow DEF StateOK, TablesOK
  <1>4. IsFiniteSet(Range(usage')) /\ IsFiniteSet(Range(router))
    BY <1>3, RangeFinite DEF StateOK, TablesOK
  <1>5. CASE req.source = "router"
    <2>1. Matched' = Matched /\ ListingOrder' = ListingOrder
      BY <1>2, <1>5 DEF Matched, ListingOrder, RouterRows, RouterOrder
    <2>2. IsFiniteSet(Matched)
      BY <1>4, <1>5, FS_Subset DEF Matched, RouterRows
    <2> QED
      BY <1>2, <2>1, <2>2, GrowingKeepsWalk
  <1>6. CASE req.source # "router"
    <2>1. Matched \subseteq Matched' /\ Matched' \in SUBSET Range(usage')
      BY <1>2, <1>3, <1>6 DEF Matched, PluginRows
    <2>2. IsFiniteSet(Matched')
      BY <1>4, <2>1, FS_Subset
    <2>3. \A x, y \in Matched : <<x, y>> \in ListingOrder => <<x, y>> \in ListingOrder'
      BY <1>2, <1>3, <1>6 DEF ListingOrder, PluginOrder
    <2> QED
      BY <1>2, <2>1, <2>2, <2>3, GrowingKeepsWalk
  <1> QED
    BY <1>5, <1>6

LEMMA InsertRoutedKeepsWalk ==
  ASSUME StateOK, WalkOK, NEW c \in Routed, InsertRouted(c)
  PROVE  WalkOK'
  <1>1. router' = Append(router, c) /\ c.id \notin Ids(router) /\ UNCHANGED <<req, view, walk, usage>>
    BY DEF InsertRouted, Written
  <1>2. /\ router' \in Seq(Routed) /\ Range(router) \subseteq Range(router')
        /\ \A x, y \in Range(router) : <<x, y>> \in InOrder(router') <=> <<x, y>> \in InOrder(router)
    BY <1>1, AppendRow DEF StateOK, TablesOK
  <1>3. IsFiniteSet(Range(router')) /\ IsFiniteSet(Range(usage))
    BY <1>2, RangeFinite DEF StateOK, TablesOK
  <1>4. CASE req.source = "router"
    <2>1. /\ Matched \subseteq Matched' /\ Matched' \in SUBSET Range(router')
          /\ Matched \subseteq Range(router)
      BY <1>1, <1>2, <1>4 DEF Matched, RouterRows
    <2>2. IsFiniteSet(Matched')
      BY <1>3, <2>1, FS_Subset
    <2>3. ASSUME NEW x \in Matched, NEW y \in Matched, <<x, y>> \in ListingOrder
          PROVE  <<x, y>> \in ListingOrder'
      <3>1. <<y, x>> \in ScanOrder(router)
        BY <1>4, <2>3 DEF ListingOrder, RouterOrder
      <3>2. <<y, x>> \in ScanOrder(router')
        BY <1>2, <2>1, <3>1 DEF ScanOrder
      <3> QED
        BY <1>1, <1>2, <1>4, <2>1, <3>2 DEF ListingOrder, RouterOrder
    <2> QED
      BY <1>1, <2>1, <2>2, <2>3, GrowingKeepsWalk
  <1>5. CASE req.source # "router"
    <2>1. Matched' = Matched /\ ListingOrder' = ListingOrder
      BY <1>1, <1>5 DEF Matched, ListingOrder, PluginRows, PluginOrder
    <2>2. IsFiniteSet(Matched)
      BY <1>3, <1>5, FS_Subset DEF Matched, PluginRows
    <2> QED
      BY <1>1, <2>1, <2>2, GrowingKeepsWalk
  <1> QED
    BY <1>4, <1>5

\* A page that is answered has its rows.
LEMMA AnsweredPage ==
  ASSUME Answered, req.kind = "page"
  PROVE  Selected
  <1>1. DOMAIN view = Asked
    BY DEF Answered
  <1>2. CASE req.source = "router"
    <2>1. Plan = <<"matched">>
      BY <1>2 DEF Plan, RouterPlan
    <2>2. Asked = {"matched"}
      BY <2>1 DEF Asked
    <2> QED
      BY <1>1, <1>2, <2>2 DEF Selected, Lister
  <1>3. CASE req.source # "router"
    <2>1. Plan = <<"count", "page">>
      BY <1>3 DEF Plan, PluginPlan
    <2>2. Asked = {"count", "page"}
      BY <2>1 DEF Asked
    <2> QED
      BY <1>1, <1>3, <2>2 DEF Selected, Lister
  <1> QED
    BY <1>2, <1>3

LEMMA NextWalkOK ==
  ASSUME StateOK, WalkOK, [Next]_vars
  PROVE  WalkOK'
  <1>1. ASSUME NEW c \in Calls, Insert(c)
        PROVE  WalkOK'
    BY <1>1, InsertKeepsWalk
  <1>2. ASSUME NEW c \in Routed, InsertRouted(c)
        PROVE  WalkOK'
    BY <1>2, InsertRoutedKeepsWalk
  <1>3. ASSUME walk' = NoWalk
        PROVE  WalkOK'
    BY <1>3 DEF WalkOK, Waiting, NoWalk
  <1>4. ASSUME NEW id, Delete(id)
        PROVE  walk' = NoWalk
    BY <1>4 DEF Delete
  <1>5. Install \/ Finish => walk' = NoWalk
    BY DEF Install, Finish
  <1>6. ASSUME NEW kind \in Kinds, NEW f \in Filters, NEW forced \in BOOLEAN,
               Begin(kind, f, forced)
        PROVE  walk' = NoWalk
    BY <1>6, BeginFacts, IdleIsNone DEF StateOK, RequestOK
  <1>7. ASSUME UNCHANGED <<usage, router, req, view, walk>>
        PROVE  WalkOK'
    <2>1. Matched' = Matched /\ ListingOrder' = ListingOrder
      BY <1>7 DEF Matched, ListingOrder, RouterRows, PluginRows, RouterOrder, PluginOrder
    <2>2. Selected' = Selected /\ LastPage' = LastPage
      BY <1>7 DEF Selected, Lister, LastPage, Listing, Page
    <2> QED
      BY <1>7, <2>1, <2>2 DEF WalkOK, Waiting
  <1>8. ASSUME NEW list, PutPrices(list)
        PROVE  UNCHANGED <<usage, router, req, view, walk>>
    BY <1>8 DEF PutPrices, Written
  <1>9. CASE Query
    BY <1>9, QueryKeepsWalk
  <1>10. CASE NextPage
    <2>1. /\ req # Idle /\ DOMAIN view = Asked /\ req.kind = "page"
          /\ req' = [req EXCEPT !.offset = @ + Limit] /\ view' = <<>>
          /\ UNCHANGED <<usage, router, walk>>
      BY <1>10 DEF NextPage, Answered
    <2>2. req \in Requests
      BY <2>1 DEF StateOK, RequestOK
    <2>3. /\ req'.offset = req.offset + Limit /\ req'.source = req.source
          /\ req'.filter = req.filter
      BY <2>1, <2>2 DEF Requests
    <2>4. Selected
      BY <1>10, <2>1, AnsweredPage DEF NextPage
    <2>5. ~Selected'
      BY <2>1 DEF Selected
    <2>6. Matched' = Matched /\ ListingOrder' = ListingOrder
      BY <2>1, <2>3 DEF Matched, ListingOrder, RouterRows, PluginRows, RouterOrder, PluginOrder
    <2>7. Waiting(req.offset + Limit)
      BY <2>1, <2>4 DEF WalkOK
    <2> QED
      BY <2>1, <2>3, <2>5, <2>6, <2>7 DEF WalkOK, Waiting
  <1>11. CASE UNCHANGED vars
    BY <1>7, <1>11 DEF vars
  <1> QED
    BY <1>1, <1>2, <1>3, <1>4, <1>5, <1>6, <1>7, <1>8, <1>9, <1>10, <1>11 DEF Next

\* A client that pages until a page is not full has seen every row that matched
\* when it began: rows inserted before and between its pages only push rows to
\* later pages (ListPage and RouterPage, LIMIT and OFFSET over a moving table).
THEOREM PagesAreCovering == Spec => []PagesCover
  <1>1. Init => WalkOK
    BY DEF Init, Idle, WalkOK
  <1>2. ASSUME StateOK, WalkOK
        PROVE  PagesCover
    <2> SUFFICES ASSUME Answered, req.kind = "page", LastPage
                 PROVE  walk.due \subseteq walk.shown
      BY DEF PagesCover
    <2>1. Selected
      BY AnsweredPage
    <2> QED
      BY <1>2, <2>1 DEF WalkOK
  <1> QED
    BY <1>1, <1>2, NextWalkOK, StateInvariant, PTL DEF Spec

-----------------------------------------------------------------------------
(***************************************************************************)
(* The greatest numbers of a sequence, kept in one pass                    *)
(***************************************************************************)

\* How many numbers of xs are at least v.
Reaching(xs, v) == Cardinality({i \in DOMAIN xs : xs[i] >= v})

\* t holds the greatest ones of xs, in falling order: its k-th is at least v
\* exactly when k numbers of xs are.
Tops(t, xs) ==
    /\ t \in Seq(Int)
    /\ \A k \in 1 .. Len(t), v \in Int : t[k] >= v <=> Reaching(xs, v) >= k

LEMMA ReachingType ==
  ASSUME NEW xs \in Seq(Int), NEW v \in Int
  PROVE  /\ Reaching(xs, v) \in 0 .. Len(xs)
         /\ IsFiniteSet({i \in DOMAIN xs : xs[i] >= v})
  <1> DEFINE A == {i \in DOMAIN xs : xs[i] >= v}
  <1>1. DOMAIN xs = 1 .. Len(xs) /\ Len(xs) \in Nat
    OBVIOUS
  <1>2. IsFiniteSet(DOMAIN xs) /\ Cardinality(DOMAIN xs) = Len(xs)
    BY <1>1, PlacesCount
  <1>3. IsFiniteSet(A) /\ Cardinality(A) <= Cardinality(DOMAIN xs)
    BY <1>2, FS_Subset
  <1>4. Cardinality(A) \in Nat
    BY <1>3, FS_CardinalityType
  <1> QED
    BY <1>1, <1>2, <1>3, <1>4 DEF Reaching

\* Two such lists of one length are the same.
LEMMA TopsSame ==
  ASSUME NEW xs, NEW ys, \A v \in Int : Reaching(xs, v) = Reaching(ys, v),
         NEW t, Tops(t, xs), NEW u, Tops(u, ys), Len(t) = Len(u)
  PROVE  t = u
  <1>1. t \in Seq(Int) /\ u \in Seq(Int)
    BY DEF Tops
  <1>2. ASSUME NEW k \in 1 .. Len(t)
        PROVE  t[k] = u[k]
    <2>1. t[k] \in Int /\ u[k] \in Int
      BY <1>1
    <2>2. u[k] >= t[k]
      <3>1. t[k] >= t[k] /\ k \in 1 .. Len(u)
        BY <1>2, <2>1
      <3>2. Reaching(xs, t[k]) >= k
        BY <1>2, <2>1, <3>1 DEF Tops
      <3>3. Reaching(ys, t[k]) >= k
        BY <2>1, <3>2
      <3> QED
        BY <2>1, <3>1, <3>3 DEF Tops
    <2>3. t[k] >= u[k]
      <3>1. u[k] >= u[k] /\ k \in 1 .. Len(u)
        BY <1>2, <2>1
      <3>2. Reaching(ys, u[k]) >= k
        BY <2>1, <3>1 DEF Tops
      <3>3. Reaching(xs, u[k]) >= k
        BY <2>1, <3>2
      <3> QED
        BY <1>2, <2>1, <3>3 DEF Tops
    <2> QED
      BY <2>1, <2>2, <2>3
  <1>3. t = [k \in 1 .. Len(t) |-> t[k]] /\ u = [k \in 1 .. Len(t) |-> u[k]]
    BY <1>1
  <1> QED
    BY <1>2, <1>3

\* Sorting a sequence puts its greatest numbers first.
LEMMA FallingTops ==
  ASSUME NEW xs \in Seq(Int)
  PROVE  Tops(Falling(xs), xs) /\ Len(Falling(xs)) = Len(xs)
  <1> DEFINE I == DOMAIN xs
             Comes(i, j) == xs[i] > xs[j] \/ (~(xs[j] > xs[i]) /\ i < j)
             Q == {p \in I \X I : Comes(p[1], p[2])}
             a == Arranged(I, Q)
             n == Len(xs)
             t == Falling(xs)
  <1>1. I = 1 .. n /\ n \in Nat /\ IsFiniteSet(I) /\ Cardinality(I) = n
    BY PlacesCount
  <1>2. \A i \in I : xs[i] \in Int /\ i \in Int
    OBVIOUS
  <1>3. t = [k \in DOMAIN a |-> xs[a[k]]]
    BY DEF Falling, OrderBy, RowsAt
  <1>4. \A i, j \in I : <<i, j>> \in Q <=> xs[i] > xs[j] \/ (xs[i] = xs[j] /\ i < j)
    BY <1>2
  <1> HIDE DEF Q, I, n
  <1>5. Orders(Q, I)
    <2>1. \A i \in I : <<i, i>> \notin Q
      BY <1>2, <1>4
    <2>2. ASSUME NEW i \in I, NEW j \in I, i # j
          PROVE  <<i, j>> \in Q \/ <<j, i>> \in Q
      <3>1. \/ xs[i] > xs[j] \/ (xs[i] = xs[j] /\ i < j)
            \/ xs[j] > xs[i] \/ (xs[j] = xs[i] /\ j < i)
        BY <1>2, <2>2
      <3> QED
        BY <1>4, <3>1
    <2>3. ASSUME NEW i \in I, NEW j \in I, NEW k \in I, <<i, j>> \in Q, <<j, k>> \in Q
          PROVE  <<i, k>> \in Q
      <3>1. /\ xs[i] > xs[j] \/ (xs[i] = xs[j] /\ i < j)
            /\ xs[j] > xs[k] \/ (xs[j] = xs[k] /\ j < k)
        BY <1>4, <2>3
      <3>2. xs[i] > xs[k] \/ (xs[i] = xs[k] /\ i < k)
        BY <1>2, <3>1
      <3> QED
        BY <1>4, <3>2
    <2> QED
      BY <2>1, <2>2, <2>3 DEF Orders
  <1>6. /\ DOMAIN a = 1 .. n
        /\ \A k \in 1 .. n : a[k] \in I /\ Ahead(a[k], I, Q) = k - 1
    BY <1>1, <1>5, ArrangedFacts
  <1> HIDE DEF a, t
  <1>7. t \in Seq(Int) /\ Len(t) = n /\ \A k \in 1 .. n : t[k] = xs[a[k]]
    <2>1. \A k \in 1 .. n : xs[a[k]] \in Int
      BY <1>2, <1>6
    <2>2. t = [k \in 1 .. n |-> xs[a[k]]]
      BY <1>3, <1>6
    <2>3. t \in [1 .. n -> Int]
      BY <2>1, <2>2
    <2> QED
      BY <1>1, <2>2, <2>3
  <1>8. ASSUME NEW k \in 1 .. n, NEW v \in Int
        PROVE  t[k] >= v <=> Reaching(xs, v) >= k
    <2> DEFINE A == {j \in I : <<j, a[k]>> \in Q}
               B == {j \in I : xs[j] >= v}
    <2>1. a[k] \in I /\ k \in Int /\ Cardinality(A) = k - 1
      BY <1>1, <1>6 DEF Ahead
    <2>2. IsFiniteSet(A) /\ IsFiniteSet(B) /\ a[k] \notin A
      BY <1>1, <1>5, <2>1, FS_Subset DEF Orders
    <2>3. Cardinality(B) \in Nat
      BY <2>2, FS_CardinalityType
    <2>4. Reaching(xs, v) = Cardinality(B)
      BY DEF Reaching, I
    <2>5. ASSUME xs[a[k]] >= v
          PROVE  Cardinality(B) >= k
      <3>1. A \cup {a[k]} \subseteq B
        <4>1. ASSUME NEW j \in I, <<j, a[k]>> \in Q
              PROVE  xs[j] >= v
          <5>1. xs[j] >= xs[a[k]] /\ xs[j] \in Int /\ xs[a[k]] \in Int
            BY <1>2, <1>4, <2>1, <4>1
          <5> QED
            BY <2>5, <5>1
        <4> QED
          BY <2>1, <2>5, <4>1
      <3>2. Cardinality(A \cup {a[k]}) = (k - 1) + 1
        BY <2>1, <2>2, FS_AddElement
      <3>3. Cardinality(A \cup {a[k]}) <= Cardinality(B)
        BY <2>2, <3>1, FS_Subset
      <3> QED
        BY <2>1, <2>3, <3>2, <3>3
    <2>6. ASSUME ~(xs[a[k]] >= v)
          PROVE  ~(Cardinality(B) >= k)
      <3>1. B \subseteq A
        BY <1>2, <1>4, <2>1, <2>6
      <3>2. Cardinality(B) <= Cardinality(A)
        BY <2>2, <3>1, FS_Subset
      <3> QED
        BY <2>1, <2>3, <3>2
    <2> QED
      BY <1>7, <2>4, <2>5, <2>6
  <1> QED
    BY <1>7, <1>8 DEF Tops, t, n

\* The first page of a sequence is its beginning.
LEMMA SliceStart ==
  ASSUME NEW S, NEW s \in Seq(S), NEW c \in Nat
  PROVE  /\ Slice(s, 0, c) \in Seq(S)
         /\ Len(Slice(s, 0, c)) = IF c <= Len(s) THEN c ELSE Len(s)
         /\ \A k \in 1 .. Len(Slice(s, 0, c)) : k \in 1 .. Len(s) /\ Slice(s, 0, c)[k] = s[k]
  <1> DEFINE n == Len(s)
             hi == IF c <= n THEN c ELSE n
             t == Slice(s, 0, c)
  <1>1. n \in Nat /\ DOMAIN s = 1 .. n /\ hi \in Nat /\ hi <= n
    OBVIOUS
  <1>2. t = SubSeq(s, 1, hi)
    <2> DEFINE lo == Max({0, 0})
    <2>1. t = SubSeq(s, lo + 1, Min({lo + c, Len(s)}))
      BY DEF Slice
    <2>2. lo = 0
      BY MaxOfTwo
    <2> HIDE DEF lo, t
    <2>3. lo + c = c /\ lo + 1 = 1
      BY <2>2
    <2>4. Min({c, Len(s)}) = hi
      BY <1>1, MinOfTwo
    <2> QED
      BY <2>1, <2>3, <2>4
  <1>3. t = [k \in 1 .. hi |-> s[k]]
    BY <1>1, <1>2
  <1> HIDE DEF t, hi
  <1>4. t \in [1 .. hi -> S]
    BY <1>1, <1>3
  <1>5. t \in Seq(S) /\ Len(t) = hi
    BY <1>1, <1>3, <1>4
  <1>6. \A k \in 1 .. hi : k \in 1 .. n /\ t[k] = s[k]
    BY <1>1, <1>3
  <1> QED
    BY <1>5, <1>6 DEF t, hi

\* A number that is added counts where it reaches.
LEMMA AppendReaching ==
  ASSUME NEW xs \in Seq(Int), NEW x \in Int, NEW v \in Int
  PROVE  Reaching(Append(xs, x), v) = Reaching(xs, v) + (IF x >= v THEN 1 ELSE 0)
  <1> DEFINE ys == Append(xs, x)
             n == Len(xs)
             A == {i \in DOMAIN xs : xs[i] >= v}
             B == {i \in DOMAIN ys : ys[i] >= v}
  <1>1. /\ n \in Nat /\ DOMAIN xs = 1 .. n /\ DOMAIN ys = 1 .. n + 1
        /\ ys[n + 1] = x /\ \A i \in 1 .. n : ys[i] = xs[i]
    OBVIOUS
  <1>2. IsFiniteSet(A) /\ Reaching(xs, v) \in Int
    <2>1. Reaching(xs, v) \in 0 .. Len(xs)
      BY ReachingType
    <2>2. IsFiniteSet(A)
      BY ReachingType
    <2> QED
      BY <1>1, <2>1, <2>2
  <1>3. Reaching(ys, v) = Cardinality(B) /\ Reaching(xs, v) = Cardinality(A)
    BY DEF Reaching
  <1> HIDE DEF ys
  <1>4. n + 1 \notin A
    BY <1>1
  <1>5. CASE x >= v
    <2>1. B = A \cup {n + 1}
      BY <1>1, <1>5
    <2>2. Cardinality(A \cup {n + 1}) = Cardinality(A) + 1
      BY <1>2, <1>4, FS_AddElement
    <2> HIDE DEF A, B
    <2> QED
      BY <1>2, <1>3, <1>5, <2>1, <2>2 DEF ys
  <1>6. CASE ~(x >= v)
    <2>1. B = A
      BY <1>1, <1>6
    <2> HIDE DEF A, B
    <2> QED
      BY <1>2, <1>3, <1>6, <2>1 DEF ys
  <1> QED
    BY <1>5, <1>6

\* The greatest numbers reach as far as all of them do, as long as they last.
LEMMA TopsReaching ==
  ASSUME NEW xs \in Seq(Int), NEW t, Tops(t, xs), NEW v \in Int
  PROVE  Reaching(t, v) = IF Reaching(xs, v) <= Len(t) THEN Reaching(xs, v) ELSE Len(t)
  <1> DEFINE R == Reaching(xs, v)
             L == Len(t)
             m == IF R <= L THEN R ELSE L
             A == {i \in DOMAIN t : t[i] >= v}
  <1>1. R \in Nat /\ L \in Nat /\ DOMAIN t = 1 .. L
    <2>1. t \in Seq(Int)
      BY DEF Tops
    <2>2. Reaching(xs, v) \in 0 .. Len(xs)
      BY ReachingType
    <2>3. Len(xs) \in Nat
      OBVIOUS
    <2> QED
      BY <2>1, <2>2, <2>3
  <1>2. \A k \in 1 .. L : t[k] >= v <=> R >= k
    BY DEF Tops
  <1> HIDE DEF R, L
  <1>3. A = 1 .. m /\ m \in Nat
    BY <1>1, <1>2
  <1>4. Cardinality(1 .. m) = m
    BY <1>3, PlacesCount
  <1> QED
    BY <1>3, <1>4 DEF Reaching, R, L

\* The list that keeps the greatest numbers seen so far.
TopList(t, xs) ==
    Tops(t, xs) /\ Len(t) = IF SlowestCap <= Len(xs) THEN SlowestCap ELSE Len(xs)

\* Taking in one more number keeps the greatest ones.
LEMMA KeepTops ==
  ASSUME NEW xs \in Seq(Int), NEW x \in Int, NEW top, TopList(top, xs)
  PROVE  TopList(Keep(top, x), Append(xs, x))
  <1> DEFINE c == SlowestCap
             n == Len(xs)
             L == Len(top)
             ys == Append(xs, x)
             e(v) == IF x >= v THEN 1 ELSE 0
  <1>1. /\ top \in Seq(Int) /\ L \in Nat /\ n \in Nat /\ c \in Nat /\ c # 0
        /\ L = IF c <= n THEN c ELSE n
    BY CapsAssumption DEF TopList, Tops
  <1>2. ys \in Seq(Int) /\ Len(ys) = n + 1
    OBVIOUS
  <1>3. ASSUME NEW v \in Int
        PROVE  Reaching(ys, v) = Reaching(xs, v) + e(v) /\ Reaching(xs, v) \in 0 .. n
    <2>1. Reaching(ys, v) = Reaching(xs, v) + e(v)
      BY AppendReaching
    <2>2. Reaching(xs, v) \in 0 .. n
      BY ReachingType
    <2> QED
      BY <2>1, <2>2
  <1>4. CASE L < c \/ x > Last(top)
    <2> DEFINE all == Append(top, x)
               u == Falling(all)
               t == Slice(u, 0, c)
    <2>1. Keep(top, x) = t
      BY <1>4 DEF Keep
    <2>2. all \in Seq(Int) /\ Len(all) = L + 1
      BY <1>1
    <2>3. \A v \in Int : Reaching(all, v) = Reaching(top, v) + e(v)
      BY <1>1, AppendReaching
    <2>4. \A v \in Int : Reaching(top, v) = IF Reaching(xs, v) <= L THEN Reaching(xs, v) ELSE L
      BY TopsReaching DEF TopList
    <2> HIDE DEF all
    <2>5. u \in Seq(Int) /\ Len(u) = L + 1
          /\ \A k \in 1 .. L + 1, v \in Int : u[k] >= v <=> Reaching(all, v) >= k
      BY <2>2, FallingTops DEF Tops
    <2> HIDE DEF u, L, n, c, ys
    <2>6. /\ t \in Seq(Int) /\ Len(t) = IF c <= L + 1 THEN c ELSE L + 1
          /\ \A k \in 1 .. Len(t) : k \in 1 .. L + 1 /\ t[k] = u[k]
      BY <1>1, <2>5, SliceStart
    <2> HIDE DEF t
    <2>7. ASSUME NEW k \in 1 .. Len(t), NEW v \in Int
          PROVE  t[k] >= v <=> Reaching(ys, v) >= k
      <3>1. k \in 1 .. L + 1 /\ k <= c /\ t[k] = u[k]
        BY <1>1, <2>6
      <3>2. t[k] >= v <=> Reaching(all, v) >= k
        BY <2>5, <3>1
      <3> DEFINE R == Reaching(xs, v)
      <3>3. R \in 0 .. n /\ Reaching(ys, v) = R + e(v)
        BY <1>3
      <3>4. Reaching(all, v) = (IF R <= L THEN R ELSE L) + e(v)
        BY <2>3, <2>4
      <3> HIDE DEF R
      <3>5. (IF R <= L THEN R ELSE L) + e(v) >= k <=> R + e(v) >= k
        BY <1>1, <3>1, <3>3
      <3> QED
        BY <3>2, <3>3, <3>4, <3>5
    <2>8. Len(t) = IF c <= n + 1 THEN c ELSE n + 1
      BY <1>1, <2>6
    <2> QED
      BY <1>2, <2>1, <2>6, <2>7, <2>8 DEF TopList, Tops, ys, c, n
  <1>5. CASE ~(L < c \/ x > Last(top))
    <2>1. Keep(top, x) = top
      BY <1>5 DEF Keep
    <2>2. L = c /\ L \in 1 .. L /\ c <= n /\ top[L] \in Int /\ x <= top[L]
      BY <1>1, <1>5 DEF Last
    <2>3. ASSUME NEW k \in 1 .. L, NEW v \in Int
          PROVE  top[k] >= v <=> Reaching(ys, v) >= k
      <3>1. top[k] >= v <=> Reaching(xs, v) >= k
        BY DEF TopList, Tops
      <3>2. top[L] >= v <=> Reaching(xs, v) >= L
        BY <2>2 DEF TopList, Tops
      <3>3. Reaching(ys, v) = Reaching(xs, v) + e(v) /\ Reaching(xs, v) \in 0 .. n
        BY <1>3
      <3>4. x >= v => Reaching(xs, v) >= L
        BY <2>2, <3>2
      <3> QED
        BY <1>1, <3>1, <3>3, <3>4
    <2> QED
      BY <1>1, <1>2, <2>1, <2>2, <2>3 DEF TopList, Tops
  <1> QED
    BY <1>4, <1>5

\* The list that is kept is one of numbers.
LEMMA KeepType ==
  ASSUME NEW top \in Seq(Int), NEW x \in Int
  PROVE  Keep(top, x) \in Seq(Int)
  <1> DEFINE all == Append(top, x)
             u == Falling(all)
  <1>1. all \in Seq(Int)
    OBVIOUS
  <1> HIDE DEF all
  <1>2. u \in Seq(Int)
    BY <1>1, FallingTops DEF Tops
  <1> HIDE DEF u
  <1>3. Slice(u, 0, SlowestCap) \in Seq(Int)
    BY <1>2, CapsAssumption, SliceStart
  <1> QED
    BY <1>3 DEF Keep, u, all

\* The loop over the rows takes in one number after the other.
LEMMA KeptSteps ==
  ASSUME NEW xs \in Seq(Int)
  PROVE  \E h : /\ h[{}] = <<>>
                /\ \A n \in 1 .. Len(xs) : h[1 .. n] = Keep(h[1 .. n - 1], xs[n])
                /\ FoldLeft(Keep, <<>>, xs) = h[1 .. Len(xs)]
  <1> DEFINE D == DOMAIN xs
             V == Seq(Int)
             pick == [s \in SUBSET D |-> Max(s)]
             step == [i \in D |-> [v \in V |-> Keep(v, xs[i])]]
             F(g) == [s \in SUBSET D |->
                         IF s = {} THEN <<>> ELSE Keep(g[s \ {Max(s)}], xs[Max(s)])]
             iter == CHOOSE g : g = F(g)
  <1>1. FoldLeft(Keep, <<>>, xs) = iter[D]
    BY DEF FoldLeft, MapThenFoldSet
  <1>2. D = 1 .. Len(xs) /\ Len(xs) \in Nat /\ IsFiniteSet(D)
    BY PlacesCount
  <1>3. ASSUME NEW s \in SUBSET D, s # {}
        PROVE  Max(s) \in s
    <2>1. s \in SUBSET (0 .. Len(xs))
      BY <1>2
    <2> QED
      BY <1>2, <1>3, <2>1, GreatestNumber
  <1>4. ASSUME NEW i \in D, NEW v \in V
        PROVE  Keep(v, xs[i]) \in V
    <2>1. xs[i] \in Int /\ v \in Seq(Int)
      OBVIOUS
    <2> QED
      BY <2>1, KeepType
  <1>5. <<>> \in V
    OBVIOUS
  <1> HIDE DEF V, D
  <1>6. PICK h \in [SUBSET D -> V] : Folds(h, D, <<>>, pick, step)
    <2>1. \A s \in SUBSET D : s # {} => pick[s] \in s
      BY <1>3
    <2>2. \A i \in D, v \in V : step[i][v] \in V
      BY <1>4
    <2> HIDE DEF pick, step
    <2> QED
      BY <1>2, <1>5, <2>1, <2>2, FoldExists
  <1>7. h = F(h)
    <2>1. ASSUME NEW s \in SUBSET D
          PROVE  h[s] = F(h)[s]
      <3>1. s = {} => h[s] = <<>>
        BY <1>6 DEF Folds
      <3>2. ASSUME s # {}
            PROVE  h[s] = Keep(h[s \ {Max(s)}], xs[Max(s)])
        <4>1. Max(s) \in D /\ pick[s] = Max(s) /\ s \ {Max(s)} \in SUBSET D
          BY <1>3, <3>2
        <4>2. h[s] = step[Max(s)][h[s \ {Max(s)}]]
          BY <1>6, <3>2, <4>1 DEF Folds
        <4> QED
          BY <1>6, <4>1, <4>2
      <3> QED
        BY <3>1, <3>2
    <2> QED
      BY <1>6, <2>1
  <1>8. iter = F(iter)
    BY <1>7
  <1> HIDE DEF iter, pick, step
  <1>9. iter[{}] = <<>>
    BY <1>8
  <1>10. ASSUME NEW n \in 1 .. Len(xs)
         PROVE  iter[1 .. n] = Keep(iter[1 .. n - 1], xs[n])
    <2> DEFINE s == 1 .. n
    <2>1. n \in Nat /\ s \in SUBSET Nat /\ n \in s /\ \A y \in s : n >= y
      OBVIOUS
    <2>2. s \in SUBSET D /\ s # {}
      <3>1. D = 1 .. Len(xs) /\ Len(xs) \in Nat
        BY <1>2
      <3>2. n \in Int /\ n <= Len(xs)
        BY <3>1
      <3>3. \A y \in s : y \in Int /\ 1 <= y /\ y <= Len(xs)
        BY <3>1, <3>2
      <3> HIDE DEF s
      <3>4. \A y \in s : y \in D
        BY <3>1, <3>3
      <3> QED
        BY <2>1, <3>4
    <2>3. s \ {n} = 1 .. n - 1
      BY <2>1
    <2> HIDE DEF s
    <2>4. Max(s) = n
      BY <2>1, GreatestIs
    <2>5. iter[s] = Keep(iter[s \ {Max(s)}], xs[Max(s)])
      BY <1>8, <2>2
    <2> QED
      BY <2>3, <2>4, <2>5 DEF s
  <1> QED
    BY <1>1, <1>2, <1>9, <1>10

\* The list that is kept in one pass holds the greatest numbers of all.
LEMMA KeptTops ==
  ASSUME NEW xs \in Seq(Int)
  PROVE  TopList(FoldLeft(Keep, <<>>, xs), xs)
  <1> DEFINE N == Len(xs)
             P(n) == [i \in 1 .. n |-> xs[i]]
  <1>1. N \in Nat /\ xs = P(N)
    OBVIOUS
  <1>2. PICK h : /\ h[{}] = <<>>
                 /\ \A n \in 1 .. N : h[1 .. n] = Keep(h[1 .. n - 1], xs[n])
                 /\ FoldLeft(Keep, <<>>, xs) = h[1 .. N]
    BY KeptSteps
  <1> DEFINE Bad == {n \in 0 .. N : ~TopList(h[1 .. n], P(n))}
  <1>3. \A n \in 0 .. N : P(n) \in Seq(Int) /\ Len(P(n)) = n
    <2> TAKE n \in 0 .. N
    <2>1. P(n) \in [1 .. n -> Int] /\ n \in Nat
      OBVIOUS
    <2> QED
      BY <2>1
  <1>4. TopList(h[1 .. 0], P(0))
    <2>1. h[1 .. 0] = <<>>
      <3>1. 1 .. 0 = {}
        OBVIOUS
      <3> QED
        BY <1>2, <3>1
    <2>2. Len(P(0)) = 0
      BY <1>1, <1>3
    <2>3. TopList(<<>>, P(0))
      BY <2>2, CapsAssumption DEF TopList, Tops
    <2> QED
      BY <2>1, <2>3
  <1>5. ASSUME NEW n \in 1 .. N, TopList(h[1 .. n - 1], P(n - 1))
        PROVE  TopList(h[1 .. n], P(n))
    <2>0. n \in Nat /\ n - 1 \in 0 .. N /\ n \in 1 .. Len(xs)
      BY <1>1
    <2>1. P(n - 1) \in Seq(Int) /\ xs[n] \in Int
      BY <1>3, <2>0
    <2>2. P(n) = Append(P(n - 1), xs[n])
      <3> DEFINE p == P(n - 1)
                 q == Append(p, xs[n])
      <3>0. n \in Nat /\ n - 1 \in 0 .. N
        BY <1>1
      <3>1. p \in Seq(Int) /\ Len(p) = n - 1
        BY <1>3, <3>0
      <3>2. \A i \in 1 .. n - 1 : p[i] = xs[i]
        OBVIOUS
      <3> HIDE DEF p
      <3>3. q \in Seq(Int) /\ DOMAIN q = 1 .. n
        BY <2>1, <3>1
      <3>4. \A i \in 1 .. n : q[i] = xs[i]
        BY <2>1, <3>1, <3>2
      <3>5. q = [i \in 1 .. n |-> q[i]]
        BY <3>3
      <3> HIDE DEF q
      <3>6. q = P(n)
        BY <3>4, <3>5
      <3> QED
        BY <3>6 DEF q, p
    <2>3. TopList(Keep(h[1 .. n - 1], xs[n]), Append(P(n - 1), xs[n]))
      BY <1>5, <2>1, KeepTops
    <2> QED
      BY <1>2, <2>2, <2>3
  <1> HIDE DEF P
  <1>6. Bad = {}
    <2> SUFFICES ASSUME Bad # {}
                 PROVE  FALSE
      OBVIOUS
    <2>1. Bad \in SUBSET Nat
      OBVIOUS
    <2>2. PICK n \in Bad : \A m \in Bad : n <= m
      BY <2>1, LeastNumber
    <2>3. n \in 1 .. N
      BY <1>1, <1>4, <2>2
    <2>4. n - 1 \in 0 .. N /\ n - 1 \notin Bad
      BY <1>1, <2>2, <2>3
    <2> QED
      BY <1>5, <2>2, <2>3, <2>4
  <1> QED
    BY <1>1, <1>2, <1>6

-----------------------------------------------------------------------------
(***************************************************************************)
(* What the queries of a request returned                                  *)
(***************************************************************************)

\* The calls a summary of usage.db is about, as most of its queries return them.
Chosen == Where(usage, LAMBDA r : Matches(req.filter, r))

\* They are rows of the table, each once.
LEMMA ChosenIsTable ==
  ASSUME StateOK
  PROVE  Chosen \in Seq(UsageRows) /\ DistinctIds(Chosen)
  <1> DEFINE X == {r \in Range(usage) : Matches(req.filter, r)}
             I == {i \in DOMAIN usage : usage[i] \in X}
             t == RowsAt(usage, I, Ascending(I))
  <1>1. I = {i \in DOMAIN usage : Matches(req.filter, usage[i])}
    BY DEF Range
  <1>2. Chosen = t
    BY <1>1 DEF Chosen, Where
  <1>3. X \in SUBSET Range(usage) /\ usage \in Seq(UsageRows) /\ DistinctIds(usage)
    BY DEF StateOK, TablesOK
  <1> HIDE DEF X
  <1>4. t \in Seq(UsageRows) /\ DistinctIds(t)
    BY <1>3, SelectedTable
  <1> QED
    BY <1>2, <1>4

\* A table read by falling time holds the same rows, each once.
LEMMA NewestLists ==
  ASSUME NEW s \in Seq(UsageRows), DistinctIds(s)
  PROVE  /\ NewestFirst(s) \in Seq(UsageRows) /\ DistinctIds(NewestFirst(s))
         /\ Range(NewestFirst(s)) = Range(s)
  <1> DEFINE X == Range(s)
             u == ByTime(s)
             N == {p \in X \X X : <<p[2], p[1]>> \in ScanOrder(s)}
             t == Reverse(u)
  <1>1. \A x \in X : x \in UsageRows
    BY DEF Range
  <1>2. \A x \in X : x.at \in Int
    BY <1>1, StoredFacts
  <1>3. Lists(s, X, InOrder(s))
    BY TableIsList
  <1>4. Lists(u, X, ScanOrder(s))
    BY <1>2, <1>3, ByTimeLists
  <1>5. \A x, y \in X : <<x, y>> \in N <=> <<y, x>> \in ScanOrder(s)
    OBVIOUS
  <1>6. DistinctIds(s) => \A x, y \in X : x.id = y.id => x = y
    BY DEF DistinctIds, Range
  <1>7. NewestFirst(s) = t
    BY DEF NewestFirst
  <1> HIDE DEF N, X, u
  <1>8. Lists(t, X, N)
    BY <1>4, <1>5, ReverseLists
  <1>9. t \in Seq(X) /\ X \subseteq UsageRows
    BY <1>1, <1>8 DEF Lists
  <1>10. t \in Seq(UsageRows)
    BY <1>9, SeqMonotonic
  <1> HIDE DEF t
  <1>11. Range(t) = X /\ DOMAIN t = 1 .. Len(t) /\ \A i, j \in 1 .. Len(t) : t[i] = t[j] => i = j
    BY <1>8, ListsOnce
  <1>12. DistinctIds(t)
    BY <1>6, <1>11 DEF DistinctIds, Range
  <1> QED
    BY <1>7, <1>10, <1>11, <1>12 DEF X

\* As long as nothing was written since a request began, each of its queries
\* returned what it would return now; and the rows a list of slowest requests is
\* taken from have latencies.
SnapshotOK ==
    req # Idle =>
        /\ "scan" \in DOMAIN view => view.scan \in Seq(UsageRows)
        /\ "matched" \in DOMAIN view => view.matched \in Seq(Routed)
        /\ writes = 0 => \A q \in DOMAIN view : view[q] = Rows(q)

\* What a query returns depends on the tables, the prices and the request only.
LEMMA RowsStay ==
  ASSUME UNCHANGED <<usage, router, installed, overrides, req>>, NEW q
  PROVE  Rows(q)' = Rows(q)
  BY DEF Rows, Where, Book

\* A query adds what it returns now.
LEMMA QueryKeepsSnapshot ==
  ASSUME StateOK, SnapshotOK, Query
  PROVE  SnapshotOK'
  <1> DEFINE q == Plan[Cardinality(DOMAIN view) + 1]
  <1>1. /\ req \in Requests /\ DOMAIN view' = DOMAIN view \cup {q}
        /\ view'[q] = Rows(q)
        /\ \A x \in DOMAIN view : x # q => view'[x] = view[x]
    BY QueryFacts DEF StateOK
  <1> HIDE DEF q
  <1>2. UNCHANGED <<usage, router, installed, overrides, req, writes>> /\ req # Idle
    BY DEF Query
  <1>3. Rows("scan") \in Seq(UsageRows)
    <2>1. Rows("scan") = NewestFirst(Chosen)
      BY DEF Rows, Chosen
    <2> QED
      BY <2>1, ChosenIsTable, NewestLists
  <1>4. Rows("matched") \in Seq(Routed)
    <2> DEFINE t == Matching(req.filter, router)
    <2>1. Lists(t, RouterRows(req.filter), ScanOrder(router))
      BY MatchingLists
    <2>2. t \in Seq(RouterRows(req.filter)) /\ RouterRows(req.filter) \subseteq Routed
      BY <2>1 DEF Lists, RouterRows, StateOK, TablesOK, Range
    <2>3. Rows("matched") = t
      BY DEF Rows
    <2> HIDE DEF t
    <2>4. t \in Seq(Routed)
      BY <2>2, SeqMonotonic
    <2> QED
      BY <2>3, <2>4
  <1>5. "scan" \in DOMAIN view' => view'.scan \in Seq(UsageRows)
    BY <1>1, <1>2, <1>3 DEF SnapshotOK
  <1>6. "matched" \in DOMAIN view' => view'.matched \in Seq(Routed)
    BY <1>1, <1>2, <1>4 DEF SnapshotOK
  <1>7. ASSUME writes' = 0, NEW x \in DOMAIN view'
        PROVE  view'[x] = Rows(x)'
    <2>1. Rows(x)' = Rows(x)
      BY <1>2, RowsStay
    <2> QED
      BY <1>1, <1>2, <1>7, <2>1 DEF SnapshotOK
  <1> QED
    BY <1>5, <1>6, <1>7 DEF SnapshotOK

\* A write ends the premise, and whatever else happens changes no table.
LEMMA NextSnapshotOK ==
  ASSUME StateOK, SnapshotOK, [Next]_vars
  PROVE  SnapshotOK'
  <1>1. ASSUME Written
        PROVE  SnapshotOK'
    <2>1. UNCHANGED <<req, view>> /\ (req # Idle => writes' = writes + 1) /\ writes \in Nat
      BY <1>1 DEF Written, StateOK, TablesOK
    <2>2. req # Idle => writes' # 0
      BY <2>1
    <2> QED
      BY <2>1, <2>2 DEF SnapshotOK
  <1>2. ASSUME DOMAIN view' = {}
        PROVE  SnapshotOK'
    BY <1>2 DEF SnapshotOK
  <1>3. ASSUME NEW kind \in Kinds, NEW f \in Filters, NEW forced \in BOOLEAN,
               Begin(kind, f, forced)
        PROVE  DOMAIN view' = {}
    <2>1. UNCHANGED <<view>> /\ req = Idle
      BY <1>3, BeginFacts
    <2> QED
      BY <2>1, IdleIsNone DEF StateOK, RequestOK
  <1>4. CASE Query
    BY <1>4, QueryKeepsSnapshot
  <1>5. ASSUME NextPage \/ Finish
        PROVE  DOMAIN view' = {}
    <2>1. view' = <<>>
      BY <1>5 DEF NextPage, Finish
    <2> QED
      BY <2>1
  <1>6. CASE UNCHANGED vars
    <2>1. UNCHANGED <<usage, router, installed, overrides, req, view, writes>>
      BY <1>6 DEF vars
    <2>2. ASSUME req' # Idle, writes' = 0, NEW x \in DOMAIN view'
          PROVE  view'[x] = Rows(x)'
      <3>1. Rows(x)' = Rows(x)
        BY <2>1, RowsStay
      <3> QED
        BY <2>1, <2>2, <3>1 DEF SnapshotOK
    <2> QED
      BY <2>1, <2>2 DEF SnapshotOK
  <1>7. /\ \A c \in Calls : Insert(c) => Written
        /\ \A c \in Routed : InsertRouted(c) => Written
        /\ \A id \in Ids(usage) : Delete(id) => Written
        /\ \A list \in PriceLists : PutPrices(list) => Written
        /\ Install => Written
    BY DEF Insert, InsertRouted, Delete, PutPrices, Install
  <1> QED
    BY <1>1, <1>2, <1>3, <1>4, <1>5, <1>6, <1>7 DEF Next

\* A request that runs undisturbed sees one state of the databases, although its
\* queries are not in a transaction (Summary, store.go).
THEOREM SnapshotInvariant == Spec => [](StateOK /\ SnapshotOK)
  <1>1. Init => SnapshotOK
    BY DEF Init, SnapshotOK
  <1> QED
    BY <1>1, NextSnapshotOK, StateInvariant, PTL DEF Spec

-----------------------------------------------------------------------------
(***************************************************************************)
(* The slowest requests                                                    *)
(***************************************************************************)

\* Latencies of rows that have them.
LEMMA LatenciesAre ==
  ASSUME NEW S, \A r \in S : r.latency \in Int, NEW s \in Seq(S)
  PROVE  Values(s, "latency") \in Seq(Int) /\ Len(Values(s, "latency")) = Len(s)
  <1> DEFINE xs == [i \in 1 .. Len(s) |-> s[i].latency]
  <1>1. xs \in Seq(Int) /\ Len(xs) = Len(s)
    OBVIOUS
  <1>2. Values(s, "latency") = xs
    BY DEF Values
  <1> QED
    BY <1>1, <1>2

\* One pass that keeps a list, sorted and cut, ends with the head of the sorted whole.
LEMMA PassIsSort ==
  ASSUME NEW xs \in Seq(Int)
  PROVE  FoldLeft(Keep, <<>>, xs) = Slice(Falling(xs), 0, SlowestCap)
  <1> DEFINE t == FoldLeft(Keep, <<>>, xs)
             all == Falling(xs)
             u == Slice(all, 0, SlowestCap)
  <1>1. TopList(t, xs)
    BY CapsAssumption, KeptTops
  <1>2. Tops(all, xs) /\ Len(all) = Len(xs)
    BY FallingTops
  <1>3. all \in Seq(Int) /\ SlowestCap \in Nat
    BY <1>2, CapsAssumption DEF Tops
  <1> HIDE DEF t, all
  <1>4. /\ u \in Seq(Int)
        /\ Len(u) = IF SlowestCap <= Len(all) THEN SlowestCap ELSE Len(all)
        /\ \A k \in 1 .. Len(u) : k \in 1 .. Len(all) /\ u[k] = all[k]
    BY <1>3, SliceStart
  <1> HIDE DEF u
  <1>5. Tops(u, xs)
    BY <1>2, <1>4 DEF Tops
  <1>6. Tops(t, xs) /\ Len(t) = Len(u)
    BY <1>1, <1>2, <1>4 DEF TopList
  <1>7. t = u
    BY <1>5, <1>6, TopsSame
  <1> QED
    BY <1>7 DEF t, u, all

\* The list of slowest requests holds the slowest of all (fillDistributions of
\* store.go, RouterSummary).
THEOREM SlowestIsKept == Spec => []SlowestKept
  <1>1. ASSUME StateOK, SnapshotOK
        PROVE  SlowestKept
    <2> SUFFICES ASSUME Answered, req.kind = "summary"
                 PROVE  LET s == IF req.source = "router" THEN view.matched ELSE view.scan
                            all == Falling(Values(s, "latency"))
                        IN  Slowest(s) = Slice(all, 0, SlowestCap)
      BY DEF SlowestKept
    <2> DEFINE s == IF req.source = "router" THEN view.matched ELSE view.scan
    <2>1. req \in Requests /\ req # Idle /\ DOMAIN view = Asked
      BY <1>1, IdleIsNone DEF Answered, StateOK, RequestOK
    <2>2. Values(s, "latency") \in Seq(Int)
      <3>1. CASE req.source = "router"
        <4>1. Plan = RouterPlan.summary
          BY <3>1 DEF Plan
        <4>2. Plan[2] = "matched" /\ 2 \in DOMAIN Plan
          BY <4>1 DEF RouterPlan
        <4>3. view.matched \in Seq(Routed)
          BY <1>1, <2>1, <4>2 DEF Asked, SnapshotOK
        <4>4. \A r \in Routed : r.latency \in Int
          BY RoutedFacts
        <4> QED
          BY <3>1, <4>3, <4>4, LatenciesAre
      <3>2. CASE req.source # "router"
        <4>1. Plan = PluginPlan.summary
          BY <3>2 DEF Plan
        <4>2. Plan[11] = "scan" /\ 11 \in DOMAIN Plan
          BY <4>1 DEF PluginPlan
        <4>3. view.scan \in Seq(UsageRows)
          BY <1>1, <2>1, <4>2 DEF Asked, SnapshotOK
        <4>4. \A r \in UsageRows : r.latency \in Int
          BY StoredFacts DEF Counters
        <4> QED
          BY <3>2, <4>3, <4>4, LatenciesAre
      <3> QED
        BY <3>1, <3>2
    <2> QED
      BY <2>2, PassIsSort DEF Slowest
  <1> QED
    BY <1>1, SnapshotInvariant, PTL

-----------------------------------------------------------------------------
(***************************************************************************)
(* Selections: what is counted and summed over the places selected         *)
(***************************************************************************)

\* t holds the rows of s at the places in I; a[k] is the place of its k-th.
Picks(a, s, I, t) ==
    /\ \A k \in 1 .. Len(t) : a[k] \in I /\ t[k] = s[a[k]]
    /\ \A k, l \in 1 .. Len(t) : a[k] = a[l] => k = l
    /\ \A i \in I : \E k \in 1 .. Len(t) : a[k] = i

\* A selection has one result for each place, the row at that place.
LEMMA SelectionPlaces ==
  ASSUME NEW S, NEW s \in Seq(S), NEW I \in SUBSET DOMAIN s
  PROVE  LET n == Cardinality(I)
             t == RowsAt(s, I, Ascending(I))
         IN  /\ IsFiniteSet(I) /\ n \in Nat
             /\ t \in Seq(S) /\ Len(t) = n
             /\ \E a : Picks(a, s, I, t)
  <1> DEFINE n == Cardinality(I)
             a == Arranged(I, Ascending(I))
             t == RowsAt(s, I, Ascending(I))
  <1>1. DOMAIN s = 1 .. Len(s) /\ Len(s) \in Nat
    OBVIOUS
  <1>2. IsFiniteSet(I) /\ n \in Nat
    <2>1. IsFiniteSet(1 .. Len(s)) /\ I \subseteq 1 .. Len(s)
      BY <1>1, PlacesCount
    <2> QED
      BY <2>1, FS_Subset, FS_CardinalityType
  <1>3. Orders(Ascending(I), I)
    <2>1. \A i \in I : i \in Nat
      BY <1>1
    <2> QED
      BY <2>1 DEF Orders, Ascending
  <1>4. /\ DOMAIN a = 1 .. n
        /\ \A k \in 1 .. n : a[k] \in I /\ Ahead(a[k], I, Ascending(I)) = k - 1
    BY <1>2, <1>3, ArrangedFacts
  <1>5. \A k, l \in 1 .. n : a[k] = a[l] => k = l
    <2> TAKE k \in 1 .. n, l \in 1 .. n
    <2> HAVE a[k] = a[l]
    <2>1. k - 1 = l - 1 /\ k \in Int /\ l \in Int
      BY <1>2, <1>4
    <2> QED
      BY <2>1
  <1>6. \A i \in I : \E k \in 1 .. n : a[k] = i
    <2>1. Lists(a, I, Ascending(I))
      BY <1>2, <1>3, ArrangedLists
    <2> HIDE DEF a, n
    <2>2. Len(a) = n
      BY <2>1 DEF Lists, n
    <2> QED
      BY <2>1, <2>2 DEF Lists
  <1>7. t = [k \in 1 .. n |-> s[a[k]]]
    BY <1>4 DEF RowsAt
  <1>8. \A i \in I : s[i] \in S
    OBVIOUS
  <1> HIDE DEF a, t, n
  <1>9. t \in Seq(S) /\ Len(t) = n /\ \A k \in 1 .. n : t[k] = s[a[k]]
    BY <1>2, <1>4, <1>7, <1>8
  <1>10. Picks(a, s, I, t)
    BY <1>4, <1>5, <1>6, <1>9 DEF Picks
  <1> QED
    BY <1>2, <1>9, <1>10 DEF n, t

\* How many rows of t are in T.
Within(t, T) == Cardinality({k \in DOMAIN t : t[k] \in T})

\* A selection has as many rows in T as there are among the places selected.
LEMMA SelectionCount ==
  ASSUME NEW S, NEW s \in Seq(S), NEW I \in SUBSET DOMAIN s, NEW T
  PROVE  LET t == RowsAt(s, I, Ascending(I))
         IN  Within(t, T) = Cardinality({i \in I : s[i] \in T})
  <1> DEFINE n == Cardinality(I)
             t == RowsAt(s, I, Ascending(I))
  <1>1. n \in Nat /\ t \in Seq(S) /\ Len(t) = n
    BY SelectionPlaces
  <1>2. PICK a : Picks(a, s, I, t)
    BY SelectionPlaces
  <1> HIDE DEF t, n
  <1> DEFINE A == {k \in DOMAIN t : t[k] \in T}
             B == {i \in I : s[i] \in T}
  <1>3. DOMAIN t = 1 .. n
    BY <1>1
  <1>4. IsFiniteSet(A)
    <2>1. IsFiniteSet(1 .. n) /\ A \subseteq 1 .. n
      BY <1>1, <1>3, PlacesCount
    <2> QED
      BY <2>1, FS_Subset
  <1>5. \A i, j \in A : a[i] = a[j] => i = j
    BY <1>1, <1>2, <1>3 DEF Picks
  <1>6. \A i \in A : a[i] \in B
    BY <1>1, <1>2, <1>3 DEF Picks
  <1>7. \A x \in B : \E i \in A : a[i] = x
    BY <1>1, <1>2, <1>3 DEF Picks
  <1> HIDE DEF A, B
  <1> QED
    BY <1>4, <1>5, <1>6, <1>7, RowsCount DEF A, B, t, Within

\* Equal rows aside, sequences of the same rows have as many of them in T.
LEMMA SameRowsCount ==
  ASSUME NEW S, NEW s \in Seq(S), \A i, j \in DOMAIN s : s[i] = s[j] => i = j,
         NEW t \in Seq(S), \A i, j \in DOMAIN t : t[i] = t[j] => i = j,
         Range(s) = Range(t), NEW T
  PROVE  Within(s, T) = Within(t, T)
  <1> DEFINE B == {x \in Range(s) : x \in T}
  <1>1. ASSUME NEW u \in Seq(S), \A i, j \in DOMAIN u : u[i] = u[j] => i = j,
               Range(u) = Range(s)
        PROVE  Within(u, T) = Cardinality(B)
    <2> DEFINE A == {i \in DOMAIN u : u[i] \in T}
    <2>1. IsFiniteSet(A)
      <3>1. DOMAIN u = 1 .. Len(u) /\ Len(u) \in Nat
        OBVIOUS
      <3>2. IsFiniteSet(1 .. Len(u)) /\ A \subseteq 1 .. Len(u)
        BY <3>1, PlacesCount
      <3> QED
        BY <3>2, FS_Subset
    <2>2. \A i, j \in A : u[i] = u[j] => i = j
      BY <1>1
    <2>3. \A i \in A : u[i] \in B
      BY <1>1 DEF Range
    <2>4. \A x \in B : \E i \in A : u[i] = x
      <3>1. \A x \in Range(u) : \E i \in DOMAIN u : u[i] = x
        BY DEF Range
      <3> QED
        BY <1>1, <3>1
    <2> HIDE DEF A, B
    <2> QED
      BY <2>1, <2>2, <2>3, <2>4, RowsCount DEF A, Within
  <1> QED
    BY <1>1

\* The sum over a selection is the sum over its places.
LEMMA SelectionSum ==
  ASSUME NEW S, NEW s \in Seq(S), NEW I \in SUBSET DOMAIN s,
         NEW f, \A i \in DOMAIN s : s[i][f] \in Int
  PROVE  Sum(RowsAt(s, I, Ascending(I)), f) = SumFunctionOnSet(Values(s, f), I)
  <1> DEFINE n == Cardinality(I)
             t == RowsAt(s, I, Ascending(I))
             v == Values(s, f)
  <1>1. IsFiniteSet(I) /\ n \in Nat /\ t \in Seq(S) /\ Len(t) = n
    BY SelectionPlaces
  <1>2. PICK a : Picks(a, s, I, t)
    BY SelectionPlaces
  <1> HIDE DEF t, n
  <1>3. DOMAIN t = 1 .. n
    BY <1>1
  <1>4. \A i \in I : v[i] \in Int /\ v[i] = s[i][f]
    BY DEF Values
  <1>5. Values(t, f) = [k \in 1 .. n |-> v[a[k]]] /\ DOMAIN Values(t, f) = 1 .. n
    BY <1>1, <1>2, <1>3, <1>4 DEF Values, Picks
  <1>6. IsFiniteSet(1 .. n)
    BY <1>1, PlacesCount
  <1>7. SumFunctionOnSet([k \in 1 .. n |-> v[a[k]]], 1 .. n) = SumFunctionOnSet(v, I)
    <2> DEFINE J == 1 .. n
    <2>1. /\ IsFiniteSet(J) /\ \A k \in J : a[k] \in I
          /\ \A k, l \in J : a[k] = a[l] => k = l
          /\ \A i \in I : \E k \in J : a[k] = i
      BY <1>1, <1>2, <1>6 DEF Picks
    <2> HIDE DEF J, v
    <2>2. SumFunctionOnSet([k \in J |-> v[a[k]]], J) = SumFunctionOnSet(v, I)
      BY <1>1, <1>4, <2>1, SumMoved
    <2> QED
      BY <2>2 DEF J
  <1> QED
    BY <1>5, <1>7 DEF Sum, SumFunction, v, t

-----------------------------------------------------------------------------
(***************************************************************************)
(* A table in parts                                                        *)
(***************************************************************************)

\* The rows of s by a key, in their order.
Parted(s, key) ==
    [k \in {key[i] : i \in DOMAIN s} |->
        RowsAt(s, Having(DOMAIN s, key, k), Ascending(Having(DOMAIN s, key, k)))]

\* The places of a sequence, and of its parts.
LEMMA PartedFacts ==
  ASSUME NEW S, NEW s \in Seq(S), NEW key
  PROVE  LET K == {key[i] : i \in DOMAIN s}
         IN  /\ IsFiniteSet(DOMAIN s) /\ Cardinality(DOMAIN s) = Len(s)
             /\ IsFiniteSet(K) /\ \A i \in DOMAIN s : key[i] \in K
             /\ DOMAIN Parted(s, key) = K
             /\ \A k \in K : /\ Having(DOMAIN s, key, k) \in SUBSET DOMAIN s
                             /\ Parted(s, key)[k] \in Seq(S)
  <1> DEFINE K == {key[i] : i \in DOMAIN s}
             f == [i \in DOMAIN s |-> key[i]]
  <1>1. DOMAIN s = 1 .. Len(s) /\ Len(s) \in Nat
    OBVIOUS
  <1>2. IsFiniteSet(DOMAIN s) /\ Cardinality(DOMAIN s) = Len(s)
    BY <1>1, PlacesCount
  <1>3. f \in Surjection(DOMAIN s, K)
    BY DEF Surjection
  <1>4. IsFiniteSet(K)
    BY <1>2, <1>3, FS_Surjection
  <1>5. DOMAIN Parted(s, key) = K /\ \A i \in DOMAIN s : key[i] \in K
    BY DEF Parted
  <1>6. ASSUME NEW k \in K
        PROVE  Having(DOMAIN s, key, k) \in SUBSET DOMAIN s /\ Parted(s, key)[k] \in Seq(S)
    <2> DEFINE I == Having(DOMAIN s, key, k)
    <2>1. I \in SUBSET DOMAIN s
      BY DEF Having
    <2>2. Parted(s, key)[k] = RowsAt(s, I, Ascending(I))
      BY DEF Parted
    <2> HIDE DEF I
    <2>3. RowsAt(s, I, Ascending(I)) \in Seq(S)
      BY <2>1, SelectionPlaces
    <2> QED
      BY <2>1, <2>2, <2>3 DEF I
  <1> QED
    BY <1>2, <1>4, <1>5, <1>6

\* The rows in T of the parts are together those of the whole.
LEMMA PartedCount ==
  ASSUME NEW S, NEW s \in Seq(S), NEW key, NEW T
  PROVE  LET p == Parted(s, key)
         IN  SumFunction([k \in DOMAIN p |-> Within(p[k], T)]) = Within(s, T)
  <1> DEFINE p == Parted(s, key)
             K == {key[i] : i \in DOMAIN s}
  <1>1. /\ IsFiniteSet(DOMAIN s) /\ IsFiniteSet(K) /\ DOMAIN p = K
        /\ \A i \in DOMAIN s : key[i] \in K
    BY PartedFacts
  <1> DEFINE J == {i \in DOMAIN s : s[i] \in T}
             c == [k \in K |-> Cardinality(Having(J, key, k))]
  <1>2. IsFiniteSet(J) /\ \A i \in J : key[i] \in K
    BY <1>1, FS_Subset
  <1>3. ASSUME NEW k \in K
        PROVE  Within(p[k], T) = c[k]
    <2> DEFINE I == Having(DOMAIN s, key, k)
    <2>1. p[k] = RowsAt(s, I, Ascending(I))
      BY DEF Parted
    <2>2. {i \in I : s[i] \in T} = Having(J, key, k)
      BY DEF Having
    <2>3. I \in SUBSET DOMAIN s
      BY DEF Having
    <2> HIDE DEF I, p
    <2>4. Within(p[k], T) = Cardinality({i \in I : s[i] \in T})
      BY <2>1, <2>3, SelectionCount
    <2> QED
      BY <2>2, <2>4
  <1> HIDE DEF p, K, J
  <1>4. [k \in DOMAIN p |-> Within(p[k], T)] = c
    BY <1>1, <1>3
  <1>5. SumFunctionOnSet(c, K) = Cardinality(J)
    BY <1>1, <1>2, CountParts
  <1>6. SumFunction(c) = SumFunctionOnSet(c, K)
    BY DEF SumFunction
  <1> QED
    BY <1>4, <1>5, <1>6 DEF p, J, Within

\* All rows of a sequence are in the set they are taken from.
LEMMA WithinAll ==
  ASSUME NEW S, NEW t \in Seq(S)
  PROVE  Within(t, S) = Len(t)
  <1>1. {j \in DOMAIN t : t[j] \in S} = 1 .. Len(t) /\ Len(t) \in Nat
    OBVIOUS
  <1> QED
    BY <1>1, PlacesCount DEF Within

\* The lengths of the parts add up to the length.
LEMMA PartedLength ==
  ASSUME NEW S, NEW s \in Seq(S), NEW key
  PROVE  LET p == Parted(s, key)
         IN  SumFunction([k \in DOMAIN p |-> Len(p[k])]) = Len(s)
  <1> DEFINE p == Parted(s, key)
             K == DOMAIN p
  <1>1. \A t \in Seq(S) : Within(t, S) = Len(t)
    BY WithinAll
  <1>2. \A k \in K : p[k] \in Seq(S)
    BY PartedFacts
  <1>3. SumFunction([k \in K |-> Within(p[k], S)]) = Within(s, S)
    BY PartedCount
  <1> HIDE DEF p
  <1>4. [k \in K |-> Within(p[k], S)] = [k \in K |-> Len(p[k])]
    BY <1>1, <1>2
  <1> QED
    BY <1>1, <1>3, <1>4 DEF p

\* So do the sums of a column.
LEMMA PartedSum ==
  ASSUME NEW S, NEW s \in Seq(S), NEW key, NEW f, \A i \in DOMAIN s : s[i][f] \in Int
  PROVE  LET p == Parted(s, key)
         IN  SumFunction([k \in DOMAIN p |-> Sum(p[k], f)]) = Sum(s, f)
  <1> DEFINE p == Parted(s, key)
             K == {key[i] : i \in DOMAIN s}
  <1>1. /\ IsFiniteSet(DOMAIN s) /\ IsFiniteSet(K) /\ DOMAIN p = K
        /\ \A i \in DOMAIN s : key[i] \in K
    BY PartedFacts
  <1> DEFINE v == Values(s, f)
             c == [k \in K |-> SumFunctionOnSet(v, Having(DOMAIN s, key, k))]
  <1>2. DOMAIN v = DOMAIN s /\ \A i \in DOMAIN s : v[i] \in Int
    BY DEF Values
  <1>3. ASSUME NEW k \in K
        PROVE  Sum(p[k], f) = c[k]
    <2> DEFINE I == Having(DOMAIN s, key, k)
    <2>1. p[k] = RowsAt(s, I, Ascending(I))
      BY DEF Parted
    <2>2. I \in SUBSET DOMAIN s
      BY DEF Having
    <2>3. c[k] = SumFunctionOnSet(v, I)
      OBVIOUS
    <2> HIDE DEF I, p
    <2>4. Sum(RowsAt(s, I, Ascending(I)), f) = SumFunctionOnSet(v, I)
      BY <2>2, SelectionSum
    <2> QED
      BY <2>1, <2>3, <2>4
  <1> HIDE DEF p, K
  <1>4. [k \in DOMAIN p |-> Sum(p[k], f)] = c
    BY <1>1, <1>3
  <1> HIDE DEF v
  <1>5. SumFunctionOnSet(c, K) = SumFunctionOnSet(v, DOMAIN s)
    <2> DEFINE D == DOMAIN s
    <2>1. IsFiniteSet(D) /\ IsFiniteSet(K) /\ \A i \in D : v[i] \in Int /\ key[i] \in K
      BY <1>1, <1>2
    <2> HIDE DEF D
    <2>2. SumFunctionOnSet([k \in K |-> SumFunctionOnSet(v, Having(D, key, k))], K)
             = SumFunctionOnSet(v, D)
      BY <2>1, SumParts
    <2> QED
      BY <2>2 DEF D
  <1>6. SumFunction(c) = SumFunctionOnSet(c, K)
    BY DEF SumFunction
  <1>7. Sum(s, f) = SumFunctionOnSet(v, DOMAIN s)
    BY <1>2 DEF Sum, SumFunction, v
  <1> QED
    BY <1>4, <1>5, <1>6, <1>7 DEF p

\* The failures as a set of rows.
Failed == {r \in UsageRows : r.failed}

\* What a query counts as failures is how many rows are in that set.
LEMMA FailuresAre ==
  ASSUME NEW s \in Seq(UsageRows)
  PROVE  Failures(s) = Within(s, Failed)
  <1>1. {i \in DOMAIN s : s[i] \in Failed} = {i \in DOMAIN s : s[i].failed}
    BY DEF Failed
  <1> QED
    BY <1>1 DEF Failures, Count, Within

\* The failures of the parts add up, too.
LEMMA PartedFailures ==
  ASSUME NEW s \in Seq(UsageRows), NEW key
  PROVE  LET p == Parted(s, key)
         IN  SumFunction([k \in DOMAIN p |-> Failures(p[k])]) = Failures(s)
  <1> DEFINE p == Parted(s, key)
             K == DOMAIN p
  <1>1. \A k \in K : p[k] \in Seq(UsageRows)
    BY PartedFacts
  <1>2. SumFunction([k \in K |-> Within(p[k], Failed)]) = Within(s, Failed)
    BY PartedCount
  <1>3. \A t \in Seq(UsageRows) : Within(t, Failed) = Failures(t)
    BY FailuresAre
  <1> HIDE DEF p
  <1>4. [k \in K |-> Within(p[k], Failed)] = [k \in K |-> Failures(p[k])]
    BY <1>1, <1>3
  <1> QED
    BY <1>2, <1>3, <1>4 DEF p

\* The counters of the rows of a table are numbers.
LEMMA CountersAre ==
  ASSUME NEW s \in Seq(UsageRows), NEW f \in Counters
  PROVE  \A i \in DOMAIN s : s[i][f] \in Int
  BY StoredFacts

\* The totals of the parts add up to the totals of the whole.
LEMMA PartedTotals ==
  ASSUME NEW s \in Seq(UsageRows), NEW key
  PROVE  LET p == Parted(s, key)
             groups == [k \in DOMAIN p |-> Aggregate(p[k])]
             hours == [k \in DOMAIN p |-> HourTotals(p[k])]
         IN  /\ \A f \in DOMAIN Aggregate(s) : SumOver(groups, f) = Aggregate(s)[f]
             /\ \A f \in {"calls", "failed", "total"} : SumOver(hours, f) = Aggregate(s)[f]
  <1> DEFINE p == Parted(s, key)
             K == DOMAIN p
             groups == [k \in K |-> Aggregate(p[k])]
             hours == [k \in K |-> HourTotals(p[k])]
             Sums == {"input", "output", "reasoning", "cached", "cacheNew", "total",
                      "latency", "ttft"}
  <1>1. SumFunction([k \in K |-> Len(p[k])]) = Len(s)
    BY PartedLength
  <1>2. SumFunction([k \in K |-> Failures(p[k])]) = Failures(s)
    BY PartedFailures
  <1>3. ASSUME NEW f \in Sums
        PROVE  SumFunction([k \in K |-> Sum(p[k], f)]) = Sum(s, f)
    <2>1. f \in Counters
      BY DEF Counters
    <2> QED
      BY <2>1, CountersAre, PartedSum
  <1> HIDE DEF p, K
  <1>4. DOMAIN Aggregate(s) = {"calls", "failed"} \cup Sums
    BY DEF Aggregate
  <1>5. SumOver(groups, "calls") = Len(s) /\ SumOver(hours, "calls") = Len(s)
    <2>1. /\ [k \in K |-> groups[k]["calls"]] = [k \in K |-> Len(p[k])]
          /\ [k \in K |-> hours[k]["calls"]] = [k \in K |-> Len(p[k])]
      BY DEF Aggregate, HourTotals
    <2> QED
      BY <1>1, <2>1 DEF SumOver
  <1>6. SumOver(groups, "failed") = Failures(s) /\ SumOver(hours, "failed") = Failures(s)
    <2>1. /\ [k \in K |-> groups[k]["failed"]] = [k \in K |-> Failures(p[k])]
          /\ [k \in K |-> hours[k]["failed"]] = [k \in K |-> Failures(p[k])]
      BY DEF Aggregate, HourTotals
    <2> QED
      BY <1>2, <2>1 DEF SumOver
  <1>7. ASSUME NEW f \in Sums
        PROVE  SumOver(groups, f) = Sum(s, f)
    <2>1. [k \in K |-> groups[k][f]] = [k \in K |-> Sum(p[k], f)]
      BY DEF Aggregate
    <2> QED
      BY <1>3, <2>1 DEF SumOver
  <1>8. SumOver(hours, "total") = Sum(s, "total")
    <2>1. [k \in K |-> hours[k]["total"]] = [k \in K |-> Sum(p[k], "total")]
      BY DEF HourTotals
    <2> QED
      BY <1>3, <2>1 DEF SumOver
  <1>9. /\ Aggregate(s)["calls"] = Len(s) /\ Aggregate(s)["failed"] = Failures(s)
        /\ \A f \in Sums : Aggregate(s)[f] = Sum(s, f)
    BY DEF Aggregate
  <1> HIDE DEF groups, hours, Sums
  <1>10. "total" \in Sums
    BY DEF Sums
  <1> QED
    BY <1>4, <1>5, <1>6, <1>7, <1>8, <1>9, <1>10 DEF groups, hours, p, K

\* The groups of a summary are the parts of its rows.
Groups(s, key) == [k \in DOMAIN Parted(s, key) |-> Aggregate(Parted(s, key)[k])]

\* They add up to the totals.
LEMMA GroupTotals ==
  ASSUME NEW s \in Seq(UsageRows), NEW key, NEW f \in DOMAIN Aggregate(s)
  PROVE  SumOver(Groups(s, key), f) = Aggregate(s)[f]
  BY PartedTotals DEF Groups

\* Every breakdown is one by a key that the row has.
LEMMA GroupedParts ==
  ASSUME NEW s
  PROVE  /\ Grouped(s, ModelOf) = Groups(s, [i \in DOMAIN s |-> ModelOf(s[i])])
         /\ Grouped(s, AliasOf) = Groups(s, [i \in DOMAIN s |-> AliasOf(s[i])])
         /\ Grouped(s, ProviderOf) = Groups(s, [i \in DOMAIN s |-> ProviderOf(s[i])])
         /\ Grouped(s, KeyOf) = Groups(s, [i \in DOMAIN s |-> KeyOf(s[i])])
  <1> DEFINE K(key) == {key[i] : i \in DOMAIN s}
             I(key, k) == Having(DOMAIN s, key, k)
             G(key) == [k \in K(key) |-> Aggregate(RowsAt(s, I(key, k), Ascending(I(key, k))))]
  <1>1. ASSUME NEW key
        PROVE  Groups(s, key) = G(key)
    BY DEF Groups, Parted
  <1>2. Grouped(s, ModelOf) = G([i \in DOMAIN s |-> ModelOf(s[i])])
    <2> DEFINE key == [i \in DOMAIN s |-> ModelOf(s[i])]
    <2>1. Keys(s, ModelOf) = K(key)
      BY DEF Keys
    <2>2. \A k : {i \in DOMAIN s : ModelOf(s[i]) = k} = I(key, k)
      BY DEF Having
    <2> HIDE DEF key
    <2>3. \A k : Part(s, ModelOf, k) = RowsAt(s, I(key, k), Ascending(I(key, k)))
      BY <2>2 DEF Part, Where
    <2> QED
      BY <2>1, <2>3 DEF Grouped, key
  <1>3. Grouped(s, AliasOf) = G([i \in DOMAIN s |-> AliasOf(s[i])])
    <2> DEFINE key == [i \in DOMAIN s |-> AliasOf(s[i])]
    <2>1. Keys(s, AliasOf) = K(key)
      BY DEF Keys
    <2>2. \A k : {i \in DOMAIN s : AliasOf(s[i]) = k} = I(key, k)
      BY DEF Having
    <2> HIDE DEF key
    <2>3. \A k : Part(s, AliasOf, k) = RowsAt(s, I(key, k), Ascending(I(key, k)))
      BY <2>2 DEF Part, Where
    <2> QED
      BY <2>1, <2>3 DEF Grouped, key
  <1>4. Grouped(s, ProviderOf) = G([i \in DOMAIN s |-> ProviderOf(s[i])])
    <2> DEFINE key == [i \in DOMAIN s |-> ProviderOf(s[i])]
    <2>1. Keys(s, ProviderOf) = K(key)
      BY DEF Keys
    <2>2. \A k : {i \in DOMAIN s : ProviderOf(s[i]) = k} = I(key, k)
      BY DEF Having
    <2> HIDE DEF key
    <2>3. \A k : Part(s, ProviderOf, k) = RowsAt(s, I(key, k), Ascending(I(key, k)))
      BY <2>2 DEF Part, Where
    <2> QED
      BY <2>1, <2>3 DEF Grouped, key
  <1>5. Grouped(s, KeyOf) = G([i \in DOMAIN s |-> KeyOf(s[i])])
    <2> DEFINE key == [i \in DOMAIN s |-> KeyOf(s[i])]
    <2>1. Keys(s, KeyOf) = K(key)
      BY DEF Keys
    <2>2. \A k : {i \in DOMAIN s : KeyOf(s[i]) = k} = I(key, k)
      BY DEF Having
    <2> HIDE DEF key
    <2>3. \A k : Part(s, KeyOf, k) = RowsAt(s, I(key, k), Ascending(I(key, k)))
      BY <2>2 DEF Part, Where
    <2> QED
      BY <2>1, <2>3 DEF Grouped, key
  <1> HIDE DEF G
  <1> QED
    BY <1>1, <1>2, <1>3, <1>4, <1>5

\* So are the hours.
LEMMA HourParts ==
  ASSUME NEW v
  PROVE  LET key == [i \in DOMAIN v.hours |-> HourOf(v.hours[i])]
             p == Parted(v.hours, key)
         IN  [h \in DOMAIN ByHour(v) |-> ByHour(v)[h].totals]
                = [k \in DOMAIN p |-> HourTotals(p[k])]
  <1> DEFINE s == v.hours
             key == [i \in DOMAIN s |-> HourOf(s[i])]
             K == {key[i] : i \in DOMAIN s}
             p == Parted(s, key)
  <1>1. Keys(s, HourOf) = K
    BY DEF Keys
  <1>2. \A k : {i \in DOMAIN s : HourOf(s[i]) = k} = Having(DOMAIN s, key, k)
    BY DEF Having
  <1> HIDE DEF key
  <1>3. \A k \in K : Part(s, HourOf, k) = p[k]
    BY <1>2 DEF Part, Where, Parted
  <1>4. DOMAIN p = K
    BY DEF Parted
  <1>5. DOMAIN ByHour(v) = K /\ \A h \in K : ByHour(v)[h].totals = HourTotals(Part(s, HourOf, h))
    BY <1>1 DEF ByHour
  <1> HIDE DEF p, K
  <1> QED
    BY <1>3, <1>4, <1>5 DEF p, key

\* The groups by model: their names, and how many calls each has.
LEMMA ModelGroups ==
  ASSUME NEW s \in Seq(UsageRows)
  PROVE  LET g == Grouped(s, ModelOf)
         IN  /\ DOMAIN g = {s[i].model : i \in DOMAIN s}
             /\ \A m \in DOMAIN g :
                   /\ IsName(m) /\ m # NoName
                   /\ g[m].calls = Cardinality({i \in DOMAIN s : s[i].model = m})
                   /\ g[m].calls \in Nat
                   /\ g[m].failed = Within(s, {r \in Failed : r.model = m})
  <1> DEFINE g == Grouped(s, ModelOf)
  <1>1. DOMAIN g = {s[i].model : i \in DOMAIN s}
    BY DEF Grouped, Keys, ModelOf
  <1>2. ASSUME NEW m \in DOMAIN g
        PROVE  /\ IsName(m) /\ m # NoName
               /\ g[m].calls = Cardinality({i \in DOMAIN s : s[i].model = m})
               /\ g[m].calls \in Nat
               /\ g[m].failed = Within(s, {r \in Failed : r.model = m})
    <2> DEFINE I == {i \in DOMAIN s : s[i].model = m}
               t == RowsAt(s, I, Ascending(I))
    <2>1. PICK i \in DOMAIN s : m = s[i].model
      BY <1>1
    <2>2. IsName(m) /\ m # NoName
      BY <2>1, StoredFacts
    <2>3. g[m] = Aggregate(t)
      BY DEF Grouped, Part, Where, ModelOf
    <2>4. I \in SUBSET DOMAIN s
      OBVIOUS
    <2> HIDE DEF I
    <2>5. t \in Seq(UsageRows) /\ Len(t) = Cardinality(I) /\ Cardinality(I) \in Nat
      BY <2>4, SelectionPlaces
    <2>6. Within(t, Failed) = Cardinality({j \in I : s[j] \in Failed})
      BY <2>4, SelectionCount
    <2>7. {j \in I : s[j] \in Failed} = {j \in DOMAIN s : s[j] \in {r \in Failed : r.model = m}}
      BY DEF I
    <2> HIDE DEF t
    <2>8. Failures(t) = Within(t, Failed)
      BY <2>5, FailuresAre
    <2>9. g[m].calls = Len(t) /\ g[m].failed = Failures(t)
      BY <2>3 DEF Aggregate
    <2> QED
      BY <2>2, <2>5, <2>6, <2>7, <2>8, <2>9 DEF Within, I
  <1> QED
    BY <1>1, <1>2

-----------------------------------------------------------------------------
(***************************************************************************)
(* Prices and costs                                                        *)
(***************************************************************************)

\* Two spellings of a model that agree in their capitals are the same.
LEMMA SameSpelling ==
  ASSUME NEW m, IsName(m), NEW n, IsName(n), EqualFold(m, n), m.caps = n.caps
  PROVE  m = n
  <1>1. /\ m = [part \in {"route", "stem", "tail", "caps"} |-> m[part]]
        /\ n = [part \in {"route", "stem", "tail", "caps"} |-> n[part]]
    BY DEF IsName
  <1>2. Lower(m) = Lower(n)
    BY DEF EqualFold
  <1>3. /\ Lower(m)["route"] = m["route"] /\ Lower(m)["stem"] = m["stem"]
        /\ Lower(m)["tail"] = m["tail"]
    BY <1>1 DEF Lower
  <1>4. /\ Lower(n)["route"] = n["route"] /\ Lower(n)["stem"] = n["stem"]
        /\ Lower(n)["tail"] = n["tail"]
    BY <1>1 DEF Lower
  <1>5. \A part \in {"route", "stem", "tail", "caps"} : m[part] = n[part]
    BY <1>2, <1>3, <1>4
  <1> QED
    BY <1>1, <1>5

\* Of the spellings of a model exactly one takes its costs.
LEMMA OneTakesCosts ==
  ASSUME NEW v, NEW s \in Seq(UsageRows), v.models = s, NEW m \in DOMAIN Listed(v)
  PROVE  /\ \E k \in DOMAIN Listed(v) : EqualFold(m, k) /\ TakesCosts(v, k)
         /\ \A k \in DOMAIN Listed(v) :
               EqualFold(m, k) /\ TakesCosts(v, m) /\ TakesCosts(v, k) => k = m
  <1> DEFINE L == DOMAIN Listed(v)
             n(k) == Listed(v)[k].calls
  <1>1. \A k \in L : IsName(k) /\ k.caps \in BOOLEAN /\ n(k) \in Nat
    <2>1. Listed(v) = Grouped(s, ModelOf)
      BY DEF Listed
    <2> QED
      BY <2>1, ModelGroups DEF IsName
  <1>2. \A k \in L : TakesCosts(v, k) <=>
            \A l \in L \ {k} : EqualFold(l, k) => n(k) < n(l) \/ (n(k) = n(l) /\ ~k.caps)
    BY DEF TakesCosts
  <1> HIDE DEF L, n
  <1>3. \A k, l \in L : EqualFold(k, l) /\ k # l => k.caps = ~l.caps
    <2> TAKE k \in L, l \in L
    <2> HAVE EqualFold(k, l) /\ k # l
    <2>1. k.caps # l.caps
      BY <1>1, SameSpelling
    <2> QED
      BY <1>1, <2>1
  <1>4. \A k, l \in L : EqualFold(k, l) => EqualFold(l, k)
    BY DEF EqualFold
  <1>5. \A k, l, o \in L : EqualFold(k, l) /\ EqualFold(l, o) => EqualFold(k, o)
    BY DEF EqualFold
  <1>6. m \in L /\ EqualFold(m, m)
    BY DEF L, EqualFold
  <1>7. ASSUME NEW k \in L, EqualFold(m, k), TakesCosts(v, m), TakesCosts(v, k)
        PROVE  k = m
    <2> SUFFICES ASSUME k # m
                 PROVE  FALSE
      OBVIOUS
    <2>1. n(m) < n(k) \/ (n(m) = n(k) /\ ~m.caps)
      BY <1>2, <1>4, <1>6, <1>7
    <2>2. n(k) < n(m) \/ (n(k) = n(m) /\ ~k.caps)
      BY <1>2, <1>6, <1>7
    <2>3. k.caps = ~m.caps
      BY <1>3, <1>4, <1>6, <1>7
    <2>4. n(m) \in Nat /\ n(k) \in Nat
      BY <1>1, <1>6
    <2>5. n(m) = n(k)
      BY <2>1, <2>2, <2>4
    <2>6. ~(n(m) < n(k)) /\ ~(n(k) < n(m))
      BY <2>4, <2>5
    <2> QED
      BY <2>1, <2>2, <2>3, <2>6
  <1>8. \E k \in L : EqualFold(m, k) /\ TakesCosts(v, k)
    <2>1. CASE TakesCosts(v, m)
      BY <1>6, <2>1
    <2>2. CASE ~TakesCosts(v, m)
      <3>1. PICK k \in L \ {m} : /\ EqualFold(k, m)
                                 /\ ~(n(m) < n(k) \/ (n(m) = n(k) /\ ~m.caps))
        BY <1>2, <1>6, <2>2
      <3>2. k.caps = ~m.caps /\ m.caps \in BOOLEAN
        BY <1>1, <1>3, <1>6, <3>1
      <3>3. n(k) < n(m) \/ (n(k) = n(m) /\ ~k.caps)
        <4>1. n(m) \in Nat /\ n(k) \in Nat
          BY <1>1, <1>6, <3>1
        <4>2. n(k) < n(m) \/ n(k) = n(m)
          BY <3>1, <4>1
        <4> QED
          BY <3>1, <3>2, <4>2
      <3>4. ASSUME NEW l \in L \ {k}, EqualFold(l, k)
            PROVE  l = m
        <4>1. EqualFold(l, m) /\ l.caps = ~k.caps
          BY <1>3, <1>5, <1>6, <3>1, <3>4
        <4>2. ASSUME l # m
              PROVE  FALSE
          <5>1. l.caps = ~m.caps
            BY <1>3, <1>6, <4>1, <4>2
          <5>2. k.caps \in BOOLEAN
            BY <1>1, <3>1
          <5> QED
            BY <3>2, <4>1, <5>1, <5>2
        <4> QED
          BY <4>2
      <3>5. TakesCosts(v, k)
        BY <1>2, <3>1, <3>3, <3>4
      <3>6. EqualFold(m, k)
        BY <1>4, <1>6, <3>1
      <3> QED
        BY <3>1, <3>5, <3>6
    <2> QED
      BY <2>1, <2>2
  <1> QED
    BY <1>7, <1>8 DEF L

\* The costs of the models add up to the total cost, and the rows with a price
\* and those without one to all rows.
LEMMA CostsAddUp ==
  ASSUME NEW v, NEW s \in Seq(UsageRows), v.models = s, v.costs = s,
         \A i \in DOMAIN s : v.charges[i] # Unpriced => v.charges[i] \in Int
  PROVE  LET cost == TotalCost(v)
         IN  /\ \A f \in DOMAIN cost : SumOver(CostByModel(v), f) = cost[f]
             /\ cost.calls + cost.unpriced = Len(s)
             /\ SumFunction(UnpricedByModel(v)) = cost.unpriced
  <1> DEFINE D == DOMAIN s
             P == Priced(v, D)
             U == D \ P
             L == DOMAIN Listed(v)
             key == [i \in D |-> CHOOSE k \in L : EqualFold(s[i].model, k) /\ TakesCosts(v, k)]
             cost == TotalCost(v)
  <1>1. L = {s[i].model : i \in D} /\ D = 1 .. Len(s) /\ Len(s) \in Nat
    <2>1. Listed(v) = Grouped(s, ModelOf)
      BY DEF Listed
    <2>2. DOMAIN Grouped(s, ModelOf) = {s[i].model : i \in D}
      BY ModelGroups
    <2> QED
      BY <2>1, <2>2
  <1>2. IsFiniteSet(D) /\ Cardinality(D) = Len(s)
    BY <1>1, PlacesCount
  <1>3. IsFiniteSet(L)
    <2> DEFINE f == [i \in D |-> s[i].model]
    <2>1. f \in Surjection(D, L)
      BY <1>1 DEF Surjection
    <2> QED
      BY <1>2, <2>1, FS_Surjection
  <1>4. /\ P \subseteq D /\ U \subseteq D /\ P \cap U = {} /\ P \cup U = D
        /\ \A i \in P : v.charges[i] \in Int
    BY DEF Priced
  <1>5. IsFiniteSet(P) /\ IsFiniteSet(U) /\ Cardinality(P) + Cardinality(U) = Cardinality(D)
    <2>1. IsFiniteSet(P) /\ IsFiniteSet(U)
      BY <1>2, <1>4, FS_Subset
    <2>2. Cardinality(P \cup U) = Cardinality(P) + Cardinality(U) - Cardinality(P \cap U)
      BY <2>1, FS_Union
    <2>3. Cardinality(P \cap U) = 0
      BY <1>4, FS_EmptySet
    <2>4. Cardinality(P) \in Nat /\ Cardinality(U) \in Nat
      BY <2>1, FS_CardinalityType
    <2> QED
      BY <1>4, <2>1, <2>2, <2>3, <2>4
  <1>6. /\ cost.calls = Cardinality(P) /\ cost.unpriced = Cardinality(U)
        /\ cost.cost = SumFunctionOnSet(v.charges, P)
        /\ DOMAIN cost = {"calls", "unpriced", "cost"}
    BY DEF TotalCost, CostOf
  <1>7. \A i \in D : key[i] \in L /\ EqualFold(s[i].model, key[i]) /\ TakesCosts(v, key[i])
    <2> TAKE i \in D
    <2>1. s[i].model \in L
      BY <1>1
    <2> QED
      BY <2>1, OneTakesCosts
  <1> HIDE DEF L, key
  <1>8. ASSUME NEW m \in L
        PROVE  CostByModel(v)[m] = CostOf(v, Having(D, key, m))
    <2> DEFINE R == IF TakesCosts(v, m) THEN {i \in D : EqualFold(s[i].model, m)} ELSE {}
    <2>1. CostByModel(v)[m] = CostOf(v, R)
      BY DEF CostByModel, L
    <2>2. ASSUME NEW i \in D, key[i] = m
          PROVE  i \in R
      BY <1>7, <2>2
    <2>3. ASSUME NEW i \in R
          PROVE  key[i] = m
      <3>1. i \in D /\ EqualFold(s[i].model, m) /\ TakesCosts(v, m)
        OBVIOUS
      <3>2. key[i] \in L /\ EqualFold(s[i].model, key[i]) /\ TakesCosts(v, key[i])
        BY <1>7, <3>1
      <3>3. EqualFold(m, key[i])
        BY <3>1, <3>2 DEF EqualFold
      <3> QED
        BY <3>1, <3>2, <3>3, OneTakesCosts DEF L
    <2>4. R = Having(D, key, m)
      BY <2>2, <2>3 DEF Having
    <2> QED
      BY <2>1, <2>4
  <1>9. DOMAIN CostByModel(v) = L
    BY DEF CostByModel, L
  <1>10. ASSUME NEW m \in L
         PROVE  LET c == CostByModel(v)[m]
                IN  /\ c.calls = Cardinality(Having(P, key, m))
                    /\ c.unpriced = Cardinality(Having(U, key, m))
                    /\ c.cost = SumFunctionOnSet(v.charges, Having(P, key, m))
    <2> DEFINE H == Having(D, key, m)
    <2>1. Priced(v, H) = Having(P, key, m) /\ H \ Priced(v, H) = Having(U, key, m)
      BY DEF Priced, Having
    <2> HIDE DEF H, P, U
    <2>2. CostByModel(v)[m] = CostOf(v, H)
      BY <1>8 DEF H
    <2>3. /\ CostOf(v, H).calls = Cardinality(Priced(v, H))
          /\ CostOf(v, H).unpriced = Cardinality(H \ Priced(v, H))
          /\ CostOf(v, H).cost = SumFunctionOnSet(v.charges, Priced(v, H))
      BY DEF CostOf
    <2> QED
      BY <2>1, <2>2, <2>3
  <1> HIDE DEF P, U, cost
  <1>11. SumOver(CostByModel(v), "calls") = Cardinality(P)
    <2> DEFINE c == [k \in L |-> Cardinality(Having(P, key, k))]
    <2>1. [k \in DOMAIN CostByModel(v) |-> CostByModel(v)[k]["calls"]] = c
      BY <1>9, <1>10
    <2>2. SumFunctionOnSet(c, L) = Cardinality(P)
      BY <1>3, <1>4, <1>5, <1>7, CountParts
    <2> QED
      BY <2>1, <2>2 DEF SumOver, SumFunction
  <1>12. SumOver(CostByModel(v), "unpriced") = Cardinality(U)
    <2> DEFINE c == [k \in L |-> Cardinality(Having(U, key, k))]
    <2>1. [k \in DOMAIN CostByModel(v) |-> CostByModel(v)[k]["unpriced"]] = c
      BY <1>9, <1>10
    <2>2. SumFunctionOnSet(c, L) = Cardinality(U)
      BY <1>3, <1>4, <1>5, <1>7, CountParts
    <2> QED
      BY <2>1, <2>2 DEF SumOver, SumFunction
  <1>13. SumOver(CostByModel(v), "cost") = SumFunctionOnSet(v.charges, P)
    <2> DEFINE c == [k \in L |-> SumFunctionOnSet(v.charges, Having(P, key, k))]
    <2>1. [k \in DOMAIN CostByModel(v) |-> CostByModel(v)[k]["cost"]] = c
      BY <1>9, <1>10
    <2>2. SumFunctionOnSet(c, L) = SumFunctionOnSet(v.charges, P)
      BY <1>3, <1>4, <1>5, <1>7, SumParts
    <2> QED
      BY <2>1, <2>2 DEF SumOver, SumFunction
  <1>14. SumFunction(UnpricedByModel(v)) = Cardinality(U)
    <2> DEFINE own == [i \in D |-> s[i].model]
               K == {own[i] : i \in U}
               c == [k \in K |-> Cardinality(Having(U, own, k))]
    <2>1. IsFiniteSet(K) /\ \A i \in U : own[i] \in K
      <3>1. K \subseteq L
        BY <1>1, <1>4
      <3> QED
        BY <1>3, <3>1, FS_Subset
    <2>2. \A i \in U : own[i] = s[i].model
      BY <1>4
    <2> HIDE DEF own
    <2>3. UnpricedByModel(v) = c
      <3>1. K = {s[i].model : i \in U}
        BY <2>2
      <3>2. \A k : Having(U, own, k) = {i \in U : s[i].model = k}
        BY <2>2 DEF Having
      <3>3. UnpricedByModel(v) = [m \in {s[i].model : i \in U} |->
                                     Cardinality({i \in U : s[i].model = m})]
        BY DEF UnpricedByModel, U, P
      <3> QED
        BY <3>1, <3>2, <3>3
    <2>4. SumFunctionOnSet(c, K) = Cardinality(U)
      BY <1>5, <2>1, CountParts
    <2> QED
      BY <2>3, <2>4 DEF SumFunction
  <1> QED
    BY <1>2, <1>5, <1>6, <1>11, <1>12, <1>13, <1>14 DEF cost

\* A lookup finds a price of the book or a manual one.
LEMMA PricesArePrices ==
  ASSUME NEW book, \A n \in DOMAIN book.prices : IsPrice(book.prices[n]),
         NEW manual, \A n \in DOMAIN manual : IsPrice(manual[n]),
         NEW r, NEW p \in RecordPrices(r, book, manual)
  PROVE  IsPrice(p)
  <1>1. ASSUME NEW n, NEW q \in Resolve(n, book, manual)
        PROVE  IsPrice(q)
    <2>1. \A c \in BookPrices(n, book) : IsPrice(c)
      BY DEF BookPrices
    <2>2. \A c \in IndexedPrices(n, book) : IsPrice(c)
      BY DEF IndexedPrices, Spellings
    <2> QED
      BY <1>1, <2>1, <2>2 DEF Resolve
  <1> QED
    BY <1>1 DEF RecordPrices

\* What a call costs at a price is a number.
LEMMA CostIsNumber ==
  ASSUME NEW r, \A f \in Counters : r[f] \in Int, NEW p, IsPrice(p)
  PROVE  Cost(r, p) \in Int
  <1>1. /\ r.input \in Int /\ r.output \in Int /\ r.reasoning \in Int
        /\ r.cached \in Int /\ r.cacheRead \in Int /\ r.cacheNew \in Int
    BY DEF Counters
  <1>2. p.input \in Int /\ p.output \in Int /\ p.cacheRead \in Int /\ p.cacheNew \in Int
    BY DEF IsPrice, RateColumns
  <1>3. \A a, b \in Int : Charge(a, b) \in Int
    BY DEF Charge
  <1>4. CacheRead(r) \in Int
    BY <1>1 DEF CacheRead
  <1>5. Billable(r, p) \in Int
    <2>1. r.input - CacheRead(r) - r.cacheNew \in Int
      BY <1>1, <1>4
    <2>2. Max({r.input - CacheRead(r) - r.cacheNew, 0}) \in Int
      BY <2>1, MaxOfTwo
    <2> QED
      BY <1>1, <2>2 DEF Billable
  <1>6. r.output + (IF ReasoningSeparate(r) THEN r.reasoning ELSE 0) \in Int
    BY <1>1
  <1>7. /\ Charge(Billable(r, p), p.input) \in Int
        /\ Charge(r.output + (IF ReasoningSeparate(r) THEN r.reasoning ELSE 0), p.output) \in Int
        /\ Charge(CacheRead(r), p.cacheRead) \in Int /\ Charge(r.cacheNew, p.cacheNew) \in Int
    BY <1>1, <1>2, <1>3, <1>4, <1>5, <1>6
  <1> QED
    BY <1>7 DEF Cost

\* A row that has a price is charged a number.
LEMMA ChargesAreNumbers ==
  ASSUME StateOK, view.book = [book |-> Book, manual |-> overrides],
         NEW s \in Seq(UsageRows), NEW i \in DOMAIN s, Charges(s)[i] # Unpriced
  PROVE  Charges(s)[i] \in Int
  <1> DEFINE costs == Costs(s[i], Book, overrides)
  <1>1. Charges(s)[i] = IF costs = {} THEN Unpriced ELSE CHOOSE c \in costs : TRUE
    BY DEF Charges
  <1>2. Charges(s)[i] \in costs
    BY <1>1
  <1>3. PICK p \in RecordPrices(s[i], Book, overrides) : Charges(s)[i] = Cost(s[i], p)
    BY <1>2 DEF Costs
  <1>4. \A n \in DOMAIN Book.prices : IsPrice(Book.prices[n])
    <2>1. CASE installed
      BY <2>1, DashboardAssumption DEF Book
    <2>2. CASE ~installed
      <3>1. DOMAIN Book.prices = {}
        BY <2>2 DEF Book, EmptyBook
      <3> QED
        BY <3>1
    <2> QED
      BY <2>1, <2>2
  <1>5. \A n \in DOMAIN overrides : IsPrice(overrides[n])
    BY DEF StateOK, OverridesOK
  <1>6. IsPrice(p)
    BY <1>3, <1>4, <1>5, PricesArePrices
  <1>7. \A f \in Counters : s[i][f] \in Int
    BY CountersAre
  <1> QED
    BY <1>3, <1>6, <1>7, CostIsNumber

\* Each call is in one bucket of a histogram.
LEMMA HistogramAddsUp ==
  ASSUME NEW S, NEW s \in Seq(S), NEW f, NEW bounds, NEW n \in Nat, DOMAIN bounds = 1 .. n,
         Len(bounds) = n
  PROVE  SumFunction(Histogram(s, f, bounds)) = Len(s)
  <1> DEFINE D == DOMAIN s
             K == 0 .. n
             key == [i \in D |-> Bucket(s[i][f], bounds)]
             c == [b \in K |-> Cardinality(Having(D, key, b))]
  <1>1. D = 1 .. Len(s) /\ IsFiniteSet(D) /\ Cardinality(D) = Len(s)
    <2>1. D = 1 .. Len(s) /\ Len(s) \in Nat
      OBVIOUS
    <2> QED
      BY <2>1, PlacesCount
  <1>2. IsFiniteSet(K)
    BY FS_Interval
  <1>3. \A i \in D : key[i] \in K
    <2> TAKE i \in D
    <2> DEFINE B == {j \in 1 .. n : bounds[j] <= s[i][f]}
    <2>1. IsFiniteSet(1 .. n) /\ Cardinality(1 .. n) = n
      BY PlacesCount
    <2>2. IsFiniteSet(B) /\ Cardinality(B) <= n
      BY <2>1, FS_Subset
    <2>3. Cardinality(B) \in Nat
      BY <2>2, FS_CardinalityType
    <2>4. key[i] = Cardinality(B)
      BY DEF Bucket
    <2> QED
      BY <2>2, <2>3, <2>4
  <1>4. Histogram(s, f, bounds) = c
    BY DEF Histogram, Count, Having
  <1> HIDE DEF key, D, K
  <1>5. SumFunctionOnSet(c, K) = Cardinality(D)
    BY <1>1, <1>2, <1>3, CountParts
  <1> QED
    BY <1>1, <1>4, <1>5 DEF SumFunction

\* Only failures have a status code that is shown.
LEMMA CodesAddUp ==
  ASSUME NEW s \in Seq(UsageRows)
  PROVE  SumFunction(StatusCodes(s)) <= Failures(s)
  <1> DEFINE D == DOMAIN s
             J == {i \in D : Coded(s[i])}
             F == {i \in D : s[i].failed}
             key == [i \in D |-> s[i].code]
             K == {key[i] : i \in J}
             c == [k \in K |-> Cardinality(Having(J, key, k))]
  <1>1. IsFiniteSet(D)
    <2>1. D = 1 .. Len(s) /\ Len(s) \in Nat
      OBVIOUS
    <2> QED
      BY <2>1, PlacesCount
  <1>2. J \subseteq F /\ F \subseteq D
    BY DEF Coded
  <1>3. IsFiniteSet(F) /\ IsFiniteSet(J) /\ Cardinality(J) <= Cardinality(F)
    BY <1>1, <1>2, FS_Subset
  <1>4. IsFiniteSet(K) /\ \A i \in J : key[i] \in K
    <2> DEFINE f == [i \in J |-> key[i]]
    <2>1. f \in Surjection(J, K)
      BY DEF Surjection
    <2> QED
      BY <1>3, <2>1, FS_Surjection
  <1>5. \A i \in D : key[i] = s[i].code
    OBVIOUS
  <1>6. StatusCodes(s) = c
    <2>1. K = {r.code : r \in {r \in Range(s) : Coded(r)}}
      BY <1>5 DEF Range
    <2>2. \A k : Having(J, key, k) = {i \in D : Coded(s[i]) /\ s[i].code = k}
      BY <1>5 DEF Having
    <2> HIDE DEF key, J, K
    <2> QED
      BY <2>1, <2>2 DEF StatusCodes, Count
  <1> HIDE DEF key, J, K
  <1>7. SumFunctionOnSet(c, K) = Cardinality(J)
    BY <1>3, <1>4, CountParts
  <1>8. Failures(s) = Cardinality(F)
    BY DEF Failures, Count
  <1> QED
    BY <1>3, <1>6, <1>7, <1>8 DEF SumFunction

\* Sequences of the same rows have the same length.
LEMMA SameRowsLength ==
  ASSUME NEW s \in Seq(UsageRows), DistinctIds(s), NEW t \in Seq(UsageRows), DistinctIds(t),
         Range(s) = Range(t), NEW T
  PROVE  Within(s, T) = Within(t, T) /\ Len(s) = Len(t)
  <1>1. /\ \A i, j \in DOMAIN s : s[i] = s[j] => i = j
        /\ \A i, j \in DOMAIN t : t[i] = t[j] => i = j
    BY DEF DistinctIds
  <1>2. Within(s, T) = Within(t, T) /\ Within(s, UsageRows) = Within(t, UsageRows)
    BY <1>1, SameRowsCount
  <1> QED
    BY <1>2, WithinAll

\* The failures the scan counts are those SQL counted.
LEMMA HealthAgrees ==
  ASSUME NEW s \in Seq(UsageRows), DistinctIds(s), NEW t \in Seq(UsageRows), DistinctIds(t),
         Range(s) = Range(t), NEW m \in DOMAIN Grouped(s, ModelOf)
  PROVE  Health(Grouped(s, ModelOf), t, ModelOf)[m].failed = Grouped(s, ModelOf)[m].failed
  <1> DEFINE I == {i \in DOMAIN t : t[i].model = m}
             u == RowsAt(t, I, Ascending(I))
             T == {r \in Failed : r.model = m}
  <1>1. Health(Grouped(s, ModelOf), t, ModelOf)[m].failed = Failures(u)
    BY DEF Health, Part, Where, ModelOf
  <1>2. I \in SUBSET DOMAIN t
    OBVIOUS
  <1>3. {i \in I : t[i] \in Failed} = {i \in DOMAIN t : t[i] \in T}
    OBVIOUS
  <1> HIDE DEF I
  <1>4. u \in Seq(UsageRows) /\ Within(u, Failed) = Cardinality({i \in I : t[i] \in Failed})
    <2>1. u \in Seq(UsageRows)
      BY <1>2, SelectionPlaces
    <2>2. Within(u, Failed) = Cardinality({i \in I : t[i] \in Failed})
      BY <1>2, SelectionCount
    <2> QED
      BY <2>1, <2>2
  <1> HIDE DEF u
  <1>5. Failures(u) = Within(u, Failed)
    BY <1>4, FailuresAre
  <1>6. Within(t, T) = Cardinality({i \in DOMAIN t : t[i] \in T})
    BY DEF Within
  <1>7. Within(t, T) = Within(s, T)
    BY SameRowsLength
  <1>8. Grouped(s, ModelOf)[m].failed = Within(s, T)
    BY ModelGroups
  <1> QED
    BY <1>1, <1>3, <1>4, <1>5, <1>6, <1>7, <1>8

-----------------------------------------------------------------------------
(***************************************************************************)
(* The summary of usage.db                                                 *)
(***************************************************************************)

\* A set whose members are all equal.
Single(S) == \A p, q \in S : p = q

\* A set whose members are all equal has at most one.
LEMMA SingleCardinality ==
  ASSUME NEW S, Single(S)
  PROVE  Cardinality(S) <= 1
  <1>1. CASE S = {}
    BY <1>1, FS_EmptySet
  <1>2. CASE S # {}
    <2>1. PICK p \in S : TRUE
      BY <1>2
    <2>2. S = {p}
      BY <2>1 DEF Single
    <2>3. Cardinality({p}) = 1
      BY FS_Singleton
    <2> QED
      BY <2>2, <2>3
  <1> QED
    BY <1>1, <1>2

\* The spelling a model is shown by is one of its spellings.
LEMMA FirstSpellingIsOne ==
  ASSUME NEW s \in Seq(UsageRows), NEW m \in DOMAIN Grouped(s, ModelOf)
  PROVE  EqualFold(FirstSpelling(s, m), m)
  <1> DEFINE same == {r.model : r \in {r \in Range(s) : EqualFold(r.model, m)}}
  <1>1. \A k \in same : IsName(k) /\ EqualFold(k, m)
    <2>1. \A r \in Range(s) : IsName(r.model)
      BY StoredFacts DEF Range
    <2> QED
      BY <2>1
  <1>2. same # {}
    <2>0. DOMAIN Grouped(s, ModelOf) = {s[i].model : i \in DOMAIN s}
      BY ModelGroups
    <2>1. PICK i \in DOMAIN s : s[i].model = m
      BY <2>0
    <2>2. s[i] \in Range(s) /\ EqualFold(m, m)
      BY DEF Range, EqualFold
    <2> QED
      BY <2>1, <2>2
  <1> HIDE DEF same
  <1>3. Cardinality(same) = 2 => \E k \in same : k.caps
    <2> HAVE Cardinality(same) = 2
    <2>1. ~Single(same)
      BY SingleCardinality
    <2>2. PICK k \in same, l \in same : k # l
      BY <2>1 DEF Single
    <2>3. EqualFold(k, l)
      BY <1>1 DEF EqualFold
    <2>4. k.caps # l.caps
      BY <1>1, <2>2, <2>3, SameSpelling
    <2>5. k.caps \in BOOLEAN /\ l.caps \in BOOLEAN
      BY <1>1 DEF IsName
    <2> QED
      BY <2>4, <2>5
  <1>4. FirstSpelling(s, m) = IF Cardinality(same) = 2 THEN CHOOSE k \in same : k.caps
                                                       ELSE CHOOSE k \in same : TRUE
    BY DEF FirstSpelling, same
  <1>5. FirstSpelling(s, m) \in same
    BY <1>2, <1>3, <1>4
  <1> QED
    BY <1>1, <1>5

\* The provider a model is listed with served it, and served all of its calls
\* exactly when no others are counted.
LEMMA DominantServed ==
  ASSUME NEW s \in Seq(UsageRows), NEW m \in DOMAIN Grouped(s, ModelOf),
         NEW label \in Dominant(s, m)
  PROVE  LET rows == {r \in Range(s) : EqualFold(r.model, m)}
             served == {r \in rows : LabelOf(r) = label}
         IN  served # {} /\ (Others(s, m) = 0 <=> served = rows)
  <1> DEFINE rows == {r \in Range(s) : EqualFold(r.model, m)}
             served == {r \in rows : LabelOf(r) = label}
             L == {LabelOf(r) : r \in rows}
  <1>1. PICK x \in Range(s) : x.model = FirstSpelling(s, m) /\ label = LabelOf(x)
    BY DEF Dominant
  <1>2. EqualFold(x.model, m)
    BY <1>1, FirstSpellingIsOne
  <1>3. x \in served
    BY <1>1, <1>2
  <1>4. IsFiniteSet(L)
    <2> DEFINE f == [r \in rows |-> LabelOf(r)]
    <2>1. IsFiniteSet(rows)
      BY RangeFinite, FS_Subset
    <2>2. f \in Surjection(rows, L)
      BY DEF Surjection
    <2> HIDE DEF f, L, rows
    <2> QED
      BY <2>1, <2>2, FS_Surjection
  <1>5. Others(s, m) = Cardinality(L) - 1
    BY DEF Others
  <1>6. label \in L
    BY <1>3
  <1>7. Cardinality(L) \in Nat
    BY <1>4, FS_CardinalityType
  <1>8. ASSUME served = rows
        PROVE  Others(s, m) = 0
    <2>1. L = {label}
      BY <1>6, <1>8
    <2>2. Cardinality({label}) = 1
      BY FS_Singleton
    <2> HIDE DEF L
    <2> QED
      BY <1>5, <2>1, <2>2
  <1>9. ASSUME Others(s, m) = 0
        PROVE  served = rows
    <2>1. Cardinality(L) = 1
      BY <1>5, <1>7, <1>9
    <2>2. PICK y : L = {y}
      BY <1>4, <2>1, FS_Singleton
    <2>3. \A r \in rows : LabelOf(r) = label
      BY <1>6, <2>2
    <2> QED
      BY <2>3
  <1> QED
    BY <1>3, <1>8, <1>9

\* What a summary of usage.db has read when nothing was written meanwhile: the
\* same calls with every query, and with the scan in another order.
LEMMA QuietSummary ==
  ASSUME StateOK, SnapshotOK, IsAnswer("summary", "plugin"), Quiet
  PROVE  /\ \A q \in {"totals", "models", "aliases", "providers", "keys", "hours",
                      "samples", "codes", "costs", "servers"} :
               q \in DOMAIN view /\ view[q] = Chosen /\ PluginView[q] = Chosen
         /\ view.scan = NewestFirst(Chosen) /\ PluginView.scan = view.scan
         /\ view.book = [book |-> Book, manual |-> overrides]
         /\ PluginView.charges = Charges(Chosen)
  <1>1. /\ req # Idle /\ DOMAIN view = Asked /\ req.kind = "summary" /\ req.source = "plugin"
        /\ writes = 0
    BY DEF IsAnswer, Answered, Quiet
  <1>2. Plan = PluginPlan.summary
    BY <1>1 DEF Plan
  <1>3. {"totals", "models", "aliases", "providers", "keys", "hours", "samples", "codes",
         "book", "costs", "scan", "servers"} \subseteq DOMAIN view
    <2>1. /\ DOMAIN Plan = 1 .. 12
          /\ Plan[1] = "totals" /\ Plan[2] = "models" /\ Plan[3] = "aliases"
          /\ Plan[4] = "providers" /\ Plan[5] = "keys" /\ Plan[6] = "hours"
          /\ Plan[7] = "samples" /\ Plan[8] = "codes" /\ Plan[9] = "book"
          /\ Plan[10] = "costs" /\ Plan[11] = "scan" /\ Plan[12] = "servers"
      BY <1>2 DEF PluginPlan
    <2>2. \A i \in 1 .. 12 : Plan[i] \in DOMAIN view
      BY <1>1, <2>1 DEF Asked
    <2> QED
      BY <2>1, <2>2
  <1>4. \A q \in DOMAIN view : view[q] = Rows(q)
    BY <1>1 DEF SnapshotOK
  <1>5. \A q \in {"totals", "models", "aliases", "providers", "keys", "hours",
                  "samples", "codes", "costs", "servers"} : Rows(q) = Chosen
    BY DEF Rows, Chosen
  <1>6. Rows("scan") = NewestFirst(Chosen)
    BY DEF Rows, Chosen
  <1>7. Rows("book") = [book |-> Book, manual |-> overrides]
    BY DEF Rows
  <1>8. \A q \in DOMAIN view : q # "charges" => PluginView[q] = view[q]
    BY DEF PluginView
  <1>9. PluginView.charges = Charges(view.costs)
    BY DEF PluginView
  <1> QED
    BY <1>3, <1>4, <1>5, <1>6, <1>7, <1>8, <1>9

\* The parts of one summary tell the same story when nothing was written while it
\* ran, whatever the calls, the prices and the filter (Summary of store.go).
THEOREM SummaryIsConsistent == Spec => []SummaryAgrees
  <1>1. ASSUME StateOK, SnapshotOK
        PROVE  SummaryAgrees
    <2> DEFINE v == PluginView
               s == Chosen
               t == Aggregate(v.totals)
               g(i) == <<Grouped(v.models, ModelOf), Grouped(v.aliases, AliasOf),
                         Grouped(v.providers, ProviderOf), Grouped(v.keys, KeyOf)>>[i]
               hours == [h \in DOMAIN ByHour(v) |-> ByHour(v)[h].totals]
               cost == TotalCost(v)
    <2> SUFFICES ASSUME IsAnswer("summary", "plugin"), Quiet
                 PROVE  /\ \A i \in 1 .. 4, f \in DOMAIN t : SumOver(g(i), f) = t[f]
                        /\ \A f \in {"calls", "failed", "total"} : SumOver(hours, f) = t[f]
                        /\ cost.calls + cost.unpriced = t.calls
                        /\ \A f \in DOMAIN cost : SumOver(CostByModel(v), f) = cost[f]
                        /\ SumFunction(UnpricedByModel(v)) = cost.unpriced
                        /\ \A m \in DOMAIN g(1) :
                              Health(g(1), v.scan, ModelOf)[m].failed = g(1)[m].failed
                        /\ SumFunction(Histogram(v.scan, "latency", LatencyBounds)) = t.calls
                        /\ SumFunction(StatusCodes(v.codes)) <= t.failed
                        /\ \A m \in DOMAIN g(1), label \in Range(Labels) :
                              label \in Dominant(v.servers, m) =>
                                 LET rows == {r \in Range(v.scan) : EqualFold(r.model, m)}
                                     served == {r \in rows : LabelOf(r) = label}
                                 IN served # {} /\ (Others(v.servers, m) = 0 <=> served = rows)
      BY DEF SummaryAgrees
    <2>1. s \in Seq(UsageRows) /\ DistinctIds(s)
      BY <1>1, ChosenIsTable
    <2>2. /\ v.totals = s /\ v.models = s /\ v.aliases = s /\ v.providers = s /\ v.keys = s
          /\ v.hours = s /\ v.codes = s /\ v.costs = s /\ v.servers = s
          /\ v.scan = NewestFirst(s) /\ v.charges = Charges(s)
          /\ view.book = [book |-> Book, manual |-> overrides]
      BY <1>1, QuietSummary
    <2>3. /\ v.scan \in Seq(UsageRows) /\ DistinctIds(v.scan) /\ Range(v.scan) = Range(s)
      BY <2>1, <2>2, NewestLists
    <2> HIDE DEF v, s
    <2>4. t = Aggregate(s) /\ t.calls = Len(s) /\ t.failed = Failures(s)
      BY <2>2 DEF Aggregate
    <2>5. ASSUME NEW i \in 1 .. 4, NEW f \in DOMAIN t
          PROVE  SumOver(g(i), f) = t[f]
      <3>1. \A key : SumOver(Groups(s, key), f) = t[f]
        <4>1. f \in DOMAIN Aggregate(s) /\ t[f] = Aggregate(s)[f]
          BY <2>4
        <4> HIDE DEF t, g
        <4> QED
          BY <2>1, <4>1, GroupTotals
      <3>2. \E key : g(i) = Groups(s, key)
        <4>1. /\ g(1) = Grouped(s, ModelOf) /\ g(2) = Grouped(s, AliasOf)
              /\ g(3) = Grouped(s, ProviderOf) /\ g(4) = Grouped(s, KeyOf)
          BY <2>2
        <4>2. i = 1 \/ i = 2 \/ i = 3 \/ i = 4
          OBVIOUS
        <4> HIDE DEF g
        <4> QED
          BY <4>1, <4>2, GroupedParts
      <3> HIDE DEF g, t
      <3> QED
        BY <3>1, <3>2
    <2>6. \A f \in {"calls", "failed", "total"} : SumOver(hours, f) = t[f]
      <3> DEFINE key == [i \in DOMAIN s |-> HourOf(s[i])]
      <3>1. hours = [k \in DOMAIN Parted(s, key) |-> HourTotals(Parted(s, key)[k])]
        BY <2>2, HourParts
      <3> HIDE DEF hours, key
      <3> QED
        BY <2>1, <2>4, <3>1, PartedTotals
    <2>7. /\ cost.calls + cost.unpriced = t.calls
          /\ \A f \in DOMAIN cost : SumOver(CostByModel(v), f) = cost[f]
          /\ SumFunction(UnpricedByModel(v)) = cost.unpriced
      <3>1. \A i \in DOMAIN s : v.charges[i] # Unpriced => v.charges[i] \in Int
        BY <1>1, <2>1, <2>2, ChargesAreNumbers
      <3> QED
        BY <2>1, <2>2, <2>4, <3>1, CostsAddUp
    <2>8. g(1) = Grouped(s, ModelOf)
      BY <2>2
    <2>9. \A m \in DOMAIN g(1) : Health(g(1), v.scan, ModelOf)[m].failed = g(1)[m].failed
      BY <2>1, <2>3, <2>8, HealthAgrees
    <2>10. SumFunction(Histogram(v.scan, "latency", LatencyBounds)) = t.calls
      <3>1. DOMAIN LatencyBounds = 1 .. 8 /\ Len(LatencyBounds) = 8 /\ 8 \in Nat
        BY DEF LatencyBounds
      <3>2. SumFunction(Histogram(v.scan, "latency", LatencyBounds)) = Len(v.scan)
        BY <2>3, <3>1, HistogramAddsUp
      <3>3. Len(v.scan) = Len(s)
        BY <2>1, <2>3, SameRowsLength
      <3> QED
        BY <2>4, <3>2, <3>3
    <2>11. SumFunction(StatusCodes(v.codes)) <= t.failed
      BY <2>1, <2>2, <2>4, CodesAddUp
    <2>12. ASSUME NEW m \in DOMAIN g(1), NEW label \in Dominant(v.servers, m)
           PROVE  LET rows == {r \in Range(v.scan) : EqualFold(r.model, m)}
                      served == {r \in rows : LabelOf(r) = label}
                  IN served # {} /\ (Others(v.servers, m) = 0 <=> served = rows)
      BY <2>1, <2>2, <2>3, <2>8, <2>12, DominantServed
    <2> HIDE DEF t, g, hours, cost
    <2> QED
      BY <2>5, <2>6, <2>7, <2>9, <2>10, <2>11, <2>12
  <1> QED
    BY <1>1, SnapshotInvariant, PTL

-----------------------------------------------------------------------------
(***************************************************************************)
(* The two summaries of the same rows                                      *)
(***************************************************************************)

\* The router's summary of the rows of usage.db sees the same columns.
LEMMA AsRoutedFacts ==
  ASSUME NEW s \in Seq(UsageRows)
  PROVE  LET a == AsRouted(s)
         IN  /\ DOMAIN a = DOMAIN s /\ a \in Seq({a[i] : i \in DOMAIN s}) /\ Len(a) = Len(s)
             /\ \A i \in DOMAIN s, f \in Columns : a[i][f] = s[i][f]
             /\ \A f \in Columns : Values(a, f) = Values(s, f)
  <1> DEFINE a == AsRouted(s)
             n == Len(s)
  <1>1. DOMAIN s = 1 .. n /\ n \in Nat
    OBVIOUS
  <1>2. DOMAIN a = 1 .. n /\ a = [i \in 1 .. n |-> a[i]]
    BY <1>1 DEF AsRouted
  <1>3. ASSUME NEW i \in DOMAIN s, NEW f \in Columns
        PROVE  a[i][f] = s[i][f]
    <2>1. f \in DOMAIN s[i]
      BY StoredFacts
    <2> QED
      BY <2>1 DEF AsRouted
  <1> HIDE DEF a
  <1>4. a \in Seq({a[i] : i \in DOMAIN s}) /\ Len(a) = n
    BY <1>1, <1>2
  <1>5. \A f \in Columns : Values(a, f) = Values(s, f)
    BY <1>1, <1>2, <1>3 DEF Values
  <1> QED
    BY <1>1, <1>2, <1>3, <1>4, <1>5 DEF a

\* Calls that hang are among those with a latency.
LEMMA HungArePositive ==
  ASSUME NEW xs \in Seq(Int)
  PROVE  Exceeding(Positive(xs), 300) = Exceeding(xs, 300)
  <1> DEFINE I == {i \in DOMAIN xs : xs[i] > 0}
             t == RowsAt(xs, I, Ascending(I))
             T == {x \in Int : x > 300}
  <1>1. Positive(xs) = t
    BY DEF Positive, Where
  <1>2. I \in SUBSET DOMAIN xs
    OBVIOUS
  <1>3. {i \in I : xs[i] \in T} = {i \in DOMAIN xs : xs[i] > 300}
    OBVIOUS
  <1> HIDE DEF I, T
  <1>4. Within(t, T) = Cardinality({i \in I : xs[i] \in T})
    BY <1>2, SelectionCount
  <1>5. t \in Seq(Int)
    BY <1>2, SelectionPlaces
  <1> HIDE DEF t
  <1>6. {k \in DOMAIN t : t[k] \in T} = {k \in DOMAIN t : t[k] > 300}
    BY <1>5 DEF T
  <1> QED
    BY <1>1, <1>3, <1>4, <1>6 DEF Within, Exceeding, Count

\* Dropping what is not positive drops nothing when all is.
LEMMA AllPositive ==
  ASSUME NEW xs \in Seq(Int), \A i \in DOMAIN xs : xs[i] > 0
  PROVE  Positive(xs) = xs
  <1> DEFINE I == DOMAIN xs
             n == Len(xs)
             a == Arranged(I, Ascending(I))
             N == {p \in I \X I : p[1] < p[2]}
  <1>1. I = 1 .. n /\ n \in Nat /\ IsFiniteSet(I) /\ Cardinality(I) = n
    BY PlacesCount
  <1>2. {i \in I : xs[i] > 0} = I
    OBVIOUS
  <1>3. Positive(xs) = [k \in DOMAIN a |-> xs[a[k]]]
    BY <1>2 DEF Positive, Where, RowsAt
  <1>4. Orders(Ascending(I), I)
    <2>1. \A i \in I : i \in Nat
      BY <1>1
    <2> HIDE DEF I
    <2> QED
      BY <2>1 DEF Orders, Ascending
  <1>5. /\ DOMAIN a = 1 .. n
        /\ \A i \in I : a[Ahead(i, I, Ascending(I)) + 1] = i
    BY <1>1, <1>4, ArrangedFacts
  <1>6. ASSUME NEW i \in I
        PROVE  Ahead(i, I, Ascending(I)) = i - 1
    <2>1. {j \in I : <<j, i>> \in Ascending(I)} = 1 .. i - 1
      BY <1>1 DEF Ascending
    <2>2. i - 1 \in Nat
      BY <1>1
    <2>3. Cardinality(1 .. i - 1) = i - 1
      BY <2>2, PlacesCount
    <2> QED
      BY <2>1, <2>3 DEF Ahead
  <1>7. \A i \in 1 .. n : a[i] = i
    <2> TAKE i \in 1 .. n
    <2>1. i \in I /\ (i - 1) + 1 = i
      BY <1>1
    <2> QED
      BY <1>5, <1>6, <2>1
  <1> HIDE DEF a
  <1>8. Positive(xs) = [k \in 1 .. n |-> xs[k]]
    BY <1>3, <1>5, <1>7
  <1> QED
    BY <1>8

\* The slowest of the same rows are the same in whatever order they come.
LEMMA SlowestOfSameRows ==
  ASSUME NEW s \in Seq(UsageRows), DistinctIds(s), NEW t \in Seq(UsageRows), DistinctIds(t),
         Range(s) = Range(t)
  PROVE  FoldLeft(Keep, <<>>, Values(s, "latency")) = FoldLeft(Keep, <<>>, Values(t, "latency"))
  <1> DEFINE xs == Values(s, "latency")
             ys == Values(t, "latency")
  <1>1. \A r \in UsageRows : r.latency \in Int
    BY StoredFacts DEF Counters
  <1>2. /\ xs \in Seq(Int) /\ Len(xs) = Len(s) /\ ys \in Seq(Int) /\ Len(ys) = Len(t)
    BY <1>1, LatenciesAre
  <1>3. ASSUME NEW u \in Seq(UsageRows), NEW v \in Int
        PROVE  Reaching(Values(u, "latency"), v) = Within(u, {r \in UsageRows : r.latency >= v})
    <2>1. {i \in DOMAIN u : u[i] \in {r \in UsageRows : r.latency >= v}}
             = {i \in DOMAIN Values(u, "latency") : Values(u, "latency")[i] >= v}
      BY DEF Values
    <2> QED
      BY <2>1 DEF Within, Reaching
  <1>4. Len(xs) = Len(ys) /\ \A v \in Int : Reaching(xs, v) = Reaching(ys, v)
    <2>1. Len(s) = Len(t)
      BY SameRowsLength
    <2>2. ASSUME NEW v \in Int
          PROVE  Reaching(xs, v) = Reaching(ys, v)
      <3> DEFINE T == {r \in UsageRows : r.latency >= v}
      <3>1. Reaching(xs, v) = Within(s, T) /\ Reaching(ys, v) = Within(t, T)
        BY <1>3
      <3> HIDE DEF T, xs, ys
      <3> QED
        BY <3>1, SameRowsLength
    <2> QED
      BY <1>2, <2>1, <2>2
  <1> HIDE DEF xs, ys
  <1>5. TopList(FoldLeft(Keep, <<>>, xs), xs) /\ TopList(FoldLeft(Keep, <<>>, ys), ys)
    BY <1>2, KeptTops
  <1>6. FoldLeft(Keep, <<>>, xs) = FoldLeft(Keep, <<>>, ys)
    BY <1>4, <1>5, TopsSame DEF TopList
  <1> QED
    BY <1>6 DEF xs, ys

\* What the router's summary makes of the columns both have.
LEMMA RoutedTotals ==
  ASSUME NEW s \in Seq(UsageRows)
  PROVE  LET a == AsRouted(s)
             t == Aggregate(s)
             p == Performance(s)
         IN  /\ \A f \in {"calls", "failed", "input", "output", "reasoning", "total",
                          "latency", "ttft"} : Stats(a)[f] = t[f]
             /\ Exceeding(Positive(Values(a, "latency")), 300) = p.hung
             /\ Max(Range(Values(a, "latency")) \cup {0}) = p.max
             /\ Stats(a).cacheHits = p.cacheHits
             /\ Stats(a).pTTFT = p.pTTFT
             /\ (\A i \in DOMAIN s : s[i].latency > 0) => Stats(a).p = p.p
  <1> DEFINE a == AsRouted(s)
             t == Aggregate(s)
             p == Performance(s)
             Sums == {"input", "output", "reasoning", "total", "latency", "ttft"}
             xs == Values(s, "latency")
  <1>1. /\ DOMAIN a = DOMAIN s /\ Len(a) = Len(s)
        /\ \A i \in DOMAIN s, f \in Columns : a[i][f] = s[i][f]
        /\ \A f \in Columns : Values(a, f) = Values(s, f)
    BY AsRoutedFacts
  <1>2. Sums \subseteq Columns /\ {"failed", "cached", "cacheRead"} \subseteq Columns
    BY DEF Columns, Counters
  <1>3. xs \in Seq(Int)
    <2>1. \A r \in UsageRows : r.latency \in Int
      BY StoredFacts DEF Counters
    <2> QED
      BY <2>1, LatenciesAre
  <1> HIDE DEF a
  <1>4. /\ Stats(a)["calls"] = Len(a) /\ t["calls"] = Len(s)
        /\ Stats(a)["failed"] = Failures(a) /\ t["failed"] = Failures(s)
        /\ \A f \in Sums : Stats(a)[f] = Sum(a, f) /\ t[f] = Sum(s, f)
    BY DEF Stats, Aggregate
  <1>5. Failures(a) = Failures(s)
    <2>1. \A i \in DOMAIN s : a[i].failed = s[i].failed
      BY <1>1, <1>2
    <2>2. {i \in DOMAIN a : a[i].failed} = {i \in DOMAIN s : s[i].failed}
      BY <1>1, <2>1
    <2> QED
      BY <2>2 DEF Failures, Count
  <1>6. \A f \in Sums : Sum(a, f) = Sum(s, f)
    BY <1>1, <1>2 DEF Sum
  <1>7. Values(a, "latency") = xs /\ Values(a, "ttft") = Values(s, "ttft")
    BY <1>1, <1>2
  <1>8. /\ p.p = Percentiles(xs) /\ p.max = Max(Range(xs) \cup {0})
        /\ p.pTTFT = Percentiles(Positive(Values(s, "ttft")))
        /\ p.hung = Exceeding(xs, 300) /\ p.cacheHits = CacheHits(s)
    BY DEF Performance, Latencies
  <1>9. /\ Stats(a).cacheHits = Cardinality({i \in DOMAIN a : Cached(a[i]) > 0})
        /\ Stats(a).p = Percentiles(Positive(Values(a, "latency")))
        /\ Stats(a).pTTFT = Percentiles(Positive(Values(a, "ttft")))
    BY DEF Stats, Count
  <1>10. Cardinality({i \in DOMAIN a : Cached(a[i]) > 0}) = CacheHits(s)
    <2>1. ASSUME NEW i \in DOMAIN s
          PROVE  Cached(a[i]) > 0 <=> s[i].cached > 0 \/ s[i].cacheRead > 0
      <3>1. s[i].cached \in Nat /\ s[i].cacheRead \in Nat
        BY StoredFacts DEF Counters
      <3>2. a[i].cached = s[i].cached /\ a[i].cacheRead = s[i].cacheRead
        BY <1>1, <1>2
      <3> QED
        BY <3>1, <3>2 DEF Cached
    <2>2. {i \in DOMAIN a : Cached(a[i]) > 0}
             = {i \in DOMAIN s : s[i].cached > 0 \/ s[i].cacheRead > 0}
      BY <1>1, <2>1
    <2> QED
      BY <2>2 DEF CacheHits, Count
  <1>11. (\A i \in DOMAIN s : s[i].latency > 0) => Positive(xs) = xs
    <2> HAVE \A i \in DOMAIN s : s[i].latency > 0
    <2>1. \A i \in DOMAIN xs : xs[i] > 0
      BY DEF Values
    <2> QED
      BY <1>3, <2>1, AllPositive
  <1>12. Exceeding(Positive(xs), 300) = Exceeding(xs, 300)
    BY <1>3, HungArePositive
  <1> HIDE DEF xs, t, p, Sums
  <1>13. \A f \in {"calls", "failed"} \cup Sums : Stats(a)[f] = t[f]
    BY <1>1, <1>4, <1>5, <1>6
  <1>14. \A f \in {"calls", "failed", "input", "output", "reasoning", "total",
                   "latency", "ttft"} : Stats(a)[f] = t[f]
    BY <1>13 DEF Sums
  <1>15. /\ Exceeding(Positive(Values(a, "latency")), 300) = p.hung
         /\ Max(Range(Values(a, "latency")) \cup {0}) = p.max
         /\ Stats(a).cacheHits = p.cacheHits /\ Stats(a).pTTFT = p.pTTFT
         /\ (\A i \in DOMAIN s : s[i].latency > 0) => Stats(a).p = p.p
    <2>1. Exceeding(Positive(Values(a, "latency")), 300) = p.hung
      BY <1>7, <1>8, <1>12
    <2>2. Max(Range(Values(a, "latency")) \cup {0}) = p.max
      BY <1>7, <1>8
    <2>3. Stats(a).cacheHits = p.cacheHits
      BY <1>8, <1>9, <1>10
    <2>4. Stats(a).pTTFT = p.pTTFT
      BY <1>7, <1>8, <1>9
    <2>5. (\A i \in DOMAIN s : s[i].latency > 0) => Stats(a).p = p.p
      BY <1>7, <1>8, <1>9, <1>11
    <2> QED
      BY <2>1, <2>2, <2>3, <2>4, <2>5
  <1> QED
    BY <1>14, <1>15 DEF a, t, p

\* The costs of a summary do not depend on its columns, only on the models.
LEMMA RoutedCosts ==
  ASSUME NEW v, NEW s \in Seq(UsageRows), v.costs = s
  PROVE  LET there == RouterTotals(AsRouted(s), v.charges)
         IN  there.cost = TotalCost(v) /\ there.unpriced = UnpricedByModel(v)
  <1> DEFINE a == AsRouted(s)
             D == DOMAIN s
             w == [costs |-> [i \in DOMAIN a |-> [a[i] EXCEPT !.model = Named(@)]],
                   charges |-> v.charges]
             U == D \ {i \in D : v.charges[i] # Unpriced}
             M(x) == [m \in {x[i].model : i \in U} |-> Cardinality({i \in U : x[i].model = m})]
  <1>1. /\ DOMAIN a = D /\ \A i \in D, f \in Columns : a[i][f] = s[i][f]
        /\ a \in Seq({a[i] : i \in DOMAIN s})
    BY AsRoutedFacts
  <1>2. ASSUME NEW i \in D
        PROVE  w.costs[i].model = s[i].model
    <2>1. s[i].model # NoName /\ "model" \in DOMAIN s[i]
      BY StoredFacts DEF Columns
    <2>2. a[i].model = s[i].model
      BY <1>1 DEF Columns
    <2>3. "model" \in DOMAIN a[i]
      BY <2>1 DEF AsRouted
    <2> HIDE DEF a
    <2>4. w.costs[i] = [a[i] EXCEPT !.model = Named(@)]
      BY <1>1
    <2>5. w.costs[i].model = Named(a[i].model)
      BY <2>3, <2>4
    <2> QED
      BY <2>1, <2>2, <2>5 DEF Named
  <1>3. w.charges = v.charges /\ DOMAIN w.costs = D
    BY <1>1
  <1>4. /\ RouterTotals(a, v.charges).cost = TotalCost(w)
        /\ RouterTotals(a, v.charges).unpriced = UnpricedByModel(w)
    BY DEF RouterTotals
  <1> HIDE DEF a, w
  <1>5. TotalCost(w) = TotalCost(v)
    BY <1>3 DEF TotalCost, CostOf, Priced
  <1>6. UnpricedByModel(w) = M(w.costs) /\ UnpricedByModel(v) = M(s)
    BY <1>3 DEF UnpricedByModel, Priced
  <1>7. M(w.costs) = M(s)
    <2>1. \A i \in U : w.costs[i].model = s[i].model
      BY <1>2
    <2> HIDE DEF U
    <2>2. {w.costs[i].model : i \in U} = {s[i].model : i \in U}
      BY <2>1
    <2>3. \A m : {i \in U : w.costs[i].model = m} = {i \in U : s[i].model = m}
      BY <2>1
    <2> QED
      BY <2>2, <2>3
  <1> QED
    BY <1>4, <1>5, <1>6, <1>7 DEF a

\* The router's side names the models and keys that the plugin names.
LEMMA RoutedKeys ==
  ASSUME NEW s \in Seq(UsageRows)
  PROVE  /\ Keys(AsRouted(s), RouterModelOf) = Keys(s, ModelOf)
         /\ Keys(AsRouted(s), KeyOf) = Keys(s, KeyOf)
  <1> DEFINE a == AsRouted(s)
  <1>1. DOMAIN a = DOMAIN s /\ \A i \in DOMAIN s, f \in Columns : a[i][f] = s[i][f]
    BY AsRoutedFacts
  <1> HIDE DEF a
  <1>2. ASSUME NEW i \in DOMAIN s
        PROVE  RouterModelOf(a[i]) = ModelOf(s[i]) /\ KeyOf(a[i]) = KeyOf(s[i])
    <2>1. s[i].model # NoName
      BY StoredFacts
    <2>2. a[i].model = s[i].model /\ a[i].key = s[i].key /\ a[i].provider = s[i].provider
      BY <1>1 DEF Columns
    <2> QED
      BY <2>1, <2>2 DEF RouterModelOf, Named, ModelOf, KeyOf, ProviderOf
  <1>3. Keys(a, RouterModelOf) = Keys(s, ModelOf) /\ Keys(a, KeyOf) = Keys(s, KeyOf)
    BY <1>1, <1>2 DEF Keys
  <1> QED
    BY <1>3 DEF a

\* The groups of the router's side have as many calls as those of SQL.
LEMMA RoutedGroups ==
  ASSUME NEW s \in Seq(UsageRows)
  PROVE  LET d == Dimensions(AsRouted(s))
         IN  /\ DOMAIN d.byModel = DOMAIN Grouped(s, ModelOf)
             /\ DOMAIN d.byKey = DOMAIN Grouped(s, KeyOf)
             /\ \A m \in DOMAIN d.byModel : d.byModel[m].calls = Grouped(s, ModelOf)[m].calls
             /\ \A k \in DOMAIN d.byKey : d.byKey[k].calls = Grouped(s, KeyOf)[k].calls
  <1> DEFINE a == AsRouted(s)
             D == DOMAIN s
             A == {a[i] : i \in D}
  <1>1. DOMAIN a = D /\ a \in Seq(A) /\ \A i \in D, f \in Columns : a[i][f] = s[i][f]
    BY AsRoutedFacts
  <1> HIDE DEF a, A
  <1>2. ASSUME NEW i \in D
        PROVE  RouterModelOf(a[i]) = s[i].model /\ KeyOf(a[i]) = KeyOf(s[i])
    <2>1. s[i].model # NoName
      BY StoredFacts
    <2>2. a[i].model = s[i].model /\ a[i].key = s[i].key /\ a[i].provider = s[i].provider
      BY <1>1 DEF Columns
    <2> QED
      BY <2>1, <2>2 DEF RouterModelOf, Named, KeyOf, ProviderOf
  <1>3. ASSUME NEW m \in Keys(a, RouterModelOf)
        PROVE  By(a, RouterModelOf)[m].calls = Grouped(s, ModelOf)[m].calls
    <2> DEFINE I == {i \in D : s[i].model = m}
               t == RowsAt(a, I, Ascending(I))
               u == RowsAt(s, I, Ascending(I))
    <2>1. {i \in DOMAIN a : RouterModelOf(a[i]) = m} = I
      BY <1>1, <1>2
    <2>2. m \in Keys(s, ModelOf)
      BY <1>1, <1>2 DEF Keys, ModelOf
    <2>3. By(a, RouterModelOf)[m] = Stats(t)
      BY <2>1 DEF By, Part, Where
    <2>4. Grouped(s, ModelOf)[m] = Aggregate(u)
      BY <2>2 DEF Grouped, Part, Where, ModelOf
    <2>5. I \in SUBSET DOMAIN s /\ I \in SUBSET DOMAIN a
      BY <1>1
    <2> HIDE DEF I
    <2>6. Len(t) = Cardinality(I) /\ Len(u) = Cardinality(I)
      BY <1>1, <2>5, SelectionPlaces
    <2> HIDE DEF t, u
    <2>7. Stats(t).calls = Len(t) /\ Aggregate(u).calls = Len(u)
      BY DEF Stats, Aggregate
    <2> QED
      BY <2>3, <2>4, <2>6, <2>7
  <1>4. ASSUME NEW m \in Keys(a, KeyOf)
        PROVE  By(a, KeyOf)[m].calls = Grouped(s, KeyOf)[m].calls
    <2> DEFINE I == {i \in D : KeyOf(s[i]) = m}
               t == RowsAt(a, I, Ascending(I))
               u == RowsAt(s, I, Ascending(I))
    <2>1. {i \in DOMAIN a : KeyOf(a[i]) = m} = I
      BY <1>1, <1>2
    <2>2. m \in Keys(s, KeyOf)
      BY <1>1, <1>2 DEF Keys
    <2>3. By(a, KeyOf)[m] = Stats(t)
      BY <2>1 DEF By, Part, Where
    <2>4. Grouped(s, KeyOf)[m] = Aggregate(u)
      BY <2>2 DEF Grouped, Part, Where
    <2>5. I \in SUBSET DOMAIN s /\ I \in SUBSET DOMAIN a
      BY <1>1
    <2> HIDE DEF I
    <2>6. Len(t) = Cardinality(I) /\ Len(u) = Cardinality(I)
      BY <1>1, <2>5, SelectionPlaces
    <2> HIDE DEF t, u
    <2>7. Stats(t).calls = Len(t) /\ Aggregate(u).calls = Len(u)
      BY DEF Stats, Aggregate
    <2> QED
      BY <2>3, <2>4, <2>6, <2>7
  <1>5. /\ Dimensions(a).byModel = By(a, RouterModelOf) /\ Dimensions(a).byKey = By(a, KeyOf)
        /\ DOMAIN By(a, RouterModelOf) = Keys(a, RouterModelOf)
        /\ DOMAIN By(a, KeyOf) = Keys(a, KeyOf)
    BY DEF Dimensions, By
  <1>6. /\ DOMAIN Grouped(s, ModelOf) = Keys(s, ModelOf)
        /\ DOMAIN Grouped(s, KeyOf) = Keys(s, KeyOf)
    BY DEF Grouped
  <1>7. Keys(a, RouterModelOf) = Keys(s, ModelOf) /\ Keys(a, KeyOf) = Keys(s, KeyOf)
    BY RoutedKeys DEF a
  <1> QED
    BY <1>3, <1>4, <1>5, <1>6, <1>7 DEF a

\* And it shows the same status codes.
LEMMA RoutedCodes ==
  ASSUME NEW s \in Seq(UsageRows)
  PROVE  StatusCodes(AsRouted(s)) = StatusCodes(s)
  <1> DEFINE a == AsRouted(s)
             D == DOMAIN s
             J(x) == {i \in D : x[i].failed /\ x[i].code > 0}
             C(x) == [c \in {x[i].code : i \in J(x)} |->
                         Cardinality({i \in D : (x[i].failed /\ x[i].code > 0) /\ x[i].code = c})]
  <1>1. DOMAIN a = D /\ \A i \in D, f \in Columns : a[i][f] = s[i][f]
    BY AsRoutedFacts
  <1>2. \A i \in D : a[i].failed = s[i].failed /\ a[i].code = s[i].code
    BY <1>1 DEF Columns, Counters
  <1> HIDE DEF a
  <1>3. ASSUME NEW x, DOMAIN x = D
        PROVE  StatusCodes(x) = C(x)
    <2>1. {r.code : r \in {r \in Range(x) : Coded(r)}} = {x[i].code : i \in J(x)}
      BY <1>3 DEF Range, Coded
    <2>2. StatusCodes(x) = [c \in {r.code : r \in {r \in Range(x) : Coded(r)}} |->
             Cardinality({i \in D : (x[i].failed /\ x[i].code > 0) /\ x[i].code = c})]
      BY <1>3 DEF StatusCodes, Count, Coded
    <2> QED
      BY <2>1, <2>2
  <1>4. {a[i].code : i \in J(a)} = {s[i].code : i \in J(s)}
    BY <1>2
  <1>5. \A c : {i \in D : (a[i].failed /\ a[i].code > 0) /\ a[i].code = c}
                  = {i \in D : (s[i].failed /\ s[i].code > 0) /\ s[i].code = c}
    BY <1>2
  <1>6. C(a) = C(s)
    BY <1>4, <1>5
  <1>7. StatusCodes(a) = C(a) /\ StatusCodes(s) = C(s)
    BY <1>1, <1>3
  <1> QED
    BY <1>6, <1>7 DEF a

\* The two summaries of the same rows agree, whatever the rows and the prices, on
\* the fields SourcesAgree names; those on which the sources differ by design or
\* by omission are listed there (store.go:639).
THEOREM SourcesAreAgreeing == Spec => []SourcesAgree
  <1>1. ASSUME StateOK, SnapshotOK
        PROVE  SourcesAgree
    <2> DEFINE v == PluginView
               s == Chosen
               here == SummaryTotals(v)
               p == Performance(v.samples)
               there == RouterSummary(AsRouted(v.costs), v.charges)
               stats == there.totals.stats
               models == there.dimensions.byModel
               keys == there.dimensions.byKey
    <2> SUFFICES ASSUME IsAnswer("summary", "plugin"), Quiet
                 PROVE  /\ \A f \in {"calls", "failed", "input", "output", "reasoning", "total",
                                     "latency", "ttft"} : stats[f] = here.sums[f]
                        /\ \A f \in {"success", "activeModels", "activeKeys"} :
                              there.totals[f] = here[f]
                        /\ stats.errors = here.errors <=> here.sums.failed = 0
                        /\ stats.cacheNew = here.sums.cacheNew
                              <=> here.sums.cacheNew = 0
                        /\ <<there.totals.hung, there.totals.max, stats.cacheHits, stats.pTTFT>>
                              = <<p.hung, p.max, p.cacheHits, p.pTTFT>>
                        /\ (\A i \in DOMAIN v.samples : v.samples[i].latency > 0)
                              => stats.p = p.p
                        /\ there.totals.cost = TotalCost(v)
                        /\ there.totals.unpriced = UnpricedByModel(v)
                        /\ DOMAIN models = DOMAIN Grouped(v.models, ModelOf)
                        /\ DOMAIN keys = DOMAIN Grouped(v.keys, KeyOf)
                        /\ \A m \in DOMAIN models :
                              models[m].calls = Grouped(v.models, ModelOf)[m].calls
                        /\ \A k \in DOMAIN keys :
                              keys[k].calls = Grouped(v.keys, KeyOf)[k].calls
                        /\ there.codes = StatusCodes(v.codes)
                        /\ there.slowest = Slowest(v.scan)
      BY DEF SourcesAgree
    <2>1. s \in Seq(UsageRows) /\ DistinctIds(s)
      BY <1>1, ChosenIsTable
    <2>2. /\ v.totals = s /\ v.models = s /\ v.keys = s /\ v.samples = s
          /\ v.codes = s /\ v.costs = s /\ v.scan = NewestFirst(s)
      BY <1>1, QuietSummary
    <2>3. /\ v.scan \in Seq(UsageRows) /\ DistinctIds(v.scan) /\ Range(v.scan) = Range(s)
      BY <2>1, <2>2, NewestLists
    <2> HIDE DEF v, s
    <2> DEFINE a == AsRouted(s)
    <2>4. /\ there.totals = RouterTotals(a, v.charges) /\ there.dimensions = Dimensions(a)
          /\ there.codes = StatusCodes(a) /\ there.slowest = Slowest(a)
      BY <2>2 DEF RouterSummary
    <2>5. /\ RouterTotals(a, v.charges).stats = Stats(a)
          /\ RouterTotals(a, v.charges).max = Max(Range(Values(a, "latency")) \cup {0})
          /\ RouterTotals(a, v.charges).hung = Exceeding(Positive(Values(a, "latency")), 300)
          /\ RouterTotals(a, v.charges).success = Len(a) - Failures(a)
          /\ RouterTotals(a, v.charges).activeModels = Cardinality(Keys(a, RouterModelOf))
          /\ RouterTotals(a, v.charges).activeKeys = Cardinality(Keys(a, KeyOf))
      BY DEF RouterTotals
    <2> HIDE DEF there
    <2>6. /\ \A f \in {"calls", "failed", "input", "output", "reasoning", "total",
                       "latency", "ttft"} : stats[f] = Aggregate(v.totals)[f]
          /\ there.totals.hung = p.hung /\ there.totals.max = p.max
          /\ stats.cacheHits = p.cacheHits /\ stats.pTTFT = p.pTTFT
          /\ (\A i \in DOMAIN v.samples : v.samples[i].latency > 0) => stats.p = p.p
      BY <2>1, <2>2, <2>4, <2>5, RoutedTotals
    <2>7. here.sums = Aggregate(v.totals)
      BY DEF SummaryTotals
    <2>8. /\ there.totals["success"] = here["success"]
          /\ there.totals["activeModels"] = here["activeModels"]
          /\ there.totals["activeKeys"] = here["activeKeys"]
      <3>1. /\ here.success = Aggregate(s).calls - Aggregate(s).failed
            /\ here.activeModels = Cardinality(Keys(s, ModelOf))
            /\ here.activeKeys = Cardinality(Keys(s, KeyOf))
        BY <2>2 DEF SummaryTotals
      <3>2. Aggregate(s).calls = Stats(a).calls /\ Aggregate(s).failed = Stats(a).failed
        BY <2>1, RoutedTotals
      <3>3. Stats(a).calls = Len(a) /\ Stats(a).failed = Failures(a)
        BY DEF Stats
      <3>4. /\ Keys(a, RouterModelOf) = Keys(s, ModelOf) /\ Keys(a, KeyOf) = Keys(s, KeyOf)
        BY <2>1, RoutedKeys
      <3> QED
        BY <2>4, <2>5, <3>1, <3>2, <3>3, <3>4
    <2>13. /\ stats.errors = here.errors <=> here.sums.failed = 0
           /\ stats.cacheNew = here.sums.cacheNew <=> here.sums.cacheNew = 0
      <3>1. here.errors = 0
        BY DEF SummaryTotals
      <3>2. stats = Stats(a)
        BY <2>4, <2>5
      <3>3. Stats(a).errors = Stats(a).failed /\ Stats(a).cacheNew = 0
        BY DEF Stats
      <3>4. Stats(a).failed = here.sums.failed
        BY <2>1, <2>2, <2>7, RoutedTotals
      <3> HIDE DEF here, stats
      <3> QED
        BY <3>1, <3>2, <3>3, <3>4
    <2>9. there.totals.cost = TotalCost(v) /\ there.totals.unpriced = UnpricedByModel(v)
      BY <2>1, <2>2, <2>4, RoutedCosts
    <2>10. /\ DOMAIN models = DOMAIN Grouped(v.models, ModelOf)
           /\ DOMAIN keys = DOMAIN Grouped(v.keys, KeyOf)
           /\ \A m \in DOMAIN models : models[m].calls = Grouped(v.models, ModelOf)[m].calls
           /\ \A k \in DOMAIN keys : keys[k].calls = Grouped(v.keys, KeyOf)[k].calls
      BY <2>1, <2>2, <2>4, RoutedGroups
    <2>11. there.codes = StatusCodes(v.codes)
      BY <2>1, <2>2, <2>4, RoutedCodes
    <2>12. there.slowest = Slowest(v.scan)
      <3>1. Values(a, "latency") = Values(s, "latency")
        BY <2>1, AsRoutedFacts DEF Columns, Counters
      <3>2. Slowest(a) = FoldLeft(Keep, <<>>, Values(s, "latency"))
        BY <3>1 DEF Slowest
      <3>3. Slowest(v.scan) = FoldLeft(Keep, <<>>, Values(v.scan, "latency"))
        BY DEF Slowest
      <3>4. FoldLeft(Keep, <<>>, Values(s, "latency"))
               = FoldLeft(Keep, <<>>, Values(v.scan, "latency"))
        BY <2>1, <2>3, SlowestOfSameRows
      <3> QED
        BY <2>4, <3>2, <3>3, <3>4
    <2> HIDE DEF here, p, stats, models, keys
    <2> QED
      BY <2>6, <2>7, <2>8, <2>13, <2>9, <2>10, <2>11, <2>12
  <1> QED
    BY <1>1, SnapshotInvariant, PTL
=============================================================================
