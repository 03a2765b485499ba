-------------------------- MODULE GroupedPageProofs --------------------------
(***************************************************************************)
(* Proofs about the listing of the request log, for any captures, filters  *)
(* and page sizes and any number of writes.                                *)
(*                                                                         *)
(*   State: StateOK, the types, is inductive.                              *)
(*   Pages: WalkOK says where in the listing the lines wait that a paging  *)
(*   client has not seen: never before the offset it asks for next.  A     *)
(*   capture moves a line it does not touch back or not at all.            *)
(*   Lines: PageOK says that the queries of a page during which nothing    *)
(*   was written saw one state of the log; the rest is about a selection   *)
(*   of a selection of its rows.                                           *)
(***************************************************************************)
EXTENDS GroupedPage, TablesProofs

-----------------------------------------------------------------------------
(***************************************************************************)
(* Types                                                                   *)
(***************************************************************************)

Logged == {Row(p[1], p[2], p[3]) : p \in Captures \X Nat \X Nat}

\* The ids ascend, and the unique index holds.
TableOK ==
    /\ table \in Seq(Logged) /\ lastId \in Nat /\ clock \in Nat
    /\ \A i, j \in DOMAIN table :
          i < j => /\ table[i].id < table[j].id
                   /\ <<table[i].rid, table[i].kind>> # <<table[j].rid, table[j].kind>>
    /\ \A r \in Range(table) : r.id \in 1 .. lastId /\ r.at < clock

\* The queries that are answered are the first ones of the plan.
Listings == [filter : Filters, grouped : BOOLEAN, offset : Nat, quiet : BOOLEAN, blind : BOOLEAN]
Stages ==
    IF req.grouped
    THEN {{}, {"count"}, {"count", "groups"}, {"count", "groups", "attempts"},
          {"count", "groups", "attempts", "responses"}}
    ELSE {{}, {"count"}, {"count", "rows"}}
RequestOK ==
    \/ req = Idle /\ view = <<>> /\ walk = NoWalk
    \/ /\ req \in Listings /\ DOMAIN view \in Stages
       /\ "count" \in DOMAIN view => view.count \in Nat
       /\ req.blind => "responses" \in DOMAIN view

ClientOK ==
    /\ walk = [due |-> walk.due, seen |-> walk.seen, moved |-> walk.moved, torn |-> walk.torn]
    /\ walk.torn \in BOOLEAN /\ writes \in 0 .. MaxWrites

StateOK == TableOK /\ RequestOK /\ ClientOK

\* A row is what was captured, with its id and time.
LEMMA RowFacts ==
  ASSUME NEW c \in Captures, NEW id \in Nat, NEW at \in Nat
  PROVE  /\ Row(c, id, at) \in Logged
         /\ Row(c, id, at).id = id /\ Row(c, id, at).at = at
         /\ Row(c, id, at).rid = c.rid /\ Row(c, id, at).kind = c.kind
         /\ Row(c, id, at).trace = c.trace
  <1>1. <<c, id, at>> \in Captures \X Nat \X Nat
    OBVIOUS
  <1>2. Row(c, id, at) \in Logged
    BY <1>1 DEF Logged
  <1> QED
    BY <1>2 DEF Row

LEMMA LoggedFacts ==
  ASSUME NEW r \in Logged
  PROVE  r.id \in Nat /\ r.at \in Nat
  <1>1. PICK p \in Captures \X Nat \X Nat : r = Row(p[1], p[2], p[3])
    BY DEF Logged
  <1> QED
    BY <1>1, RowFacts

\* A request that runs is a listing.
LEMMA Running ==
  ASSUME RequestOK
  PROVE  /\ req # Idle <=> req \in Listings
         /\ req # Idle => /\ DOMAIN view \in Stages
                          /\ "count" \in DOMAIN view => view.count \in Nat
                          /\ req.blind => "responses" \in DOMAIN view
         /\ req = Idle => view = <<>> /\ walk = NoWalk
  <1>1. Idle \notin Listings
    <2>1. DOMAIN Idle = {"grouped"}
      BY DEF Idle
    <2>2. \A r \in Listings : "filter" \in DOMAIN r
      BY DEF Listings
    <2> QED
      BY <2>1, <2>2
  <1> QED
    BY <1>1 DEF RequestOK

\* Ids tell the rows apart, and so do request and kind.
LEMMA RowsApart ==
  ASSUME TableOK
  PROVE  /\ DOMAIN table = 1 .. Len(table) /\ Len(table) \in Nat
         /\ \A r \in Range(table) : r \in Logged /\ r.id \in Nat /\ r.at \in Nat
         /\ \A i, j \in DOMAIN table : i < j <=> table[i].id < table[j].id
         /\ \A r, s \in Range(table) : r.id = s.id => r = s
         /\ \A r, s \in Range(table) : r.rid = s.rid /\ r.kind = s.kind => r = s
  <1>1. DOMAIN table = 1 .. Len(table) /\ Len(table) \in Nat
    BY DEF TableOK
  <1>2. \A r \in Range(table) : r \in Logged
    BY DEF TableOK, Range
  <1>3. \A r \in Range(table) : r.id \in Nat /\ r.at \in Nat
    BY <1>2, LoggedFacts
  <1>4. \A i \in DOMAIN table : table[i].id \in Nat
    BY <1>3 DEF Range
  <1>5. ASSUME NEW i \in DOMAIN table, NEW j \in DOMAIN table
        PROVE  i < j <=> table[i].id < table[j].id
    <2>1. i < j \/ i = j \/ j < i
      BY <1>1
    <2>2. i < j => table[i].id < table[j].id
      BY DEF TableOK
    <2>3. j < i => table[j].id < table[i].id
      BY DEF TableOK
    <2> QED
      BY <1>1, <1>4, <2>1, <2>2, <2>3
  <1>6. ASSUME NEW i \in DOMAIN table, NEW j \in DOMAIN table, i # j
        PROVE  /\ table[i].id # table[j].id
               /\ table[i].rid # table[j].rid \/ table[i].kind # table[j].kind
    <2>1. i < j \/ j < i
      BY <1>1, <1>6
    <2>2. i < j => /\ table[i].id < table[j].id
                   /\ table[i].rid # table[j].rid \/ table[i].kind # table[j].kind
      BY DEF TableOK
    <2>3. j < i => /\ table[j].id < table[i].id
                   /\ table[i].rid # table[j].rid \/ table[i].kind # table[j].kind
      BY DEF TableOK
    <2> QED
      BY <1>4, <2>1, <2>2, <2>3
  <1>7. \A r, s \in Range(table) : r.id = s.id => r = s
    BY <1>6 DEF Range
  <1>8. \A r, s \in Range(table) : r.rid = s.rid /\ r.kind = s.kind => r = s
    BY <1>6 DEF Range
  <1> QED
    BY <1>1, <1>2, <1>3, <1>5, <1>7, <1>8

\* The order of the ids, and the rows of a test in it.
OldestFirst == {p \in Range(table) \X Range(table) : p[1].id < p[2].id}

LEMMA RowsInOrder ==
  ASSUME TableOK
  PROVE  Lists(table, Range(table), OldestFirst)
  <1>1. /\ DOMAIN table = 1 .. Len(table) /\ Len(table) \in Nat
        /\ \A i, j \in DOMAIN table : i < j <=> table[i].id < table[j].id
        /\ \A i \in DOMAIN table : table[i].id \in Nat
    BY RowsApart DEF Range
  <1>2. \A x \in Range(table) : \E i \in 1 .. Len(table) : table[i] = x
    BY <1>1 DEF Range
  <1>3. \A i \in 1 .. Len(table) : table[i] \in Range(table)
    BY <1>1 DEF Range
  <1>4. \A i, j \in 1 .. Len(table) : i < j <=> <<table[i], table[j]>> \in OldestFirst
    BY <1>1, <1>3 DEF OldestFirst
  <1>5. ASSUME NEW i \in 1 .. Len(table), NEW j \in 1 .. Len(table), table[i] = table[j]
        PROVE  i = j
    <2>1. ~(i < j) /\ ~(j < i)
      BY <1>1, <1>5
    <2> QED
      BY <1>1, <2>1
  <1>6. table \in Seq(Range(table))
    BY SeqOfRange DEF TableOK
  <1> HIDE DEF OldestFirst
  <1> QED
    BY <1>2, <1>4, <1>5, <1>6, ListsIf

LEMMA SelectedRows ==
  ASSUME TableOK, NEW Y \in SUBSET Range(table)
  PROVE  LET I == {i \in DOMAIN table : table[i] \in Y}
         IN  Lists(RowsAt(table, I, Ascending(I)), Y, OldestFirst)
  BY RowsInOrder, SelectionLists

\* A write leaves the answers alone and says whether a page was under way.
LEMMA WrittenFacts ==
  ASSUME StateOK, Written
  PROVE  /\ view' = view /\ writes' \in 0 .. MaxWrites
         /\ req' = Idle <=> req = Idle
         /\ req # Idle => /\ req' \in Listings
                          /\ req'.filter = req.filter /\ req'.grouped = req.grouped
                          /\ req'.offset = req.offset /\ req'.blind = req.blind
                          /\ req'.quiet => req'= req /\ view = <<>>
         /\ req = Idle => req' = req
  <1>1. view' = view /\ RequestOK
    BY DEF Written, StateOK
  <1>2. writes' \in 0 .. MaxWrites
    <2>1. writes \in 0 .. MaxWrites /\ MaxWrites \in Nat
      BY GroupedPageAssumption DEF StateOK, ClientOK
    <2> QED
      BY <2>1 DEF Written
  <1>3. CASE req = Idle
    <2>1. view = <<>> /\ req' = req
      BY <1>1, <1>3, Running DEF Written
    <2> QED
      BY <1>1, <1>2, <1>3, <2>1
  <1>4. CASE req # Idle
    <2>1. req \in Listings
      BY <1>1, <1>4, Running
    <2>2. [req EXCEPT !.quiet = FALSE] \in Listings /\ [req EXCEPT !.quiet = FALSE].quiet = FALSE
      BY <2>1 DEF Listings
    <2>3. (req' = req /\ view = <<>>) \/ req' = [req EXCEPT !.quiet = FALSE]
      BY DEF Written
    <2>4. req' \in Listings /\ (req'.quiet => req' = req /\ view = <<>>)
      BY <2>1, <2>2, <2>3
    <2>5. /\ req'.filter = req.filter /\ req'.grouped = req.grouped
          /\ req'.offset = req.offset /\ req'.blind = req.blind
      BY <2>1, <2>3 DEF Listings
    <2>6. req' # Idle
      <3>1. "filter" \in DOMAIN req' /\ "filter" \notin DOMAIN Idle
        BY <2>4 DEF Listings, Idle
      <3> QED
        BY <3>1
    <2> QED
      BY <1>1, <1>2, <1>4, <2>4, <2>5, <2>6
  <1> QED
    BY <1>3, <1>4

\* What a write does to the request and the client keeps their types.
LEMMA WrittenKeeps ==
  ASSUME StateOK, Written,
         \/ req = Idle /\ walk' = NoWalk
         \/ /\ req # Idle
            /\ \E moved, torn : walk' = [walk EXCEPT !.moved = moved, !.torn = torn] /\ torn \in BOOLEAN
         \/ req # Idle /\ walk' = [walk EXCEPT !.torn = TRUE]
  PROVE  RequestOK' /\ ClientOK'
  <1>1. view' = view /\ writes' \in 0 .. MaxWrites
    BY WrittenFacts
  <1>2. walk = [due |-> walk.due, seen |-> walk.seen, moved |-> walk.moved, torn |-> walk.torn]
    BY DEF StateOK, ClientOK
  <1>3. ClientOK'
    <2>1. NoWalk = [due |-> NoWalk.due, seen |-> NoWalk.seen, moved |-> NoWalk.moved, torn |-> NoWalk.torn]
          /\ NoWalk.torn \in BOOLEAN
      BY DEF NoWalk
    <2>2. ASSUME NEW moved, NEW torn \in BOOLEAN, walk' = [walk EXCEPT !.moved = moved, !.torn = torn]
          PROVE  walk' = [due |-> walk'.due, seen |-> walk'.seen, moved |-> walk'.moved, torn |-> walk'.torn]
                 /\ walk'.torn \in BOOLEAN
      <3>1. walk' = [due |-> walk.due, seen |-> walk.seen, moved |-> moved, torn |-> torn]
        BY <1>2, <2>2
      <3> QED
        BY <3>1
    <2>3. ASSUME walk' = [walk EXCEPT !.torn = TRUE]
          PROVE  walk' = [due |-> walk'.due, seen |-> walk'.seen, moved |-> walk'.moved, torn |-> walk'.torn]
                 /\ walk'.torn \in BOOLEAN
      <3>1. walk' = [due |-> walk.due, seen |-> walk.seen, moved |-> walk.moved, torn |-> TRUE]
        BY <1>2, <2>3
      <3> QED
        BY <3>1
    <2> QED
      BY <1>1, <2>1, <2>2, <2>3 DEF ClientOK
  <1>4. RequestOK'
    <2>1. CASE req = Idle
      BY <2>1, <1>1, Running, WrittenFacts DEF RequestOK, StateOK
    <2>2. CASE req # Idle
      <3>1. /\ req' \in Listings /\ req'.grouped = req.grouped /\ req'.blind = req.blind
        BY <2>2, WrittenFacts
      <3>2. Stages' = Stages
        BY <3>1 DEF Stages
      <3>3. /\ DOMAIN view \in Stages
            /\ "count" \in DOMAIN view => view.count \in Nat
            /\ req.blind => "responses" \in DOMAIN view
        BY <2>2, Running DEF StateOK
      <3>4. Listings' = Listings
        BY DEF Listings
      <3>5. req' \in Listings' /\ DOMAIN view' \in Stages'
        BY <1>1, <3>1, <3>2, <3>3, <3>4
      <3> QED
        BY <1>1, <3>1, <3>3, <3>5 DEF RequestOK
    <2> QED
      BY <2>1, <2>2
  <1> QED
    BY <1>3, <1>4

LEMMA StoreKeeps ==
  ASSUME StateOK, NEW c \in Captures, Store(c)
  PROVE  StateOK'
  <1>1. TableOK /\ Written
    BY DEF Store, StateOK
  <1>2. clock' = clock + 1 /\ clock \in Nat /\ lastId \in Nat
    BY DEF Store, StateOK, TableOK
  <1>3. /\ DOMAIN table = 1 .. Len(table) /\ Len(table) \in Nat
        /\ \A i \in DOMAIN table : table[i] \in Logged /\ table[i].id \in 1 .. lastId
                                  /\ table[i].at < clock /\ table[i].at \in Nat
    <2>1. \A i \in DOMAIN table : table[i] \in Range(table)
      BY DEF Range
    <2> QED
      BY <1>1, <2>1, RowsApart DEF TableOK
  <1>4. TableOK'
    <2>1. CASE Half(c) = {} /\ lastId' = lastId + 1 /\ table' = Append(table, Row(c, lastId', clock))
      <3> DEFINE r == Row(c, lastId', clock)
                 n == Len(table) + 1
      <3>1. r \in Logged /\ r.id = lastId + 1 /\ r.at = clock /\ r.rid = c.rid /\ r.kind = c.kind
        <4>1. lastId' \in Nat
          BY <1>2, <2>1
        <4> QED
          BY <1>2, <2>1, <4>1, RowFacts
      <3>2. \A i \in DOMAIN table : table[i].rid # r.rid \/ table[i].kind # r.kind
        BY <2>1, <3>1 DEF Half
      <3> HIDE DEF r
      <3>3. /\ table' \in Seq(Logged) /\ DOMAIN table' = 1 .. n /\ table'[n] = r
            /\ \A i \in 1 .. Len(table) : table'[i] = table[i]
        BY <1>1, <2>1, <3>1 DEF TableOK, r
      <3>4. ASSUME NEW i \in DOMAIN table', NEW j \in DOMAIN table', i < j
            PROVE  /\ table'[i].id < table'[j].id
                   /\ <<table'[i].rid, table'[i].kind>> # <<table'[j].rid, table'[j].kind>>
        <4>1. i \in 1 .. Len(table) /\ table'[i] = table[i]
          BY <1>3, <3>3, <3>4
        <4>2. CASE j \in 1 .. Len(table)
          BY <1>1, <1>3, <3>3, <3>4, <4>1, <4>2 DEF TableOK
        <4>3. CASE j = n
          <5>1. table'[j] = r /\ table[i].id \in 1 .. lastId
            BY <1>3, <3>3, <4>1, <4>3
          <5>2. table[i].id < r.id
            BY <1>2, <3>1, <5>1
          <5> QED
            BY <1>3, <3>2, <4>1, <5>1, <5>2
        <4> QED
          BY <1>3, <3>3, <4>2, <4>3
      <3>5. ASSUME NEW x \in Range(table')
            PROVE  x.id \in 1 .. lastId' /\ x.at < clock'
        <4>1. PICK i \in DOMAIN table' : table'[i] = x
          BY <3>5 DEF Range
        <4>2. CASE i \in 1 .. Len(table)
          BY <1>2, <1>3, <2>1, <3>3, <4>1, <4>2
        <4>3. CASE i = n
          BY <1>2, <2>1, <3>1, <3>3, <4>1, <4>3
        <4> QED
          BY <1>3, <3>3, <4>2, <4>3
      <3> QED
        BY <1>2, <2>1, <3>3, <3>4, <3>5, SMTT(20) DEF TableOK
    <2>2. CASE \E i \in Half(c) : /\ table' = [table EXCEPT ![i] = Row(c, @.id, clock)]
                                  /\ UNCHANGED lastId
      <3>1. PICK k \in DOMAIN table :
               /\ table[k].rid = c.rid /\ table[k].kind = c.kind /\ UNCHANGED lastId
               /\ table' = [table EXCEPT ![k] = Row(c, table[k].id, clock)]
        BY <2>2 DEF Half
      <3> DEFINE r == Row(c, table[k].id, clock)
      <3>2. /\ r \in Logged /\ r.id = table[k].id /\ r.at = clock
            /\ r.rid = table[k].rid /\ r.kind = table[k].kind
        BY <1>2, <1>3, <3>1, RowFacts, SMTT(20)
      <3> HIDE DEF r
      <3>3. /\ table' \in Seq(Logged) /\ DOMAIN table' = DOMAIN table
            /\ \A i \in DOMAIN table : table'[i] = IF i = k THEN r ELSE table[i]
        BY <1>1, <3>1, <3>2 DEF TableOK, r
      <3>4. \A i \in DOMAIN table : /\ table'[i].id = table[i].id /\ table'[i].rid = table[i].rid
                                    /\ table'[i].kind = table[i].kind /\ table'[i].at < clock'
        BY <1>2, <1>3, <3>2, <3>3
      <3>5. \A x \in Range(table') : x.id \in 1 .. lastId' /\ x.at < clock'
        BY <1>3, <3>1, <3>3, <3>4 DEF Range
      <3>6. ASSUME NEW i \in DOMAIN table', NEW j \in DOMAIN table', i < j
            PROVE  /\ table'[i].id < table'[j].id
                   /\ <<table'[i].rid, table'[i].kind>> # <<table'[j].rid, table'[j].kind>>
        BY <1>1, <3>3, <3>4, <3>6 DEF TableOK
      <3>7. lastId' = lastId /\ lastId' \in Nat /\ clock' \in Nat
        BY <1>2, <3>1
      <3> QED
        BY <3>3, <3>5, <3>6, <3>7 DEF TableOK
    <2> QED
      BY <2>1, <2>2 DEF Store
  <1>5. RequestOK' /\ ClientOK'
    <2>1. CASE req = Idle
      BY <1>1, <2>1, WrittenKeeps DEF Store
    <2>2. CASE req # Idle
      <3> DEFINE moved == walk.moved \cup Moved(c)
                 torn == walk.torn \/ Disturbs(c) \/ Counted
      <3>1. walk' = [walk EXCEPT !.moved = moved, !.torn = torn]
        BY <2>2 DEF Store
      <3>2. torn \in BOOLEAN
        BY DEF Disturbs, Counted, StateOK, ClientOK
      <3> HIDE DEF moved, torn
      <3> QED
        BY <1>1, <2>2, <3>1, <3>2, WrittenKeeps
    <2> QED
      BY <2>1, <2>2
  <1> QED
    BY <1>4, <1>5 DEF StateOK

LEMMA PruneKeeps ==
  ASSUME StateOK, NEW cutoff, Prune(cutoff)
  PROVE  StateOK'
  <1> DEFINE Y == {r \in Range(table) : r.at >= cutoff}
             I == {i \in DOMAIN table : table[i] \in Y}
  <1>1. TableOK /\ Written /\ UNCHANGED <<lastId, clock>>
    BY DEF Prune, StateOK
  <1>2. I = {i \in DOMAIN table : table[i].at >= cutoff}
    BY DEF Range
  <1>3. table' = RowsAt(table, I, Ascending(I))
    BY <1>2 DEF Prune, Where
  <1>4. Y \in SUBSET Range(table)
    OBVIOUS
  <1> HIDE DEF Y
  <1>5. Lists(table', Y, OldestFirst)
    BY <1>1, <1>3, <1>4, SelectedRows
  <1>6. TableOK'
    <2>1. table' \in Seq(Y) /\ DOMAIN table' = 1 .. Len(table') /\ Range(table') = Y
      BY <1>5, ListsOnce DEF Lists
    <2>2. \A r \in Range(table) : r \in Logged /\ r.id \in 1 .. lastId /\ r.at < clock
      BY <1>1, RowsApart DEF TableOK
    <2>3. table' \in Seq(Logged)
      BY <1>4, <2>1, <2>2
    <2>4. ASSUME NEW i \in DOMAIN table', NEW j \in DOMAIN table', i < j
          PROVE  /\ table'[i].id < table'[j].id
                 /\ <<table'[i].rid, table'[i].kind>> # <<table'[j].rid, table'[j].kind>>
      <3>1. <<table'[i], table'[j]>> \in OldestFirst
        BY <1>5, <2>1, <2>4, ListsOrder
      <3>2. /\ table'[i] \in Range(table) /\ table'[j] \in Range(table)
            /\ table'[i].id < table'[j].id
        BY <3>1 DEF OldestFirst
      <3>3. table'[i] # table'[j]
        BY <1>1, <3>2, RowsApart
      <3> QED
        BY <1>1, <3>2, <3>3, RowsApart
    <2> QED
      BY <1>1, <1>4, <2>1, <2>2, <2>3, <2>4 DEF TableOK
  <1>7. RequestOK' /\ ClientOK'
    BY <1>1, WrittenKeeps DEF Prune
  <1> QED
    BY <1>6, <1>7 DEF StateOK

-----------------------------------------------------------------------------
(***************************************************************************)
(* What is listed                                                          *)
(***************************************************************************)

\* The lines of a listing by the key of each, and the order they come in.
Grouped == CallRows(req.filter, table)
MatchedRows == {r \in Range(table) : RowMatches(req.filter, r)}
LineKey(x) == IF req.grouped THEN x ELSE <<"row", x.id>>
Listed ==
    IF req.grouped THEN CallKeys(req.filter, Grouped) ELSE {<<"row", r.id>> : r \in MatchedRows}
ListingOrder ==
    IF req.grouped THEN NewerCalls(req.filter, Grouped)
    ELSE {p \in Listed \X Listed : p[1][2] > p[2][2]}

\* The newest row of a call.
LEMMA NewestFacts ==
  ASSUME TableOK, NEW f, NEW r \in CallRows(f, table)
  PROVE  LET rows == CallRows(f, table)
             newest == Newest(rows, GroupKey(r))
         IN  /\ newest \in Nat /\ newest <= lastId
             /\ r.id <= newest
             /\ \E s \in rows : s.id = newest /\ GroupKey(s) = GroupKey(r)
  <1> DEFINE rows == CallRows(f, table)
             mine == Members(rows, GroupKey(r))
             S == {s.id : s \in mine}
  <1>1. \A s \in rows : s \in Range(table) /\ s.id \in 1 .. lastId
    BY DEF CallRows, TableOK
  <1>2. lastId \in Nat /\ r \in mine
    BY DEF TableOK, Members
  <1>3. mine \subseteq rows
    BY DEF Members
  <1>4. S \in SUBSET (0 .. lastId) /\ S # {} /\ r.id \in S
    <2>1. \A s \in mine : s.id \in 0 .. lastId
      BY <1>1, <1>2, <1>3
    <2> HIDE DEF mine
    <2> QED
      BY <1>2, <2>1
  <1>5. Newest(rows, GroupKey(r)) = Max(S)
    BY DEF Newest
  <1> HIDE DEF S
  <1>6. Max(S) \in S /\ \A y \in S : Max(S) >= y
    BY <1>2, <1>4, GreatestNumber
  <1>7. Max(S) \in 0 .. lastId /\ r.id \in 0 .. lastId
    BY <1>4, <1>6
  <1>8. \E s \in rows : s.id = Max(S) /\ GroupKey(s) = GroupKey(r)
    BY <1>6 DEF S, Members
  <1>9. r.id <= Max(S)
    BY <1>4, <1>6, <1>7
  <1> QED
    BY <1>2, <1>5, <1>7, <1>8, <1>9

\* Calls are ordered by their newest rows.
LEMMA CallsOrdered ==
  ASSUME TableOK, NEW f
  PROVE  LET rows == CallRows(f, table)
         IN  IsFiniteSet(CallKeys(f, rows)) /\ Orders(NewerCalls(f, rows), CallKeys(f, rows))
  <1> DEFINE rows == CallRows(f, table)
             K == CallKeys(f, rows)
             R == NewerCalls(f, rows)
             New(g) == Newest(rows, g)
  <1>1. \A g \in K : \E r \in rows : GroupKey(r) = g
    BY DEF CallKeys
  <1>2. rows \subseteq Range(table)
    BY DEF CallRows
  <1>3. IsFiniteSet(K)
    <2>1. IsFiniteSet(rows)
      BY <1>2, RangeFinite, FS_Subset DEF TableOK
    <2> DEFINE f1 == [r \in rows |-> GroupKey(r)]
               All == {GroupKey(r) : r \in rows}
    <2>2. f1 \in Surjection(rows, All)
      BY DEF Surjection
    <2>3. K \subseteq All
      BY DEF CallKeys
    <2> HIDE DEF f1, All, K
    <2>4. IsFiniteSet(All)
      BY <2>1, <2>2, FS_Surjection
    <2> QED
      BY <2>3, <2>4, FS_Subset
  <1>4. ASSUME NEW g \in K
        PROVE  New(g) \in Nat /\ \E r \in rows : r.id = New(g) /\ GroupKey(r) = g
    <2>1. PICK r \in rows : GroupKey(r) = g
      BY <1>1
    <2> QED
      BY <2>1, NewestFacts
  <1>5. ASSUME NEW g \in K, NEW h \in K, New(g) = New(h)
        PROVE  g = h
    <2>1. PICK r \in rows : r.id = New(g) /\ GroupKey(r) = g
      BY <1>4
    <2>2. PICK s \in rows : s.id = New(h) /\ GroupKey(s) = h
      BY <1>4
    <2>3. r = s
      BY <1>2, <1>5, <2>1, <2>2, RowsApart
    <2> QED
      BY <2>1, <2>2, <2>3
  <1>6. \A g, h \in K : <<g, h>> \in R <=> New(g) > New(h)
    BY DEF NewerCalls
  <1> HIDE DEF rows, K, R, New
  <1>7. Orders(R, K)
    <2>1. \A g \in K : <<g, g>> \notin R
      BY <1>4, <1>6
    <2>2. ASSUME NEW g \in K, NEW h \in K, g # h
          PROVE  <<g, h>> \in R \/ <<h, g>> \in R
      <3>1. New(g) \in Nat /\ New(h) \in Nat /\ New(g) # New(h)
        BY <1>4, <1>5, <2>2
      <3> QED
        BY <1>6, <3>1
    <2>3. ASSUME NEW g \in K, NEW h \in K, NEW k \in K, <<g, h>> \in R, <<h, k>> \in R
          PROVE  <<g, k>> \in R
      <3>1. New(g) \in Nat /\ New(h) \in Nat /\ New(k) \in Nat /\ New(g) > New(h) /\ New(h) > New(k)
        BY <1>4, <1>6, <2>3
      <3> QED
        BY <1>6, <3>1
    <2> QED
      BY <2>1, <2>2, <2>3 DEF Orders
  <1> QED
    BY <1>3, <1>7 DEF rows, K, R

\* Rows are listed by id, the greatest first.
LEMMA FlatLists ==
  ASSUME TableOK, ~req.grouped
  PROVE  \E N : /\ Lists(Matching, MatchedRows, N)
                /\ \A x, y \in MatchedRows : <<x, y>> \in N <=> x.id > y.id
  <1> DEFINE Y == MatchedRows
             I == {i \in DOMAIN table : table[i] \in Y}
             t == RowsAt(table, I, Ascending(I))
             N == {p \in Y \X Y : p[1].id > p[2].id}
  <1>1. Y \in SUBSET Range(table)
    BY DEF MatchedRows
  <1>2. I = {i \in DOMAIN table : RowMatches(req.filter, table[i])}
    BY DEF MatchedRows, Range
  <1>3. Matching = Reverse(t)
    BY <1>2 DEF Matching, Where
  <1> HIDE DEF Y
  <1>4. Lists(t, Y, OldestFirst)
    BY <1>1, SelectedRows
  <1>5. \A r \in Y : r.id \in Nat
    BY <1>1, RowsApart
  <1>6. \A x, y \in Y : <<x, y>> \in N <=> <<y, x>> \in OldestFirst
    BY <1>1, <1>5 DEF OldestFirst
  <1>7. \A x, y \in Y : <<x, y>> \in N <=> x.id > y.id
    OBVIOUS
  <1> HIDE DEF t, N
  <1>8. Lists(Matching, Y, N)
    BY <1>3, <1>4, <1>6, ReverseLists
  <1> QED
    BY <1>7, <1>8 DEF Y

\* The keys of the lines are listed as the lines are.
LEMMA MatchingLists ==
  ASSUME TableOK
  PROVE  \E t : /\ Lists(t, Listed, ListingOrder)
                /\ Matching \in Seq(Range(Matching)) /\ Len(t) = Len(Matching)
                /\ \A k \in 1 .. Len(t) : t[k] = LineKey(Matching[k])
  <1>1. CASE req.grouped
    <2>1. Matching = Arranged(Listed, ListingOrder)
      BY <1>1 DEF Matching, Groups, Listed, ListingOrder, Grouped
    <2>2. IsFiniteSet(Listed) /\ Orders(ListingOrder, Listed)
      BY <1>1, CallsOrdered DEF Listed, ListingOrder, Grouped
    <2>3. Lists(Matching, Listed, ListingOrder)
      BY <2>1, <2>2, ArrangedLists
    <2>4. Matching \in Seq(Range(Matching))
      BY <2>3, SeqOfRange DEF Lists
    <2>5. \A k \in 1 .. Len(Matching) : Matching[k] = LineKey(Matching[k])
      BY <1>1 DEF LineKey
    <2> QED
      BY <2>3, <2>4, <2>5
  <1>2. CASE ~req.grouped
    <2> DEFINE m == Matching
               n == Len(m)
               t == [k \in 1 .. n |-> <<"row", m[k].id>>]
    <2>1. PICK N : /\ Lists(m, MatchedRows, N)
                   /\ \A x, y \in MatchedRows : <<x, y>> \in N <=> x.id > y.id
      BY <1>2, FlatLists
    <2>2. Listed = {<<"row", r.id>> : r \in MatchedRows}
      BY <1>2 DEF Listed
    <2>3. \A p, q \in Listed : <<p, q>> \in ListingOrder <=> p[2] > q[2]
      BY <1>2 DEF ListingOrder
    <2> HIDE DEF m
    <2>4. /\ n \in Nat /\ DOMAIN m = 1 .. n /\ Range(m) = MatchedRows
          /\ \A i, j \in 1 .. n : m[i] = m[j] => i = j
          /\ \A i \in 1 .. n : m[i] \in MatchedRows
      BY <2>1, ListsOnce DEF Range
    <2>5. m \in Seq(Range(m))
      BY <2>1, SeqOfRange DEF Lists
    <2>6. \A r \in MatchedRows : r \in Range(table)
      BY DEF MatchedRows
    <2>7. \A i \in 1 .. n : t[i] = <<"row", m[i].id>> /\ t[i][2] = m[i].id /\ t[i] \in Listed
      BY <2>2, <2>4
    <2>8. t \in Seq(Listed) /\ Len(t) = n
      BY <2>4, <2>7
    <2>9. ASSUME NEW x \in Listed
          PROVE  \E i \in 1 .. n : t[i] = x
      <3>1. PICK r \in MatchedRows : x = <<"row", r.id>>
        BY <2>2
      <3>2. PICK i \in 1 .. n : m[i] = r
        BY <2>4 DEF Range
      <3> QED
        BY <2>7, <3>1, <3>2
    <2>10. ASSUME NEW i \in 1 .. n, NEW j \in 1 .. n
           PROVE  i < j <=> <<t[i], t[j]>> \in ListingOrder
      <3>1. i < j <=> <<m[i], m[j]>> \in N
        BY <2>1, ListsOrder
      <3>2. <<m[i], m[j]>> \in N <=> m[i].id > m[j].id
        BY <2>1, <2>4
      <3>3. <<t[i], t[j]>> \in ListingOrder <=> m[i].id > m[j].id
        BY <2>3, <2>7
      <3> QED
        BY <3>1, <3>2, <3>3
    <2>11. ASSUME NEW i \in 1 .. n, NEW j \in 1 .. n, t[i] = t[j]
           PROVE  i = j
      <3>1. m[i].id = m[j].id
        BY <2>7, <2>11
      <3>2. m[i] = m[j]
        BY <2>4, <2>6, <3>1, RowsApart
      <3> QED
        BY <2>4, <3>2
    <2> HIDE DEF t
    <2>12. Lists(t, Listed, ListingOrder)
      BY <2>8, <2>9, <2>10, <2>11, ListsIf
    <2>13. \A k \in 1 .. Len(t) : t[k] = LineKey(m[k])
      BY <1>2, <2>7, <2>8 DEF LineKey
    <2> QED
      BY <2>5, <2>8, <2>12, <2>13 DEF m
  <1> QED
    BY <1>1, <1>2

LEMMA MatchingLength ==
  ASSUME TableOK
  PROVE  Len(Matching) \in Nat
  BY MatchingLists

-----------------------------------------------------------------------------
(***************************************************************************)
(* The queries                                                             *)
(***************************************************************************)

\* How many queries are answered at each stage.
LEMMA StageSizes ==
  /\ Cardinality({}) = 0 /\ Cardinality({"count"}) = 1
  /\ Cardinality({"count", "groups"}) = 2
  /\ Cardinality({"count", "groups", "attempts"}) = 3
  <1> DEFINE one == {"count"}
             two == {"count", "groups"}
             three == {"count", "groups", "attempts"}
  <1>1. Cardinality({}) = 0 /\ IsFiniteSet(one) /\ Cardinality(one) = 1
    BY FS_EmptySet, FS_Singleton
  <1>2. two = one \cup {"groups"} /\ "groups" \notin one
    OBVIOUS
  <1>3. three = two \cup {"attempts"} /\ "attempts" \notin two
    OBVIOUS
  <1> HIDE DEF one, two, three
  <1>4. IsFiniteSet(two) /\ Cardinality(two) = 2
    <2>1. IsFiniteSet(two) /\ Cardinality(two) = Cardinality(one) + 1
      BY <1>1, <1>2, FS_AddElement
    <2> QED
      BY <1>1, <2>1
  <1>5. Cardinality(three) = 3
    <2>1. Cardinality(three) = Cardinality(two) + 1
      BY <1>3, <1>4, FS_AddElement
    <2> QED
      BY <1>4, <2>1
  <1> QED
    BY <1>1, <1>4, <1>5 DEF one, two, three

\* The names of the queries of a plan.
LEMMA PlanNames ==
  /\ req.grouped => Range(Plan) = {"count", "groups", "attempts", "responses"}
  /\ ~req.grouped => Range(Plan) = {"count", "rows"}
  <1>1. CASE req.grouped
    <2>1. Plan = <<"count", "groups", "attempts", "responses">>
      BY <1>1 DEF Plan
    <2>2. DOMAIN Plan = {1, 2, 3, 4}
      BY <2>1
    <2> QED
      BY <1>1, <2>1, <2>2 DEF Range
  <1>2. CASE ~req.grouped
    <2>1. Plan = <<"count", "rows">>
      BY <1>2 DEF Plan
    <2>2. DOMAIN Plan = {1, 2}
      BY <2>1
    <2> QED
      BY <1>2, <2>1, <2>2 DEF Range
  <1> QED
    BY <1>1, <1>2

\* The query that follows the ones answered.
Following == Plan[Cardinality(DOMAIN view) + 1]

LEMMA QueryStage ==
  ASSUME StateOK, req # Idle, ~Answered
  PROVE  /\ req \in Listings
         /\ \/ DOMAIN view = {} /\ Following = "count"
            \/ req.grouped /\ DOMAIN view = {"count"} /\ Following = "groups"
            \/ ~req.grouped /\ DOMAIN view = {"count"} /\ Following = "rows"
            \/ /\ req.grouped /\ DOMAIN view = {"count", "groups"} /\ Following = "attempts"
               /\ view.groups # <<>>
            \/ /\ req.grouped /\ DOMAIN view = {"count", "groups", "attempts"}
               /\ Following = "responses" /\ view.groups # <<>>
  <1>1. req \in Listings /\ DOMAIN view \in Stages /\ DOMAIN view # Range(Plan)
    BY Running DEF StateOK, Answered
  <1>2. "groups" \in DOMAIN view => view.groups # <<>>
    BY DEF Answered
  <1>3. CASE req.grouped
    <2>1. Plan = <<"count", "groups", "attempts", "responses">>
      BY <1>3 DEF Plan
    <2>2. Following = Plan[Cardinality(DOMAIN view) + 1]
      BY DEF Following
    <2>3. DOMAIN view \in {{}, {"count"}, {"count", "groups"}, {"count", "groups", "attempts"}}
      BY <1>1, <1>3, PlanNames DEF Stages
    <2>4. CASE DOMAIN view = {}
      BY <1>1, <2>1, <2>2, <2>4, StageSizes
    <2>5. CASE DOMAIN view = {"count"}
      BY <1>1, <1>3, <2>1, <2>2, <2>5, StageSizes
    <2>6. CASE DOMAIN view = {"count", "groups"}
      BY <1>1, <1>2, <1>3, <2>1, <2>2, <2>6, StageSizes
    <2>7. CASE DOMAIN view = {"count", "groups", "attempts"}
      BY <1>1, <1>2, <1>3, <2>1, <2>2, <2>7, StageSizes
    <2> QED
      BY <2>3, <2>4, <2>5, <2>6, <2>7
  <1>4. CASE ~req.grouped
    <2>1. Plan = <<"count", "rows">>
      BY <1>4 DEF Plan
    <2>2. Following = Plan[Cardinality(DOMAIN view) + 1]
      BY DEF Following
    <2>3. DOMAIN view \in {{}, {"count"}}
      BY <1>1, <1>4, PlanNames DEF Stages
    <2>4. CASE DOMAIN view = {}
      BY <1>1, <2>1, <2>2, <2>4, StageSizes
    <2>5. CASE DOMAIN view = {"count"}
      BY <1>1, <1>4, <2>1, <2>2, <2>5, StageSizes
    <2> QED
      BY <2>3, <2>4, <2>5
  <1> QED
    BY <1>3, <1>4

LEMMA QueryKeeps ==
  ASSUME StateOK, Query
  PROVE  StateOK'
  <1> DEFINE q == Following
  <1>1. /\ req # Idle /\ ~Answered /\ view' = Answer(q, Result(q))
        /\ UNCHANGED <<table, lastId, clock, req, writes>>
        /\ \/ walk' = walk
           \/ \E due, seen, moved : walk' = [walk EXCEPT !.due = due, !.moved = moved, !.seen = seen]
    BY DEF Query, Following
  <1>2. TableOK'
    <2>1. TableOK /\ UNCHANGED <<table, lastId, clock>>
      BY <1>1 DEF StateOK
    <2> QED
      BY <2>1 DEF TableOK
  <1>3. ClientOK'
    <2>1. walk = [due |-> walk.due, seen |-> walk.seen, moved |-> walk.moved, torn |-> walk.torn]
          /\ walk.torn \in BOOLEAN /\ writes' \in 0 .. MaxWrites
      BY <1>1 DEF StateOK, ClientOK
    <2>2. ASSUME NEW due, NEW seen, NEW moved,
                 walk' = [walk EXCEPT !.due = due, !.moved = moved, !.seen = seen]
          PROVE  walk' = [due |-> walk'.due, seen |-> walk'.seen, moved |-> walk'.moved, torn |-> walk'.torn]
                 /\ walk'.torn = walk.torn
      <3>1. walk' = [due |-> due, seen |-> seen, moved |-> moved, torn |-> walk.torn]
        BY <2>1, <2>2
      <3> QED
        BY <3>1
    <2> QED
      BY <1>1, <2>1, <2>2 DEF ClientOK
  <1>4. /\ req \in Listings
        /\ \/ DOMAIN view = {} /\ q = "count"
           \/ req.grouped /\ DOMAIN view = {"count"} /\ q = "groups"
           \/ ~req.grouped /\ DOMAIN view = {"count"} /\ q = "rows"
           \/ req.grouped /\ DOMAIN view = {"count", "groups"} /\ q = "attempts"
           \/ req.grouped /\ DOMAIN view = {"count", "groups", "attempts"} /\ q = "responses"
    BY <1>1, QueryStage
  <1> HIDE DEF q
  <1>5. /\ DOMAIN view' = DOMAIN view \cup {q} /\ view'[q] = Result(q)
        /\ \A x \in DOMAIN view : x # q => view'[x] = view[x]
    <2>1. view' = Answer(q, Result(q))
      BY <1>1
    <2> DEFINE result == Result(q)
    <2>2. view' = Answer(q, result)
      BY <2>1
    <2> HIDE DEF result
    <2>3. /\ DOMAIN view' = DOMAIN view \cup {q} /\ view'[q] = result
          /\ \A x \in DOMAIN view : x # q => view'[x] = view[x]
      BY <2>2 DEF Answer
    <2> QED
      BY <2>3 DEF result
  <1>6. DOMAIN view' \in Stages
    <2>1. CASE req.grouped
      <3>1. Stages = {{}, {"count"}, {"count", "groups"}, {"count", "groups", "attempts"},
                      {"count", "groups", "attempts", "responses"}}
        BY <2>1 DEF Stages
      <3> QED
        BY <1>4, <1>5, <2>1, <3>1
    <2>2. CASE ~req.grouped
      <3>1. Stages = {{}, {"count"}, {"count", "rows"}}
        BY <2>2 DEF Stages
      <3> QED
        BY <1>4, <1>5, <2>2, <3>1
    <2> QED
      BY <2>1, <2>2
  <1>7. view'.count \in Nat
    <2>1. CASE q = "count"
      <3>1. Result("count") = Len(Matching)
        BY DEF Result
      <3> QED
        BY <1>5, <2>1, <3>1, MatchingLength DEF StateOK
    <2>2. CASE q # "count"
      BY <1>1, <1>4, <1>5, <2>2, Running DEF StateOK
    <2> QED
      BY <2>1, <2>2
  <1>8. req.blind => "responses" \in DOMAIN view'
    BY <1>1, <1>5, Running DEF StateOK
  <1>9. Stages' = Stages /\ Listings' = Listings /\ req' = req
    BY <1>1 DEF Stages, Listings
  <1>10. req' \in Listings' /\ DOMAIN view' \in Stages'
    BY <1>4, <1>6, <1>9
  <1>11. RequestOK'
    BY <1>7, <1>8, <1>9, <1>10 DEF RequestOK
  <1> QED
    BY <1>2, <1>3, <1>11 DEF StateOK

\* Responses that cannot be read are answered by none.
LEMMA BlindFacts ==
  ASSUME StateOK, ReadNoResponses
  PROVE  /\ req \in Listings /\ req.grouped /\ req' = [req EXCEPT !.blind = TRUE]
         /\ DOMAIN view = {"count", "groups", "attempts"}
         /\ DOMAIN view' = {"count", "groups", "attempts", "responses"}
         /\ view'["responses"] = <<>>
         /\ \A x \in DOMAIN view : view'[x] = view[x]
         /\ UNCHANGED <<table, lastId, clock, walk, writes>>
  <1>1. /\ req # Idle /\ ~Answered /\ "attempts" \in DOMAIN view
        /\ view' = Answer("responses", <<>>)
        /\ req' = [req EXCEPT !.blind = TRUE]
        /\ UNCHANGED <<table, lastId, clock, walk, writes>>
    BY DEF ReadNoResponses
  <1>2. req \in Listings /\ req.grouped /\ DOMAIN view = {"count", "groups", "attempts"}
    BY <1>1, QueryStage
  <1>3. /\ DOMAIN view' = DOMAIN view \cup {"responses"} /\ view'["responses"] = <<>>
        /\ \A x \in DOMAIN view : x # "responses" => view'[x] = view[x]
    BY <1>1 DEF Answer
  <1> QED
    BY <1>1, <1>2, <1>3

LEMMA ReadNoResponsesKeeps ==
  ASSUME StateOK, ReadNoResponses
  PROVE  StateOK'
  <1>1. /\ req \in Listings /\ req.grouped /\ req' = [req EXCEPT !.blind = TRUE]
        /\ DOMAIN view = {"count", "groups", "attempts"}
        /\ DOMAIN view' = {"count", "groups", "attempts", "responses"}
        /\ \A x \in DOMAIN view : view'[x] = view[x]
        /\ UNCHANGED <<table, lastId, clock, walk, writes>>
    BY BlindFacts
  <1>2. TableOK' /\ ClientOK'
    <2>1. TableOK /\ ClientOK /\ UNCHANGED <<table, lastId, clock, walk, writes>>
      BY <1>1 DEF StateOK
    <2> QED
      BY <2>1 DEF TableOK, ClientOK
  <1>3. req' \in Listings /\ req'.grouped
    BY <1>1 DEF Listings
  <1>4. Listings' = Listings /\ DOMAIN view' \in Stages'
    BY <1>1, <1>3 DEF Listings, Stages
  <1>5. view'.count \in Nat
    BY <1>1, Running DEF StateOK
  <1>6. RequestOK'
    BY <1>1, <1>3, <1>4, <1>5 DEF RequestOK
  <1> QED
    BY <1>2, <1>6 DEF StateOK

LEMMA BeginKeeps ==
  ASSUME StateOK, NEW f \in Filters, NEW grouped \in BOOLEAN, Begin(f, grouped)
  PROVE  StateOK'
  <1>1. /\ req = Idle /\ writes' = 0 /\ UNCHANGED <<table, lastId, clock, view, walk>>
        /\ req' = [filter |-> f, grouped |-> grouped, offset |-> 0, quiet |-> TRUE,
                   blind |-> FALSE]
    BY DEF Begin
  <1>2. TableOK' /\ ClientOK'
    <2>1. TableOK /\ ClientOK /\ writes' = 0 /\ MaxWrites \in Nat
          /\ UNCHANGED <<table, lastId, clock, walk>>
      BY <1>1, GroupedPageAssumption DEF StateOK
    <2> QED
      BY <2>1 DEF TableOK, ClientOK
  <1>3. req' \in Listings /\ req'.blind = FALSE
    BY <1>1 DEF Listings
  <1>4. view' = <<>>
    BY <1>1, Running DEF StateOK
  <1>5. DOMAIN view' = {}
    BY <1>4
  <1>6. Listings' = Listings /\ {} \in Stages'
    BY DEF Listings, Stages
  <1>7. RequestOK'
    BY <1>3, <1>5, <1>6 DEF RequestOK
  <1> QED
    BY <1>2, <1>7 DEF StateOK

LEMMA NextPageFacts ==
  ASSUME StateOK, NextPage
  PROVE  /\ req \in Listings /\ req' \in Listings /\ req'.offset = req.offset + Limit
         /\ req'.filter = req.filter /\ req'.grouped = req.grouped
         /\ req'.quiet = TRUE /\ req'.blind = FALSE /\ view' = <<>>
         /\ UNCHANGED <<table, lastId, clock, walk, writes>>
  <1>1. /\ req # Idle /\ view' = <<>> /\ UNCHANGED <<table, lastId, clock, walk, writes>>
        /\ req' = [req EXCEPT !.offset = @ + Limit, !.quiet = TRUE, !.blind = FALSE]
    BY DEF NextPage, Answered
  <1>2. req \in Listings /\ Limit \in Nat
    BY <1>1, Running, GroupedPageAssumption DEF StateOK
  <1>3. req.offset + Limit \in Nat
    BY <1>2 DEF Listings
  <1> QED
    BY <1>1, <1>2, <1>3 DEF Listings

LEMMA NextPageKeeps ==
  ASSUME StateOK, NextPage
  PROVE  StateOK'
  <1>1. /\ req' \in Listings /\ req'.blind = FALSE /\ view' = <<>>
        /\ UNCHANGED <<table, lastId, clock, walk, writes>>
    BY NextPageFacts
  <1>2. TableOK' /\ ClientOK'
    <2>1. TableOK /\ ClientOK /\ UNCHANGED <<table, lastId, clock, walk, writes>>
      BY <1>1 DEF StateOK
    <2> QED
      BY <2>1 DEF TableOK, ClientOK
  <1>3. DOMAIN view' = {}
    BY <1>1
  <1>4. Listings' = Listings /\ {} \in Stages'
    BY DEF Listings, Stages
  <1>5. RequestOK'
    BY <1>1, <1>3, <1>4 DEF RequestOK
  <1> QED
    BY <1>2, <1>5 DEF StateOK

LEMMA FinishKeeps ==
  ASSUME StateOK, Finish
  PROVE  StateOK'
  <1>1. /\ TableOK /\ MaxWrites \in Nat /\ UNCHANGED <<table, lastId, clock>>
        /\ req' = Idle /\ view' = <<>> /\ walk' = NoWalk /\ writes' = 0
    BY GroupedPageAssumption DEF Finish, StateOK
  <1>2. TableOK'
    BY <1>1 DEF TableOK
  <1>3. RequestOK'
    BY <1>1 DEF RequestOK, Idle, NoWalk
  <1>4. ClientOK'
    BY <1>1 DEF ClientOK, NoWalk
  <1> QED
    BY <1>2, <1>3, <1>4 DEF StateOK

LEMMA InitStateOK == Init => StateOK
  <1> SUFFICES ASSUME Init
               PROVE  StateOK
    OBVIOUS
  <1>1. table = <<>> /\ lastId = 0 /\ clock = 1
    BY DEF Init
  <1>2. TableOK
    BY <1>1 DEF TableOK, Range
  <1>3. RequestOK
    BY DEF Init, RequestOK
  <1>4. ClientOK
    BY GroupedPageAssumption DEF Init, ClientOK, NoWalk
  <1> QED
    BY <1>2, <1>3, <1>4 DEF StateOK

LEMMA NextStateOK ==
  ASSUME StateOK, [Next]_vars
  PROVE  StateOK'
  <1>1. ASSUME NEW c \in Captures, Store(c)
        PROVE  StateOK'
    BY <1>1, StoreKeeps
  <1>2. ASSUME NEW cutoff, Prune(cutoff)
        PROVE  StateOK'
    BY <1>2, PruneKeeps
  <1>3. ASSUME NEW f \in Filters, NEW grouped \in BOOLEAN, Begin(f, grouped)
        PROVE  StateOK'
    BY <1>3, BeginKeeps
  <1>4. CASE Query
    BY <1>4, QueryKeeps
  <1>5. CASE ReadNoResponses
    BY <1>5, ReadNoResponsesKeeps
  <1>6. CASE NextPage
    BY <1>6, NextPageKeeps
  <1>7. CASE Finish
    BY <1>7, FinishKeeps
  <1>8. CASE UNCHANGED vars
    <2>1. TableOK /\ RequestOK /\ ClientOK
          /\ UNCHANGED <<table, lastId, clock, req, view, walk, writes>>
      BY <1>8 DEF StateOK, vars
    <2>2. TableOK'
      BY <2>1 DEF TableOK
    <2>3. RequestOK'
      BY <2>1 DEF RequestOK, Listings, Stages, Idle, NoWalk
    <2>4. ClientOK'
      BY <2>1 DEF ClientOK
    <2> QED
      BY <2>2, <2>3, <2>4 DEF StateOK
  <1> QED
    BY <1>1, <1>2, <1>3, <1>4, <1>5, <1>6, <1>7, <1>8 DEF Next

\* The unique index of request and kind holds, ids ascend, and a listing has the
\* answers to the first queries of its plan, whatever is written meanwhile.
THEOREM StateInvariant == Spec => []StateOK
  BY InitStateOK, NextStateOK, PTL DEF Spec

\* The types of the log and of a listing: flush upserts by request and kind and
\* never reuses an id, maybePrune only removes.
THEOREM TypeCorrect == Spec => []TypeOK
  <1>1. ASSUME StateOK
        PROVE  TypeOK
    <2>1. TableOK /\ RequestOK /\ ClientOK
      BY <1>1 DEF StateOK
    <2>2. req # Idle => DOMAIN view \subseteq Range(Plan)
      <3> SUFFICES ASSUME req # Idle
                   PROVE  DOMAIN view \subseteq Range(Plan)
        OBVIOUS
      <3>1. DOMAIN view \in Stages
        BY <2>1, Running
      <3> QED
        BY <3>1, PlanNames DEF Stages
    <2> QED
      BY <2>1, <2>2 DEF TypeOK, TableOK, ClientOK
  <1> QED
    BY <1>1, StateInvariant, PTL

-----------------------------------------------------------------------------
(***************************************************************************)
(* A client that pages                                                     *)
(***************************************************************************)

\* What the client is owed, it has not seen and no new row has moved to the front
\* waits in the listing, not before the line it asks for next.
Selected == DOMAIN view \cap {"groups", "rows"} # {}
Owed == walk.due \ (walk.seen \cup walk.moved)
Waiting(n) ==
    \A k \in Owed : k \in Listed /\ Ahead(k, Listed, ListingOrder) >= n
WalkOK ==
    req # Idle /\ ~walk.torn =>
        /\ Counted => view.count = Len(Matching)
        /\ Waiting(IF Selected THEN req.offset + Limit ELSE req.offset)
        /\ Selected /\ LastPage => Owed = {}
        /\ req.grouped => \A k \in walk.due : k[1] # "row"

\* A line that is listed has a place before the total.
LEMMA ListedAhead ==
  ASSUME TableOK, NEW k \in Listed
  PROVE  Ahead(k, Listed, ListingOrder) \in Nat /\ Ahead(k, Listed, ListingOrder) < Len(Matching)
  <1>1. PICK t : Lists(t, Listed, ListingOrder) /\ Len(t) = Len(Matching)
    BY MatchingLists
  <1> DEFINE a == Ahead(k, Listed, ListingOrder)
  <1>2. IsFiniteSet(Listed) /\ a + 1 \in 1 .. Len(t) /\ Len(t) \in Nat
    BY <1>1 DEF Lists
  <1>3. a \in Nat
    BY <1>2, AheadCount
  <1> QED
    BY <1>1, <1>2, <1>3

\* A page shows the lines at its places.
LEMMA PageShows ==
  ASSUME TableOK, NEW o \in Nat, NEW k \in Listed,
         Ahead(k, Listed, ListingOrder) >= o, Ahead(k, Listed, ListingOrder) < o + Limit
  PROVE  \E x \in Range(Slice(Matching, o, Limit)) : LineKey(x) = k
  <1> DEFINE m == Matching
             a == Ahead(k, Listed, ListingOrder)
  <1>1. PICK t : /\ Lists(t, Listed, ListingOrder)
                 /\ m \in Seq(Range(m)) /\ Len(t) = Len(m)
                 /\ \A i \in 1 .. Len(t) : t[i] = LineKey(m[i])
    BY MatchingLists
  <1>2. a + 1 \in 1 .. Len(t) /\ t[a + 1] = k
    BY <1>1 DEF Lists
  <1>3. a \in Nat /\ a >= o /\ a < o + Limit
    BY ListedAhead
  <1>4. Limit \in Nat /\ DOMAIN m = 1 .. Len(m)
    BY <1>1, GroupedPageAssumption
  <1> HIDE DEF m, a
  <1>5. a + 1 \in DOMAIN m /\ o < a + 1 /\ a + 1 <= o + Limit /\ LineKey(m[a + 1]) = k
    BY <1>1, <1>2, <1>3, <1>4
  <1>6. m[a + 1] \in Range(Slice(m, o, Limit))
    BY <1>1, <1>4, <1>5, SliceRows
  <1> QED
    BY <1>5, <1>6 DEF m

\* The client knows a line by its key, but for calls without a trace.
LEMMA KeysFacts ==
  ASSUME TableOK, NEW s
  PROVE  /\ \A x \in Range(s) : (req.grouped => LineKey(x)[1] # "row") => LineKey(x) \in Keys(s)
         /\ \A k \in Keys(s) : \E x \in Range(s) : LineKey(x) = k
  <1>1. CASE req.grouped
    <2>1. Keys(s) = Range(s) \ {<<"row", r.id>> : r \in Range(table)}
      BY <1>1 DEF Keys
    <2>2. \A x : LineKey(x) = x
      BY <1>1 DEF LineKey
    <2>3. \A k \in {<<"row", r.id>> : r \in Range(table)} : k[1] = "row"
      OBVIOUS
    <2> QED
      BY <1>1, <2>1, <2>2, <2>3
  <1>2. CASE ~req.grouped
    <2>1. Keys(s) = {<<"row", r.id>> : r \in Range(s)}
      BY <1>2 DEF Keys
    <2>2. \A x : LineKey(x) = <<"row", x.id>>
      BY <1>2 DEF LineKey
    <2> QED
      BY <1>2, <2>1, <2>2
  <1> QED
    BY <1>1, <1>2

\* What is due on the first page is listed.
LEMMA DueFacts ==
  ASSUME TableOK, NEW k \in Keys(Matching)
  PROVE  k \in Listed /\ (req.grouped => k[1] # "row")
  <1> DEFINE m == Matching
  <1>1. PICK t : /\ Lists(t, Listed, ListingOrder)
                 /\ m \in Seq(Range(m)) /\ Len(t) = Len(m)
                 /\ \A i \in 1 .. Len(t) : t[i] = LineKey(m[i])
    BY MatchingLists
  <1>2. PICK x \in Range(m) : LineKey(x) = k
    BY KeysFacts
  <1>3. k \in Listed
    <2>1. PICK i \in DOMAIN m : m[i] = x
      BY <1>2 DEF Range
    <2> HIDE DEF m
    <2>2. i \in 1 .. Len(t) /\ t[i] = k
      BY <1>1, <1>2, <2>1
    <2>3. t[i] \in Listed
      BY <1>1, <2>2, SMTT(20) DEF Lists
    <2> QED
      BY <2>2, <2>3
  <1>4. ASSUME req.grouped
        PROVE  k[1] # "row"
    <2>1. k \notin {<<"row", r.id>> : r \in Range(table)}
      BY <1>4 DEF Keys
    <2>2. PICK r \in Grouped : GroupKey(r) = k
      BY <1>3, <1>4 DEF Listed, CallKeys
    <2>3. r \in Range(table)
      BY <2>2 DEF Grouped, CallRows
    <2>4. GroupKey(r) # <<"row", r.id>>
      BY <2>1, <2>2, <2>3
    <2>5. k = <<"trace", r.trace>>
      BY <2>2, <2>4 DEF GroupKey
    <2> QED
      BY <2>5
  <1> QED
    BY <1>3, <1>4

LEMMA QueryKeepsWalk ==
  ASSUME StateOK, WalkOK, Query
  PROVE  WalkOK'
  <1> DEFINE q == Following
             o == req.offset
  <1>1. /\ req # Idle /\ ~Answered /\ TableOK /\ ClientOK
        /\ view' = Answer(q, Result(q))
        /\ walk' = IF q \in {"groups", "rows"}
                   THEN [walk EXCEPT !.due = IF o = 0 THEN Keys(Matching) ELSE @,
                                     !.moved = IF o = 0 THEN {} ELSE @,
                                     !.seen = @ \cup Keys(Result(q))]
                   ELSE walk
        /\ UNCHANGED <<table, req>>
    BY DEF Query, Following, StateOK
  <1>2. /\ req \in Listings
        /\ \/ DOMAIN view = {} /\ q = "count"
           \/ req.grouped /\ DOMAIN view = {"count"} /\ q = "groups"
           \/ ~req.grouped /\ DOMAIN view = {"count"} /\ q = "rows"
           \/ req.grouped /\ DOMAIN view = {"count", "groups"} /\ q = "attempts"
           \/ req.grouped /\ DOMAIN view = {"count", "groups", "attempts"} /\ q = "responses"
    BY <1>1, QueryStage
  <1>3. walk = [due |-> walk.due, seen |-> walk.seen, moved |-> walk.moved, torn |-> walk.torn]
    BY <1>1 DEF ClientOK
  <1> HIDE DEF q
  <1>4. /\ DOMAIN view' = DOMAIN view \cup {q} /\ view'[q] = Result(q)
        /\ \A x \in DOMAIN view : x # q => view'[x] = view[x]
    <2> DEFINE result == Result(q)
    <2>1. view' = Answer(q, result)
      BY <1>1
    <2> HIDE DEF result
    <2>2. /\ DOMAIN view' = DOMAIN view \cup {q} /\ view'[q] = result
          /\ \A x \in DOMAIN view : x # q => view'[x] = view[x]
      BY <2>1 DEF Answer
    <2> QED
      BY <2>2 DEF result
  <1>5. Matching' = Matching /\ Listed' = Listed /\ ListingOrder' = ListingOrder
    <2>1. table' = table /\ req' = req
      BY <1>1
    <2>2. Matching' = Matching
      BY <2>1 DEF Matching, Where, RowMatches, ModelMatches, Resolved
    <2>3. Listed' = Listed
      BY <2>1 DEF Listed, Grouped, MatchedRows
    <2>4. ListingOrder' = ListingOrder
      BY <2>1, <2>3 DEF ListingOrder, Grouped
    <2> QED
      BY <2>2, <2>3, <2>4
  <1>6. walk'.torn = walk.torn
    BY <1>1, <1>3
  <1>7. req' = req /\ o \in Nat /\ Limit \in Nat \ {0}
    BY <1>1, <1>2, GroupedPageAssumption DEF Listings
  <1> SUFFICES ASSUME ~walk.torn
               PROVE  WalkOK'
    BY <1>6 DEF WalkOK
  <1>8. CASE q = "count"
    <2>1. /\ walk' = walk /\ DOMAIN view = {} /\ DOMAIN view' = {"count"}
          /\ view'.count = Result("count")
      BY <1>1, <1>2, <1>4, <1>8
    <2>2. view'.count = Len(Matching)
      BY <2>1 DEF Result
    <2>3. ~Selected /\ ~Selected'
      BY <2>1 DEF Selected
    <2>4. Waiting(o) /\ (req.grouped => \A k \in walk.due : k[1] # "row")
      BY <1>1, <2>3 DEF WalkOK
    <2>5. Waiting(o)'
      BY <1>5, <1>7, <2>1, <2>4 DEF Waiting, Owed
    <2> QED
      BY <1>5, <1>7, <2>1, <2>2, <2>3, <2>4, <2>5 DEF WalkOK
  <1>9. CASE q \in {"attempts", "responses"}
    <2>1. /\ walk' = walk /\ "groups" \in DOMAIN view /\ "groups" \in DOMAIN view'
          /\ view'.count = view.count
      BY <1>1, <1>2, <1>4, <1>9
    <2>2. Selected /\ Selected' /\ ~Counted'
      BY <2>1 DEF Selected, Counted
    <2>3. LastPage' = LastPage
      BY <1>7, <2>1 DEF LastPage
    <2>4. /\ Waiting(o + Limit)
          /\ LastPage => Owed = {}
          /\ req.grouped => \A k \in walk.due : k[1] # "row"
      BY <1>1, <2>2 DEF WalkOK
    <2>5. Waiting(o + Limit)'
      BY <1>5, <1>7, <2>1, <2>4 DEF Waiting, Owed
    <2> QED
      BY <1>7, <2>1, <2>2, <2>3, <2>4, <2>5 DEF WalkOK, Owed
  <1>10. CASE q \in {"groups", "rows"}
    <2> DEFINE page == Slice(Matching, Start, Limit)
               n == Len(Matching)
               place(k) == Ahead(k, Listed, ListingOrder)
    <2>1. DOMAIN view = {"count"} /\ DOMAIN view' = {"count", q} /\ view'.count = view.count
      BY <1>2, <1>4, <1>10
    <2>2. Result(q) = page
      BY <1>10 DEF Result
    <2>3. ~Selected /\ Counted /\ Selected' /\ ~Counted'
      BY <1>10, <2>1 DEF Selected, Counted
    <2>4. /\ view.count = n /\ Waiting(o)
          /\ req.grouped => \A k \in walk.due : k[1] # "row"
      BY <1>1, <2>3 DEF WalkOK
    <2>5. /\ walk'.due = IF o = 0 THEN Keys(Matching) ELSE walk.due
          /\ walk'.moved = IF o = 0 THEN {} ELSE walk.moved
          /\ walk'.seen = walk.seen \cup Keys(page)
      BY <1>1, <1>3, <1>10, <2>2
    <2>6. n \in Nat
      BY <1>1, MatchingLength
    <2>7. req.grouped => \A k \in walk'.due : k[1] # "row"
      BY <1>1, <2>4, <2>5, DueFacts
    <2>8. Start = IF o >= n THEN 0 ELSE o
      BY <2>4 DEF Start
    <2> HIDE DEF n, o
    <2>9. ASSUME NEW k \in Owed'
          PROVE  k \in Listed /\ place(k) >= o + Limit /\ n > o + Limit
      <3>1. k \in Listed
        <4>1. CASE o = 0
          BY <1>1, <2>5, <4>1, DueFacts DEF Owed
        <4>2. CASE o # 0
          BY <2>4, <2>5, <4>2 DEF Waiting, Owed
        <4> QED
          BY <4>1, <4>2
      <3>2. place(k) \in Nat /\ place(k) < n
        BY <1>1, <3>1, ListedAhead DEF n
      <3>3. place(k) >= o
        <4>1. CASE o = 0
          BY <3>2, <4>1
        <4>2. CASE o # 0
          BY <2>4, <2>5, <4>2 DEF Waiting, Owed
        <4> QED
          BY <4>1, <4>2
      <3>4. Start = o
        BY <1>7, <2>6, <2>8, <3>2, <3>3 DEF o
      <3>5. ASSUME place(k) < o + Limit
            PROVE  FALSE
        <4>1. PICK x \in Range(page) : LineKey(x) = k
          BY <1>1, <1>7, <3>1, <3>3, <3>4, <3>5, PageShows DEF o
        <4>2. k \in Keys(page)
          BY <1>1, <2>7, <4>1, KeysFacts DEF Owed
        <4> QED
          BY <2>5, <4>2 DEF Owed
      <3>6. place(k) >= o + Limit
        BY <1>7, <3>2, <3>5 DEF o
      <3>7. n > o + Limit
        BY <1>7, <2>6, <3>2, <3>6 DEF o
      <3> QED
        BY <3>1, <3>6, <3>7
    <2>10. Waiting(o + Limit)'
      BY <1>5, <1>7, <2>9 DEF Waiting, o
    <2>11. ASSUME LastPage'
           PROVE  Owed' = {}
      <3>1. o + Limit >= n
        BY <1>7, <2>1, <2>4, <2>11 DEF LastPage, o
      <3>2. ~(n > o + Limit)
        BY <1>7, <2>6, <3>1 DEF o
      <3> QED
        BY <2>9, <3>2
    <2> QED
      BY <1>7, <2>3, <2>7, <2>10, <2>11 DEF WalkOK, o
  <1> QED
    BY <1>2, <1>8, <1>9, <1>10

\* A line that is listed stays where it is or moves back when lines are added
\* and those before it stay before it.
LEMMA LineMovesBack ==
  ASSUME NEW X, IsFiniteSet(X), NEW Y, X \subseteq Y, NEW n, Y \subseteq X \cup {n},
         NEW R, NEW Q, NEW k \in X, \A x \in X : <<x, k>> \in R => <<x, k>> \in Q
  PROVE  /\ k \in Y /\ Ahead(k, X, R) \in Nat /\ Ahead(k, Y, Q) \in Nat
         /\ Ahead(k, X, R) <= Ahead(k, Y, Q)
  <1>1. IsFiniteSet(X \cup {n})
    BY FS_AddElement
  <1>2. IsFiniteSet(Y)
    BY <1>1, FS_Subset
  <1> QED
    BY <1>2, AheadCount, AheadGrows

\* Without a filter every row and every call is listed.
LEMMA Unfiltered ==
  ASSUME req \in Listings, ~Filtered
  PROVE  /\ \A r : RowMatches(req.filter, r) /\ ModelMatches(req.filter, r)
         /\ \A members : CallMatches(req.filter, members)
  <1> DEFINE f == req.filter
  <1>1. DOMAIN f = {"kind", "model", "combo", "name"}
    BY GroupedPageAssumption DEF Listings
  <1>2. f.kind = Unset /\ f.model = Unset /\ f.combo = Unset /\ f.name = Unset
    BY <1>1 DEF Filtered
  <1>3. \A r : ModelMatches(f, r)
    BY <1>2 DEF ModelMatches
  <1>4. \A r : RowMatches(f, r)
    BY <1>2, <1>3 DEF RowMatches
  <1>5. \A members : CallMatches(f, members)
    BY <1>2 DEF CallMatches
  <1> QED
    BY <1>3, <1>4, <1>5

\* The ids of the rows of a call say what its newest row is.
LEMMA NewestOf ==
  ASSUME NEW rows, NEW n \in Nat, \A x \in rows : x.id \in 0 .. n, NEW r \in rows
  PROVE  /\ Newest(rows, GroupKey(r)) \in 0 .. n
         /\ r.id <= Newest(rows, GroupKey(r))
  <1> DEFINE S == {x.id : x \in Members(rows, GroupKey(r))}
  <1>1. r.id \in S /\ \A x \in Members(rows, GroupKey(r)) : x.id \in 0 .. n
    BY DEF Members
  <1>2. S \in SUBSET (0 .. n) /\ S # {}
    BY <1>1
  <1>3. Newest(rows, GroupKey(r)) = Max(S)
    BY DEF Newest
  <1> HIDE DEF S
  <1>4. Max(S) \in S /\ Max(S) >= r.id
    BY <1>1, <1>2, GreatestNumber
  <1>5. Max(S) \in 0 .. n /\ r.id \in 0 .. n
    BY <1>1, <1>2, <1>4
  <1> QED
    BY <1>3, <1>4, <1>5

\* A row that arrives brings its call to the front and leaves the order of the
\* others.
LEMMA CallArrives ==
  ASSUME NEW f, \A members : CallMatches(f, members),
         NEW A, NEW n \in Nat, \A x \in A : x.id \in 0 .. n,
         NEW r, r.id = n + 1, NEW k \in CallKeys(f, A), k # GroupKey(r)
  PROVE  /\ CallKeys(f, A \cup {r}) = CallKeys(f, A) \cup {GroupKey(r)}
         /\ \A x \in CallKeys(f, A) : <<x, k>> \in NewerCalls(f, A)
                                      => <<x, k>> \in NewerCalls(f, A \cup {r})
  <1> DEFINE B == A \cup {r}
             K == CallKeys(f, A)
             L == CallKeys(f, B)
  <1>1. K = {GroupKey(x) : x \in A} /\ L = {GroupKey(x) : x \in B}
    BY DEF CallKeys
  <1>2. L = K \cup {GroupKey(r)}
    BY <1>1
  <1>3. ASSUME NEW g, g # GroupKey(r)
        PROVE  Newest(B, g) = Newest(A, g)
    <2>1. Members(B, g) = Members(A, g)
      BY <1>3 DEF Members
    <2> QED
      BY <2>1 DEF Newest
  <1>4. \A x \in B : x.id \in 0 .. n + 1
    OBVIOUS
  <1> HIDE DEF B
  <1>5. r \in B /\ n + 1 \in Nat
    BY DEF B
  <1>6. Newest(B, GroupKey(r)) \in Nat /\ n + 1 <= Newest(B, GroupKey(r))
    BY <1>4, <1>5, NewestOf
  <1>7. Newest(A, k) \in 0 .. n /\ Newest(B, k) = Newest(A, k)
    BY <1>1, <1>3, NewestOf
  <1>8. ASSUME NEW x \in K, <<x, k>> \in NewerCalls(f, A)
        PROVE  <<x, k>> \in NewerCalls(f, B)
    <2>1. x \in L /\ k \in L
      BY <1>2
    <2>2. Newest(A, x) > Newest(A, k)
      BY <1>8 DEF NewerCalls
    <2>3. Newest(B, x) > Newest(B, k)
      <3>1. CASE x = GroupKey(r)
        BY <1>6, <1>7, <3>1
      <3>2. CASE x # GroupKey(r)
        BY <1>3, <1>7, <2>2, <3>2
      <3> QED
        BY <3>1, <3>2
    <2> QED
      BY <2>1, <2>3 DEF NewerCalls
  <1> QED
    BY <1>2, <1>8 DEF B

\* Rows of the same ids in the same calls make the same list.
LEMMA CallsAlike ==
  ASSUME NEW f, \A members : CallMatches(f, members), NEW A, NEW B,
         \A x \in A : \E y \in B : y.id = x.id /\ GroupKey(y) = GroupKey(x),
         \A y \in B : \E x \in A : x.id = y.id /\ GroupKey(x) = GroupKey(y)
  PROVE  CallKeys(f, B) = CallKeys(f, A) /\ NewerCalls(f, B) = NewerCalls(f, A)
  <1>1. {GroupKey(x) : x \in B} = {GroupKey(x) : x \in A}
    OBVIOUS
  <1>2. CallKeys(f, B) = CallKeys(f, A)
    BY <1>1 DEF CallKeys
  <1>3. ASSUME NEW g
        PROVE  Newest(B, g) = Newest(A, g)
    <2>1. {x.id : x \in Members(B, g)} = {x.id : x \in Members(A, g)}
      BY DEF Members
    <2> QED
      BY <2>1 DEF Newest
  <1> QED
    BY <1>2, <1>3 DEF NewerCalls

\* A capture is a row of its own, or takes the place of the row that its request
\* half has.
LEMMA StoreFacts ==
  ASSUME StateOK, NEW c \in Captures, Store(c)
  PROVE  \E r : /\ r.kind = c.kind /\ r.rid = c.rid /\ r.trace = c.trace
                /\ \/ /\ Half(c) = {} /\ r.id = lastId + 1
                      /\ Range(table') = Range(table) \cup {r}
                   \/ \E i \in Half(c) : /\ r.id = table[i].id
                                         /\ Range(table') = (Range(table) \ {table[i]}) \cup {r}
  <1>1. /\ clock \in Nat /\ lastId \in Nat /\ table \in Seq(Logged)
        /\ DOMAIN table = 1 .. Len(table) /\ Len(table) \in Nat
        /\ \A i, j \in DOMAIN table : table[i] = table[j] => i = j
        /\ \A i \in DOMAIN table : table[i].id \in Nat
    <2>1. TableOK
      BY DEF StateOK
    <2>2. /\ DOMAIN table = 1 .. Len(table) /\ Len(table) \in Nat
          /\ \A i, j \in DOMAIN table : i < j <=> table[i].id < table[j].id
          /\ \A i \in DOMAIN table : table[i].id \in Nat
      BY <2>1, RowsApart DEF Range
    <2>3. ASSUME NEW i \in DOMAIN table, NEW j \in DOMAIN table, table[i] = table[j]
          PROVE  i = j
      <3>1. ~(i < j) /\ ~(j < i)
        BY <2>2, <2>3
      <3> QED
        BY <2>2, <3>1
    <2> QED
      BY <2>1, <2>2, <2>3 DEF TableOK
  <1>2. CASE Half(c) = {} /\ lastId' = lastId + 1 /\ table' = Append(table, Row(c, lastId', clock))
    <2> DEFINE r == Row(c, lastId', clock)
    <2>1. r.id = lastId + 1 /\ r.kind = c.kind /\ r.rid = c.rid /\ r.trace = c.trace
      <3>1. lastId' = lastId + 1
        BY <1>2
      <3> QED
        BY <3>1 DEF Row
    <2> HIDE DEF r
    <2>2. /\ DOMAIN table' = 1 .. Len(table) + 1 /\ table'[Len(table) + 1] = r
          /\ \A i \in 1 .. Len(table) : table'[i] = table[i]
      BY <1>1, <1>2 DEF r
    <2>3. Range(table') = Range(table) \cup {r}
      <3>1. ASSUME NEW x \in Range(table')
            PROVE  x \in Range(table) \cup {r}
        <4>1. PICK i \in DOMAIN table' : table'[i] = x
          BY <3>1 DEF Range
        <4>2. i \in 1 .. Len(table) \/ i = Len(table) + 1
          BY <1>1, <2>2
        <4> QED
          BY <1>1, <2>2, <4>1, <4>2 DEF Range
      <3>2. ASSUME NEW x \in Range(table)
            PROVE  x \in Range(table')
        <4>1. PICK i \in DOMAIN table : table[i] = x
          BY <3>2 DEF Range
        <4>2. i \in DOMAIN table' /\ table'[i] = x
          BY <1>1, <2>2, <4>1
        <4> QED
          BY <4>2 DEF Range
      <3>3. r \in Range(table')
        BY <1>1, <2>2 DEF Range
      <3> QED
        BY <3>1, <3>2, <3>3
    <2> QED
      BY <1>2, <2>1, <2>3
  <1>3. CASE \E i \in Half(c) : table' = [table EXCEPT ![i] = Row(c, @.id, clock)]
    <2>1. PICK k \in Half(c) : table' = [table EXCEPT ![k] = Row(c, table[k].id, clock)]
      BY <1>3
    <2>2. k \in DOMAIN table
      BY <2>1 DEF Half
    <2> DEFINE r == Row(c, table[k].id, clock)
    <2>3. r.id = table[k].id /\ r.kind = c.kind /\ r.rid = c.rid /\ r.trace = c.trace
      BY DEF Row
    <2> HIDE DEF r
    <2>4. DOMAIN table' = DOMAIN table /\ \A i \in DOMAIN table :
             table'[i] = IF i = k THEN r ELSE table[i]
      BY <1>1, <2>1 DEF r
    <2>5. Range(table') = (Range(table) \ {table[k]}) \cup {r}
      <3>1. ASSUME NEW x \in Range(table')
            PROVE  x \in (Range(table) \ {table[k]}) \cup {r}
        <4>1. PICK i \in DOMAIN table : table'[i] = x
          BY <2>4, <3>1 DEF Range
        <4>2. CASE i = k
          BY <2>4, <4>1, <4>2
        <4>3. CASE i # k
          <5>1. x = table[i] /\ x \in Range(table) /\ x # table[k]
            BY <1>1, <2>2, <2>4, <4>1, <4>3 DEF Range
          <5> QED
            BY <5>1
        <4> QED
          BY <4>2, <4>3
      <3>2. ASSUME NEW x \in Range(table), x # table[k]
            PROVE  x \in Range(table')
        <4>1. PICK i \in DOMAIN table : table[i] = x
          BY <3>2 DEF Range
        <4>2. i \in DOMAIN table' /\ table'[i] = x
          BY <2>4, <3>2, <4>1
        <4> QED
          BY <4>2 DEF Range
      <3>3. r \in Range(table')
        BY <2>2, <2>4 DEF Range
      <3> QED
        BY <3>1, <3>2, <3>3
    <2> QED
      BY <2>1, <2>3, <2>5
  <1> QED
    BY <1>2, <1>3 DEF Store

\* Between two pages a line that no capture touches stays in the list, where it
\* is or further back.
LEMMA StoreMoves ==
  ASSUME StateOK, NEW c \in Captures, Store(c), req # Idle, ~Disturbs(c),
         NEW k \in Listed, k \notin Moved(c), req.grouped => k[1] # "row"
  PROVE  /\ k \in Listed' /\ Ahead(k, Listed, ListingOrder) \in Nat
         /\ Ahead(k, Listed', ListingOrder') \in Nat
         /\ Ahead(k, Listed, ListingOrder) <= Ahead(k, Listed', ListingOrder')
  <1> DEFINE f == req.filter
             A == CallRows(f, table)
             B == CallRows(f, table')
  <1>1. TableOK /\ req \in Listings /\ req'.filter = f /\ req'.grouped = req.grouped
    BY WrittenFacts, Running DEF Store, StateOK
  <1>2. PICK r : /\ r.kind = c.kind /\ r.rid = c.rid /\ r.trace = c.trace
                 /\ \/ /\ Half(c) = {} /\ r.id = lastId + 1
                       /\ Range(table') = Range(table) \cup {r}
                    \/ \E i \in Half(c) : /\ r.id = table[i].id
                                          /\ Range(table') = (Range(table) \ {table[i]}) \cup {r}
    BY StoreFacts
  <1>3. /\ IsFiniteSet(Listed) /\ lastId \in Nat
        /\ \A x \in Range(table) : x.id \in Nat /\ x.id \in 0 .. lastId
    BY <1>1, MatchingLists, RowsApart, SMTT(20) DEF Lists, TableOK
  <1>4. /\ req.grouped => Listed = CallKeys(f, A) /\ ListingOrder = NewerCalls(f, A)
        /\ req.grouped => Listed' = CallKeys(f, B) /\ ListingOrder' = NewerCalls(f, B)
    BY <1>1 DEF Listed, ListingOrder, Grouped
  <1>5. /\ ~req.grouped => Listed = {<<"row", x.id>> : x \in {x \in Range(table) : RowMatches(f, x)}}
        /\ ~req.grouped => Listed' = {<<"row", x.id>> : x \in {x \in Range(table') : RowMatches(f, x)}}
        /\ ~req.grouped => ListingOrder = {p \in Listed \X Listed : p[1][2] > p[2][2]}
        /\ ~req.grouped => ListingOrder' = {p \in Listed' \X Listed' : p[1][2] > p[2][2]}
    BY <1>1 DEF Listed, ListingOrder, MatchedRows
  <1>6. /\ A = {x \in Range(table) : x.kind = "request" /\ ModelMatches(f, x)}
        /\ B = {x \in Range(table') : x.kind = "request" /\ ModelMatches(f, x)}
    BY DEF CallRows
  <1>7. CASE /\ Half(c) = {} /\ r.id = lastId + 1
             /\ Range(table') = Range(table) \cup {r}
    <2>1. CASE ~req.grouped
      <3> DEFINE n == <<"row", r.id>>
                 X == Listed
                 Y == Listed'
      <3>1. X \subseteq Y /\ Y \subseteq X \cup {n}
        BY <1>5, <1>7, <2>1
      <3>2. \A x \in X : <<x, k>> \in ListingOrder => <<x, k>> \in ListingOrder'
        BY <1>5, <2>1, <3>1
      <3> QED
        BY <1>3, <3>1, <3>2, LineMovesBack
    <2>2. CASE req.grouped /\ c.kind # "request"
      <3>1. A = B
        BY <1>2, <1>6, <1>7, <2>2
      <3>2. Listed' = Listed /\ ListingOrder' = ListingOrder
        BY <1>4, <2>2, <3>1
      <3>3. Listed' \subseteq Listed \cup {k}
        BY <3>2
      <3> QED
        BY <1>3, <3>2, <3>3, LineMovesBack
    <2>3. CASE req.grouped /\ c.kind = "request"
      <3>1. ~Filtered
        BY <1>7, <2>3 DEF Disturbs
      <3>2. /\ \A x : ModelMatches(f, x)
            /\ \A members : CallMatches(f, members)
        BY <1>1, <3>1, Unfiltered
      <3>3. B = A \cup {r}
        BY <1>2, <1>6, <1>7, <2>3, <3>2
      <3>4. \A x \in A : x.id \in 0 .. lastId
        BY <1>3, <1>6
      <3>5. k # GroupKey(r)
        BY <1>2, <1>7, <2>3 DEF GroupKey, Moved
      <3> HIDE DEF A, B
      <3>6. /\ CallKeys(f, B) = CallKeys(f, A) \cup {GroupKey(r)}
            /\ \A x \in CallKeys(f, A) : <<x, k>> \in NewerCalls(f, A) => <<x, k>> \in NewerCalls(f, B)
        <4>1. k \in CallKeys(f, A) /\ lastId \in Nat /\ r.id = lastId + 1
          BY <1>3, <1>4, <1>7, <2>3
        <4>2. \A members : CallMatches(f, members)
          BY <3>2
        <4> HIDE DEF f
        <4>3. /\ CallKeys(f, A \cup {r}) = CallKeys(f, A) \cup {GroupKey(r)}
              /\ \A x \in CallKeys(f, A) : <<x, k>> \in NewerCalls(f, A)
                                           => <<x, k>> \in NewerCalls(f, A \cup {r})
          BY <3>4, <3>5, <4>1, <4>2, CallArrives
        <4> QED
          BY <3>3, <4>3
      <3>7. /\ Listed' = Listed \cup {GroupKey(r)}
            /\ \A x \in Listed : <<x, k>> \in ListingOrder => <<x, k>> \in ListingOrder'
        BY <1>4, <2>3, <3>6
      <3>8. Listed \subseteq Listed' /\ Listed' \subseteq Listed \cup {GroupKey(r)}
        BY <3>7
      <3> QED
        BY <1>3, <3>7, <3>8, LineMovesBack
    <2> QED
      BY <2>1, <2>2, <2>3
  <1>8. CASE \E i \in Half(c) : /\ r.id = table[i].id
                                /\ Range(table') = (Range(table) \ {table[i]}) \cup {r}
    <2>1. PICK i \in Half(c) : /\ r.id = table[i].id
                               /\ Range(table') = (Range(table) \ {table[i]}) \cup {r}
      BY <1>8
    <2>2. /\ ~Filtered /\ table[i].trace = c.trace /\ table[i].kind = c.kind
          /\ table[i] \in Range(table)
      BY <2>1 DEF Disturbs, Half, Range
    <2>3. /\ \A x : ModelMatches(f, x) /\ RowMatches(f, x)
          /\ \A members : CallMatches(f, members)
      BY <1>1, <2>2, Unfiltered
    <2>4. GroupKey(r) = GroupKey(table[i])
      BY <1>2, <2>1, <2>2 DEF GroupKey
    <2>5. /\ \A x \in Range(table) : \E y \in Range(table') :
                y.id = x.id /\ y.kind = x.kind /\ GroupKey(y) = GroupKey(x)
          /\ \A y \in Range(table') : \E x \in Range(table) :
                x.id = y.id /\ x.kind = y.kind /\ GroupKey(x) = GroupKey(y)
      BY <1>2, <2>1, <2>2, <2>4
    <2>6. Listed' = Listed /\ ListingOrder' = ListingOrder
      <3>1. CASE req.grouped
        <4>1. /\ \A x \in A : \E y \in B : y.id = x.id /\ GroupKey(y) = GroupKey(x)
              /\ \A y \in B : \E x \in A : x.id = y.id /\ GroupKey(x) = GroupKey(y)
          BY <1>6, <2>3, <2>5
        <4> HIDE DEF A, B
        <4>2. CallKeys(f, B) = CallKeys(f, A) /\ NewerCalls(f, B) = NewerCalls(f, A)
          BY <2>3, <4>1, CallsAlike
        <4> QED
          BY <1>4, <3>1, <4>2
      <3>2. CASE ~req.grouped
        <4>1. /\ Listed = {<<"row", x.id>> : x \in Range(table)}
              /\ Listed' = {<<"row", x.id>> : x \in Range(table')}
          BY <1>5, <2>3, <3>2
        <4>2. Listed' = Listed
          BY <2>5, <4>1
        <4> QED
          BY <1>5, <3>2, <4>2
      <3> QED
        BY <3>1, <3>2
    <2>7. Listed' \subseteq Listed \cup {k}
      BY <2>6
    <2> QED
      BY <1>3, <2>6, <2>7, LineMovesBack
  <1> QED
    BY <1>2, <1>7, <1>8

LEMMA StoreKeepsWalk ==
  ASSUME StateOK, WalkOK, NEW c \in Captures, Store(c)
  PROVE  WalkOK'
  <1> SUFFICES ASSUME req' # Idle, ~walk'.torn
               PROVE  WalkOK'
    BY DEF WalkOK
  <1>1. /\ req # Idle /\ view' = view
        /\ req'.grouped = req.grouped /\ req'.offset = req.offset
    BY WrittenFacts DEF Store
  <1>2. /\ walk'.due = walk.due /\ walk'.seen = walk.seen
        /\ walk'.moved = walk.moved \cup Moved(c)
        /\ ~walk.torn /\ ~Disturbs(c) /\ ~Counted
    <2>1. walk = [due |-> walk.due, seen |-> walk.seen, moved |-> walk.moved, torn |-> walk.torn]
      BY DEF StateOK, ClientOK
    <2> DEFINE moved == walk.moved \cup Moved(c)
               torn == walk.torn \/ Disturbs(c) \/ Counted
    <2>2. walk' = [walk EXCEPT !.moved = moved, !.torn = torn]
      BY <1>1 DEF Store
    <2> HIDE DEF moved, torn
    <2>3. walk'.due = walk.due /\ walk'.seen = walk.seen /\ walk'.moved = moved /\ walk'.torn = torn
      BY <2>1, <2>2
    <2> QED
      BY <2>3 DEF moved, torn
  <1>3. /\ Counted' = Counted /\ Selected' = Selected /\ LastPage' = LastPage
    BY <1>1 DEF Counted, Selected, LastPage
  <1> DEFINE n == IF Selected THEN req.offset + Limit ELSE req.offset
  <1>4. /\ Waiting(n)
        /\ Selected /\ LastPage => Owed = {}
        /\ req.grouped => \A k \in walk.due : k[1] # "row"
    BY <1>1, <1>2 DEF WalkOK
  <1>5. n \in Nat
    <2>1. req \in Listings /\ Limit \in Nat
      BY <1>1, Running, GroupedPageAssumption DEF StateOK
    <2> QED
      BY <2>1 DEF Listings
  <1>6. n' = n
    BY <1>1, <1>3
  <1>7. ASSUME NEW k \in Owed'
        PROVE  k \in Listed' /\ Ahead(k, Listed', ListingOrder') >= n
    <2>1. k \in Owed /\ k \in walk.due /\ k \notin Moved(c)
      BY <1>2 DEF Owed
    <2>2. k \in Listed /\ Ahead(k, Listed, ListingOrder) >= n
      BY <1>4, <2>1 DEF Waiting
    <2>3. req.grouped => k[1] # "row"
      BY <1>4, <2>1
    <2>4. /\ k \in Listed' /\ Ahead(k, Listed, ListingOrder) \in Nat
          /\ Ahead(k, Listed', ListingOrder') \in Nat
          /\ Ahead(k, Listed, ListingOrder) <= Ahead(k, Listed', ListingOrder')
      BY <1>1, <1>2, <2>1, <2>2, <2>3, StoreMoves
    <2> HIDE DEF n
    <2> QED
      BY <1>5, <2>2, <2>4
  <1> HIDE DEF n
  <1>8. Waiting(n)'
    BY <1>6, <1>7 DEF Waiting
  <1>9. Selected' /\ LastPage' => Owed' = {}
    BY <1>2, <1>3, <1>4 DEF Owed
  <1>10. req'.grouped => \A k \in walk'.due : k[1] # "row"
    BY <1>1, <1>2, <1>4
  <1>11. ~Counted'
    BY <1>2, <1>3
  <1> QED
    BY <1>8, <1>9, <1>10, <1>11 DEF WalkOK, n

LEMMA NextKeepsWalk ==
  ASSUME StateOK, WalkOK, [Next]_vars
  PROVE  WalkOK'
  <1>1. ASSUME NEW c \in Captures, Store(c)
        PROVE  WalkOK'
    BY <1>1, StoreKeepsWalk
  <1>2. ASSUME NEW cutoff, Prune(cutoff)
        PROVE  WalkOK'
    <2>1. CASE req = Idle
      BY <1>2, <2>1, WrittenFacts DEF Prune, WalkOK
    <2>2. CASE req # Idle
      <3>1. walk' = [walk EXCEPT !.torn = TRUE]
        BY <1>2, <2>2 DEF Prune
      <3>2. walk = [due |-> walk.due, seen |-> walk.seen, moved |-> walk.moved, torn |-> walk.torn]
        BY DEF StateOK, ClientOK
      <3>3. walk'.torn = TRUE
        BY <3>1, <3>2
      <3> QED
        BY <3>3 DEF WalkOK
    <2> QED
      BY <2>1, <2>2
  <1>3. ASSUME NEW f \in Filters, NEW grouped \in BOOLEAN, Begin(f, grouped)
        PROVE  WalkOK'
    <2>1. req = Idle /\ view' = view /\ walk' = walk
      BY <1>3 DEF Begin
    <2>2. view' = <<>> /\ walk' = NoWalk
      BY <2>1, Running DEF StateOK
    <2>3. DOMAIN view' = {} /\ walk'.due = {}
      BY <2>2 DEF NoWalk
    <2>4. ~Selected' /\ ~Counted'
      BY <2>3 DEF Selected, Counted
    <2> QED
      BY <2>3, <2>4 DEF WalkOK, Waiting, Owed
  <1>4. CASE Query
    BY <1>4, QueryKeepsWalk
  <1>5. CASE ReadNoResponses
    <2>1. /\ req \in Listings /\ req.grouped /\ req' = [req EXCEPT !.blind = TRUE]
          /\ DOMAIN view = {"count", "groups", "attempts"}
          /\ DOMAIN view' = {"count", "groups", "attempts", "responses"}
          /\ view'.count = view.count
          /\ UNCHANGED <<table, walk>>
      BY <1>5, BlindFacts
    <2>2. /\ req # Idle /\ req'.filter = req.filter /\ req'.grouped = req.grouped
          /\ req'.offset = req.offset
      BY <1>5, <2>1 DEF Listings, ReadNoResponses
    <2>3. Selected /\ Selected' /\ ~Counted' /\ LastPage' = LastPage
      BY <2>1, <2>2 DEF Selected, Counted, LastPage
    <2>4. Listed' = Listed
      BY <2>1, <2>2 DEF Listed, Grouped, MatchedRows
    <2>5. ListingOrder' = ListingOrder
      BY <2>1, <2>2, <2>4 DEF ListingOrder, Grouped
    <2>6. \A n : Waiting(n)' <=> Waiting(n)
      BY <2>1, <2>4, <2>5 DEF Waiting, Owed
    <2> HIDE DEF Selected, Counted, LastPage, Waiting
    <2>7. ASSUME ~walk.torn
          PROVE  /\ Waiting(req.offset + Limit)
                 /\ LastPage => Owed = {}
                 /\ \A k \in walk.due : k[1] # "row"
      BY <2>1, <2>2, <2>3, <2>7 DEF WalkOK
    <2>8. ASSUME ~walk'.torn
          PROVE  /\ Waiting(req.offset + Limit)'
                 /\ LastPage' => Owed' = {}
                 /\ \A k \in walk'.due : k[1] # "row"
      BY <2>1, <2>2, <2>3, <2>4, <2>5, <2>7, <2>8 DEF Waiting, Owed
    <2> QED
      BY <2>2, <2>3, <2>8 DEF WalkOK
  <1>6. CASE NextPage
    <2>1. /\ req \in Listings /\ req'.offset = req.offset + Limit
          /\ req'.filter = req.filter /\ req'.grouped = req.grouped
          /\ view' = <<>> /\ UNCHANGED <<table, walk>>
      BY <1>6, NextPageFacts
    <2>2. Selected /\ req # Idle
      <3>1. req # Idle /\ (DOMAIN view = Range(Plan) \/ "groups" \in DOMAIN view)
        BY <1>6 DEF NextPage, Answered
      <3> QED
        BY <3>1, PlanNames DEF Selected
    <2>3. DOMAIN view' = {}
      BY <2>1
    <2>4. ~Selected' /\ ~Counted'
      BY <2>3 DEF Selected, Counted
    <2>5. Listed' = Listed
      BY <2>1 DEF Listed, Grouped, MatchedRows
    <2>6. ListingOrder' = ListingOrder
      BY <2>1, <2>5 DEF ListingOrder, Grouped
    <2>7. ASSUME ~walk.torn
          PROVE  /\ Waiting(req.offset + Limit)
                 /\ req.grouped => \A k \in walk.due : k[1] # "row"
      BY <2>2, <2>7 DEF WalkOK
    <2>8. ASSUME ~walk'.torn
          PROVE  /\ Waiting(req.offset)'
                 /\ req'.grouped => \A k \in walk'.due : k[1] # "row"
      BY <2>1, <2>5, <2>6, <2>7, <2>8 DEF Waiting, Owed
    <2> QED
      BY <2>4, <2>8 DEF WalkOK
  <1>7. CASE Finish
    BY <1>7 DEF Finish, WalkOK, Idle
  <1>8. CASE UNCHANGED vars
    <2>1. UNCHANGED <<table, req, view, walk>>
      BY <1>8 DEF vars
    <2>2. /\ Counted' = Counted /\ Selected' = Selected /\ LastPage' = LastPage
      BY <2>1 DEF Counted, Selected, LastPage
    <2>3. Matching' = Matching
      BY <2>1 DEF Matching, Where, RowMatches, ModelMatches, Resolved
    <2>4. Listed' = Listed
      BY <2>1 DEF Listed, Grouped, MatchedRows
    <2>5. ListingOrder' = ListingOrder
      BY <2>1, <2>4 DEF ListingOrder, Grouped
    <2>6. Idle' = Idle
      BY DEF Idle
    <2> QED
      BY <2>1, <2>2, <2>3, <2>4, <2>5, <2>6 DEF WalkOK, Waiting, Owed
  <1> QED
    BY <1>1, <1>2, <1>3, <1>4, <1>5, <1>6, <1>7, <1>8 DEF Next

\* A client that pages to the end has seen every row or call that matched when
\* it began, but for the calls that a new row moved to the front between its
\* pages, unless the walk was torn: a capture only moves the lines of other
\* calls further back or not at all (pageFlat, pageGrouped).
THEOREM WalksAreCovering == Spec => []WalkCovers
  <1>1. Init => WalkOK
    BY DEF Init, WalkOK
  <1>2. StateOK /\ WalkOK /\ [Next]_vars => WalkOK'
    BY NextKeepsWalk
  <1>3. WalkOK => WalkCovers
    <2> SUFFICES ASSUME WalkOK, Answered, LastPage, ~walk.torn
                 PROVE  Owed = {}
      BY DEF WalkCovers, Owed
    <2>1. req # Idle /\ (DOMAIN view = Range(Plan) \/ "groups" \in DOMAIN view)
      BY DEF Answered
    <2>2. Selected
      BY <2>1, PlanNames DEF Selected
    <2> QED
      BY <2>1, <2>2 DEF WalkOK
  <1> QED
    BY <1>1, <1>2, <1>3, StateInvariant, PTL DEF Spec

-----------------------------------------------------------------------------
(***************************************************************************)
(* The lines of a page                                                     *)
(***************************************************************************)

\* The queries of a page during which nothing was written saw one state of the
\* log.
AttemptRows ==
    {r \in Range(table) : r.kind = "request" /\ GroupKey(r) \in Range(view.groups)}
ResponseRows ==
    {r \in Range(table) : r.kind = "response" /\ \E a \in Range(view.attempts) : a.rid = r.rid}
GroupsOK ==
    view.groups \in Seq(Listed) /\ Lists(view.groups, Range(view.groups), ListingOrder)
PageOK ==
    req # Idle /\ req.quiet =>
        /\ "groups" \in DOMAIN view => GroupsOK
        /\ "attempts" \in DOMAIN view => Lists(view.attempts, AttemptRows, OldestFirst)
        /\ "responses" \in DOMAIN view =>
              Range(view.responses) = IF req.blind THEN {} ELSE ResponseRows

\* The calls of a page are calls that match, in the order of the listing.
LEMMA PageOfCalls ==
  ASSUME TableOK, req.grouped, NEW o \in Nat
  PROVE  LET page == Slice(Matching, o, Limit)
         IN  page \in Seq(Listed) /\ Lists(page, Range(page), ListingOrder)
  <1>1. Lists(Matching, Listed, ListingOrder)
    <2>1. Matching = Arranged(Listed, ListingOrder)
      BY DEF Matching, Groups, Listed, ListingOrder, Grouped
    <2>2. IsFiniteSet(Listed) /\ Orders(ListingOrder, Listed)
      BY CallsOrdered DEF Listed, ListingOrder, Grouped
    <2> QED
      BY <2>1, <2>2, ArrangedLists
  <1> DEFINE m == Matching
  <1>2. m \in Seq(Listed)
    BY <1>1 DEF Lists
  <1> HIDE DEF m
  <1>3. Limit \in Nat
    BY GroupedPageAssumption
  <1>4. Slice(m, o, Limit) \in Seq(Listed)
    BY <1>2, <1>3, SliceRows
  <1>5. Lists(Slice(m, o, Limit), Range(Slice(m, o, Limit)), ListingOrder)
    BY <1>1, <1>3, SlicesAreLists DEF m
  <1> QED
    BY <1>4, <1>5 DEF m

\* A selection from the log by a test of each row.
LEMMA SelectionOfLog ==
  ASSUME TableOK, NEW Y, Y \subseteq Range(table), NEW I, I = {i \in DOMAIN table : table[i] \in Y}
  PROVE  Lists(RowsAt(table, I, Ascending(I)), Y, OldestFirst)
  BY SelectedRows

LEMMA AttemptsResult ==
  ASSUME TableOK
  PROVE  Lists(Result("attempts"), AttemptRows, OldestFirst)
  <1> DEFINE I == {i \in DOMAIN table : /\ table[i].kind = "request"
                                        /\ GroupKey(table[i]) \in Range(view.groups)}
  <1>1. Result("attempts") = RowsAt(table, I, Ascending(I))
    BY DEF Result, Where
  <1>2. I = {i \in DOMAIN table : table[i] \in AttemptRows} /\ AttemptRows \subseteq Range(table)
    BY DEF AttemptRows, Range
  <1> HIDE DEF I
  <1> QED
    BY <1>1, <1>2, SelectionOfLog

LEMMA ResponsesResult ==
  ASSUME TableOK
  PROVE  Range(Result("responses")) = ResponseRows
  <1> DEFINE I == {i \in DOMAIN table : /\ table[i].kind = "response"
                                        /\ \E a \in Range(view.attempts) : a.rid = table[i].rid}
  <1>1. Result("responses") = RowsAt(table, I, Ascending(I))
    BY DEF Result, Where
  <1>2. I = {i \in DOMAIN table : table[i] \in ResponseRows} /\ ResponseRows \subseteq Range(table)
    BY DEF ResponseRows, Range
  <1> HIDE DEF I
  <1>3. Lists(RowsAt(table, I, Ascending(I)), ResponseRows, OldestFirst)
    BY <1>2, SelectionOfLog
  <1> QED
    BY <1>1, <1>3, ListsOnce

LEMMA QueryKeepsPage ==
  ASSUME StateOK, PageOK, Query
  PROVE  PageOK'
  <1> DEFINE q == Following
  <1>1. /\ req # Idle /\ ~Answered /\ TableOK
        /\ view' = Answer(q, Result(q)) /\ UNCHANGED <<table, req>>
    BY DEF Query, Following, StateOK
  <1>2. /\ req \in Listings
        /\ \/ DOMAIN view = {} /\ q = "count"
           \/ req.grouped /\ DOMAIN view = {"count"} /\ q = "groups"
           \/ ~req.grouped /\ DOMAIN view = {"count"} /\ q = "rows"
           \/ req.grouped /\ DOMAIN view = {"count", "groups"} /\ q = "attempts"
           \/ req.grouped /\ DOMAIN view = {"count", "groups", "attempts"} /\ q = "responses"
    BY <1>1, QueryStage
  <1> HIDE DEF q
  <1>3. /\ DOMAIN view' = DOMAIN view \cup {q} /\ view'[q] = Result(q)
        /\ \A x \in DOMAIN view : x # q => view'[x] = view[x]
    <2> DEFINE result == Result(q)
    <2>1. view' = Answer(q, result)
      BY <1>1
    <2> HIDE DEF result
    <2>2. /\ DOMAIN view' = DOMAIN view \cup {q} /\ view'[q] = result
          /\ \A x \in DOMAIN view : x # q => view'[x] = view[x]
      BY <2>1 DEF Answer
    <2> QED
      BY <2>2 DEF result
  <1>4. table' = table /\ req' = req /\ Idle' = Idle
    BY <1>1 DEF Idle
  <1>5. Listed' = Listed /\ OldestFirst' = OldestFirst /\ ListingOrder' = ListingOrder
    <2>1. Listed' = Listed /\ OldestFirst' = OldestFirst
      BY <1>4 DEF Listed, Grouped, MatchedRows, OldestFirst
    <2>2. ListingOrder' = ListingOrder
      BY <1>4, <2>1 DEF ListingOrder, Grouped
    <2> QED
      BY <2>1, <2>2
  <1> SUFFICES ASSUME req.quiet
               PROVE  PageOK'
    BY <1>4 DEF PageOK
  <1>6. /\ "groups" \in DOMAIN view => GroupsOK
        /\ "attempts" \in DOMAIN view => Lists(view.attempts, AttemptRows, OldestFirst)
    BY <1>1 DEF PageOK
  <1>7. "groups" \in DOMAIN view' =>
           /\ view'.groups \in Seq(Listed)
           /\ Lists(view'.groups, Range(view'.groups), ListingOrder)
    <2>1. CASE q = "groups"
      <3>1. Result("groups") = Slice(Matching, Start, Limit)
        BY DEF Result
      <3>2. view.count \in Nat /\ req.offset \in Nat
        BY <1>1, <1>2, <2>1, Running DEF StateOK, Listings
      <3>3. Start \in Nat
        BY <3>2 DEF Start
      <3>4. /\ Result("groups") \in Seq(Listed)
            /\ Lists(Result("groups"), Range(Result("groups")), ListingOrder)
        BY <1>1, <1>2, <2>1, <3>1, <3>3, PageOfCalls
      <3> QED
        BY <1>3, <2>1, <3>4
    <2>2. CASE q # "groups"
      <3> SUFFICES ASSUME "groups" \in DOMAIN view'
                   PROVE  /\ view'.groups \in Seq(Listed)
                          /\ Lists(view'.groups, Range(view'.groups), ListingOrder)
        OBVIOUS
      <3>1. "groups" \in DOMAIN view /\ view'.groups = view.groups
        BY <1>3, <2>2
      <3> QED
        BY <1>6, <3>1 DEF GroupsOK
    <2> QED
      BY <2>1, <2>2
  <1>8. "attempts" \in DOMAIN view' => Lists(view'.attempts, AttemptRows', OldestFirst)
    <2>1. CASE q = "attempts"
      <3>1. view'.attempts = Result("attempts") /\ view'.groups = view.groups
        BY <1>2, <1>3, <2>1
      <3>2. AttemptRows' = AttemptRows
        BY <1>4, <3>1 DEF AttemptRows
      <3> QED
        BY <1>1, <3>1, <3>2, AttemptsResult
    <2>2. CASE q # "attempts"
      <3> SUFFICES ASSUME "attempts" \in DOMAIN view'
                   PROVE  Lists(view'.attempts, AttemptRows', OldestFirst)
        OBVIOUS
      <3>1. view'.attempts = view.attempts /\ view'.groups = view.groups /\ "attempts" \in DOMAIN view
        BY <1>2, <1>3, <2>2
      <3>2. AttemptRows' = AttemptRows
        BY <1>4, <3>1 DEF AttemptRows
      <3> QED
        BY <1>6, <3>1, <3>2
    <2> QED
      BY <2>1, <2>2
  <1>9. "responses" \in DOMAIN view' =>
           Range(view'.responses) = IF req'.blind THEN {} ELSE ResponseRows'
    <2> SUFFICES ASSUME "responses" \in DOMAIN view'
                 PROVE  Range(view'.responses) = IF req'.blind THEN {} ELSE ResponseRows'
      OBVIOUS
    <2>1. q = "responses" /\ "responses" \notin DOMAIN view
      BY <1>2, <1>3
    <2>2. view'.responses = Result("responses") /\ view'.attempts = view.attempts
      BY <1>2, <1>3, <2>1
    <2>3. ~req'.blind
      BY <1>1, <1>4, <2>1, Running DEF StateOK
    <2>4. ResponseRows' = ResponseRows
      BY <1>4, <2>2 DEF ResponseRows
    <2> QED
      BY <1>1, <2>2, <2>3, <2>4, ResponsesResult
  <1> QED
    BY <1>4, <1>5, <1>7, <1>8, <1>9 DEF PageOK, GroupsOK

LEMMA NextKeepsPage ==
  ASSUME StateOK, PageOK, [Next]_vars
  PROVE  PageOK'
  <1>1. ASSUME Written
        PROVE  PageOK'
    <2> SUFFICES ASSUME req' # Idle, req'.quiet
                 PROVE  PageOK'
      BY DEF PageOK, Idle
    <2>1. view' = <<>>
      BY <1>1, WrittenFacts
    <2>2. DOMAIN view' = {}
      BY <2>1
    <2> QED
      BY <2>2 DEF PageOK
  <1>2. ASSUME NEW c \in Captures, Store(c)
        PROVE  PageOK'
    BY <1>1, <1>2 DEF Store
  <1>3. ASSUME NEW cutoff, Prune(cutoff)
        PROVE  PageOK'
    BY <1>1, <1>3 DEF Prune
  <1>4. ASSUME NEW f \in Filters, NEW grouped \in BOOLEAN, Begin(f, grouped)
        PROVE  PageOK'
    <2>1. req = Idle /\ view' = view
      BY <1>4 DEF Begin
    <2>2. view' = <<>>
      BY <2>1, Running DEF StateOK
    <2>3. DOMAIN view' = {}
      BY <2>2
    <2> QED
      BY <2>3 DEF PageOK
  <1>5. CASE Query
    BY <1>5, QueryKeepsPage
  <1>6. CASE ReadNoResponses
    <2>1. /\ req \in Listings /\ req.grouped /\ req' = [req EXCEPT !.blind = TRUE]
          /\ DOMAIN view = {"count", "groups", "attempts"}
          /\ view'["responses"] = <<>>
          /\ view'.groups = view.groups /\ view'.attempts = view.attempts
          /\ table' = table
      BY <1>6, BlindFacts
    <2>2. /\ req # Idle /\ req'.filter = req.filter /\ req'.grouped = req.grouped
          /\ req'.quiet = req.quiet /\ req'.blind = TRUE
      BY <1>6, <2>1 DEF Listings, ReadNoResponses
    <2>3. Listed' = Listed /\ ListingOrder' = ListingOrder
      <3>1. Listed' = Listed
        BY <2>1, <2>2 DEF Listed, Grouped, MatchedRows
      <3>2. ListingOrder' = ListingOrder
        BY <2>1, <2>2, <3>1 DEF ListingOrder, Grouped
      <3> QED
        BY <3>1, <3>2
    <2>4. AttemptRows' = AttemptRows /\ OldestFirst' = OldestFirst
      BY <2>1 DEF AttemptRows, OldestFirst
    <2>5. Range(view'["responses"]) = {}
      BY <2>1 DEF Range
    <2>6. ASSUME req.quiet
          PROVE  GroupsOK /\ Lists(view.attempts, AttemptRows, OldestFirst)
      BY <2>1, <2>2, <2>6 DEF PageOK
    <2>7. ASSUME req'.quiet
          PROVE  GroupsOK' /\ Lists(view'.attempts, AttemptRows', OldestFirst')
      BY <2>1, <2>2, <2>3, <2>4, <2>6, <2>7 DEF GroupsOK
    <2> QED
      BY <2>2, <2>5, <2>7 DEF PageOK
  <1>7. CASE NextPage
    <2>1. view' = <<>>
      BY <1>7 DEF NextPage
    <2>2. DOMAIN view' = {}
      BY <2>1
    <2> QED
      BY <2>2 DEF PageOK
  <1>8. CASE Finish
    BY <1>8 DEF Finish, PageOK, Idle
  <1>9. CASE UNCHANGED vars
    <2>1. UNCHANGED <<table, req, view>>
      BY <1>9 DEF vars
    <2>2. Listed' = Listed /\ OldestFirst' = OldestFirst /\ Idle' = Idle
      BY <2>1 DEF Listed, Grouped, MatchedRows, OldestFirst, Idle
    <2>4. ListingOrder' = ListingOrder
      BY <2>1, <2>2 DEF ListingOrder, Grouped
    <2>3. AttemptRows' = AttemptRows /\ ResponseRows' = ResponseRows
      BY <2>1 DEF AttemptRows, ResponseRows
    <2> QED
      BY <2>1, <2>2, <2>3, <2>4 DEF PageOK, GroupsOK
  <1> QED
    BY <1>2, <1>3, <1>4, <1>5, <1>6, <1>7, <1>8, <1>9 DEF Next

\* The rows of a call in the log, and the responses to one of them.
WholeCall(g) == {r \in Range(table) : r.kind = "request" /\ GroupKey(r) = g}
RepliesTo(r) == {s.id : s \in {s \in Range(table) : s.kind = "response" /\ s.rid = r.rid}}

\* A line stands for a call of the page that has attempts.
LEMMA LinesOfCalls ==
  ASSUME req.grouped, NEW S, view.groups \in Seq(S), NEW i \in DOMAIN Listing
  PROVE  \E g \in Range(view.groups) : Attempts(g) # <<>> /\ Listing[i] = CallLine(g)
  <1> DEFINE Y == {g \in Range(view.groups) : Attempts(g) # <<>>}
             I == {k \in DOMAIN view.groups : view.groups[k] \in Y}
             listed == RowsAt(view.groups, I, Ascending(I))
  <1>1. I = {k \in DOMAIN view.groups : Attempts(view.groups[k]) # <<>>}
    BY DEF Range
  <1>2. Listing = [k \in DOMAIN listed |-> CallLine(listed[k])]
    BY <1>1 DEF Listing, Where
  <1> HIDE DEF Y
  <1>3. \A x \in Range(listed) : x \in Y
    BY SelectedRange
  <1> HIDE DEF I, listed
  <1>4. listed[i] \in Y /\ Listing[i] = CallLine(listed[i])
    BY <1>2, <1>3 DEF Range
  <1> QED
    BY <1>4 DEF Y

\* The lines stand in the order of the calls of the page.
LEMMA LinesInOrder ==
  ASSUME req.grouped, GroupsOK, NEW i \in DOMAIN Listing, NEW j \in DOMAIN Listing, i < j
  PROVE  <<Listing[i].call, Listing[j].call>> \in ListingOrder
  <1> DEFINE Y == {g \in Range(view.groups) : Attempts(g) # <<>>}
             I == {k \in DOMAIN view.groups : view.groups[k] \in Y}
             listed == RowsAt(view.groups, I, Ascending(I))
  <1>1. I = {k \in DOMAIN view.groups : Attempts(view.groups[k]) # <<>>}
    BY DEF Range
  <1>2. Listing = [k \in DOMAIN listed |-> CallLine(listed[k])]
    BY <1>1 DEF Listing, Where
  <1>3. Y \in SUBSET Range(view.groups)
    OBVIOUS
  <1> HIDE DEF Y
  <1>4. Lists(listed, Y, ListingOrder)
    BY <1>3, SelectionLists DEF GroupsOK
  <1> HIDE DEF I, listed
  <1>5. i \in 1 .. Len(listed) /\ j \in 1 .. Len(listed)
    BY <1>2, <1>4, ListsOnce
  <1>6. <<listed[i], listed[j]>> \in ListingOrder
    BY <1>4, <1>5, ListsOrder
  <1>7. \A g : CallLine(g).call = g
    BY DEF CallLine
  <1>8. Listing[i].call = listed[i] /\ Listing[j].call = listed[j]
    BY <1>2, <1>7
  <1> QED
    BY <1>6, <1>8

\* The attempts of a line are the rows of its call, whatever the filter kept.
LEMMA AttemptsOfCall ==
  ASSUME TableOK, req.grouped, Lists(view.attempts, AttemptRows, OldestFirst),
         NEW g \in Listed, g \in Range(view.groups), Attempts(g) # <<>>
  PROVE  Lists(Attempts(g), WholeCall(g), OldestFirst) /\ WholeCall(g) \subseteq AttemptRows
  <1> DEFINE a == view.attempts
             Y == {r \in AttemptRows : <<"trace", r.trace>> = g}
             I == {i \in DOMAIN a : a[i] \in Y}
  <1>1. Range(a) = AttemptRows
    BY ListsOnce
  <1>2. I = {i \in DOMAIN a : <<"trace", a[i].trace>> = g}
    BY <1>1 DEF Range
  <1>3. Attempts(g) = RowsAt(a, I, Ascending(I))
    BY <1>2 DEF Attempts, Where
  <1>4. Y \in SUBSET AttemptRows
    OBVIOUS
  <1> HIDE DEF a, Y
  <1>5. Lists(Attempts(g), Y, OldestFirst)
    BY <1>3, <1>4, SelectionLists DEF a
  <1>6. PICK r \in Range(table) : GroupKey(r) = g
    BY DEF Listed, CallKeys, Grouped, CallRows
  <1>7. PICK y \in Y : TRUE
    <2>1. Range(Attempts(g)) = Y /\ DOMAIN Attempts(g) = 1 .. Len(Attempts(g))
          /\ Attempts(g) \in Seq(Y)
      BY <1>5, ListsOnce DEF Lists
    <2>2. Attempts(g)[1] \in Y
      BY <2>1
    <2> QED
      BY <2>2
  <1>8. g = <<"trace", y.trace>> /\ y.trace # NoTrace
    <2>1. g = <<"trace", y.trace>>
      BY <1>7 DEF Y
    <2>2. g = <<"trace", r.trace>> /\ r.trace # NoTrace
      BY <1>6, <2>1 DEF GroupKey
    <2> QED
      BY <2>1, <2>2
  <1>9. \A x : GroupKey(x) = g <=> <<"trace", x.trace>> = g
    BY <1>8 DEF GroupKey
  <1>10. Y = WholeCall(g)
    BY <1>9 DEF Y, AttemptRows, WholeCall
  <1> QED
    BY <1>4, <1>5, <1>10

\* What a line shows of its attempts: the last one that was answered, else the
\* last one.
LEMMA PrimaryFacts ==
  ASSUME TableOK, NEW W, W \subseteq Range(table), NEW T, Lists(T, W, OldestFirst), T # <<>>
  PROVE  LET answered == {r \in W : ResponsesOf(r) # {}}
             shown == IF answered = {} THEN W ELSE answered
         IN  Primary(T) \in shown /\ \A r \in shown : Primary(T).id >= r.id
  <1> DEFINE n == Len(T)
             answered == {r \in W : ResponsesOf(r) # {}}
             P == Answering(T)
  <1>1. /\ n \in Nat /\ DOMAIN T = 1 .. n /\ Range(T) = W
        /\ \A i \in 1 .. n : T[i] \in W
    BY ListsOnce DEF Range
  <1>2. n # 0
    <2>1. T \in Seq(W)
      BY DEF Lists
    <2> QED
      BY <2>1
  <1>3. \A r \in W : r.id \in Nat
    BY RowsApart
  <1>4. ASSUME NEW i \in 1 .. n, NEW j \in 1 .. n, i <= j
        PROVE  T[j].id >= T[i].id
    <2>1. CASE i = j
      BY <1>1, <1>3, <2>1
    <2>2. CASE i < j
      <3>1. <<T[i], T[j]>> \in OldestFirst
        BY <2>2, ListsOrder
      <3>2. T[i].id < T[j].id
        BY <3>1 DEF OldestFirst
      <3> QED
        BY <1>1, <1>3, <3>2
    <2> QED
      BY <1>1, <1>4, <2>1, <2>2
  <1>5. \A r \in W : \E i \in 1 .. n : T[i] = r
    BY <1>1 DEF Range
  <1>6. P = {i \in 1 .. n : T[i] \in answered}
    BY <1>1 DEF Answering
  <1>7. Primary(T) = T[IF P = {} THEN n ELSE Max(P)]
    BY DEF Primary
  <1> HIDE DEF n, P
  <1>8. CASE answered = {}
    <2>1. P = {}
      BY <1>6, <1>8
    <2>2. Primary(T) = T[n] /\ n \in 1 .. n
      BY <1>1, <1>2, <1>7, <2>1
    <2>3. \A r \in W : T[n].id >= r.id
      BY <1>1, <1>4, <1>5, <2>2
    <2> QED
      BY <1>1, <1>8, <2>2, <2>3
  <1>9. CASE answered # {}
    <2>1. P # {}
      BY <1>5, <1>6, <1>9
    <2>2. P \in SUBSET (0 .. n)
      BY <1>1, <1>6
    <2>3. Max(P) \in P /\ \A i \in P : Max(P) >= i
      BY <1>1, <2>1, <2>2, GreatestNumber
    <2> DEFINE m == Max(P)
    <2>4. Primary(T) = T[m]
      BY <1>7, <2>1
    <2> HIDE DEF m
    <2>5. m \in 1 .. n /\ T[m] \in answered /\ \A i \in P : m >= i
      BY <1>6, <2>3 DEF m
    <2>6. ASSUME NEW r \in answered
          PROVE  T[m].id >= r.id
      <3>1. PICK i \in 1 .. n : T[i] = r
        BY <1>5
      <3>2. i \in P
        BY <1>6, <3>1
      <3>3. i <= m
        BY <1>1, <2>5, <3>2
      <3> QED
        BY <1>4, <2>5, <3>1, <3>3
    <2> QED
      BY <1>9, <2>4, <2>5, <2>6
  <1> QED
    BY <1>8, <1>9

\* What a line says besides: the first attempt, and how many targets were tried.
LEMMA AttemptFacts ==
  ASSUME TableOK, NEW W, W \subseteq Range(table), NEW T, Lists(T, W, OldestFirst), T # <<>>
  PROVE  /\ Head(T) \in W /\ \A s \in W : Head(T).id <= s.id
         /\ Cardinality({i \in DOMAIN T : Resolved(T[i])}) = Cardinality({r \in W : Resolved(r)})
  <1> DEFINE n == Len(T)
  <1>1. /\ n \in Nat /\ DOMAIN T = 1 .. n /\ Range(T) = W /\ IsFiniteSet(DOMAIN T)
        /\ \A i \in 1 .. n : T[i] \in W
        /\ \A i, j \in 1 .. n : T[i] = T[j] => i = j
    BY ListsOnce DEF Range
  <1>2. T \in Seq(W)
    BY DEF Lists
  <1>3. Head(T) = T[1] /\ 1 \in 1 .. n
    BY <1>1, <1>2
  <1>4. \A r \in W : \E i \in 1 .. n : T[i] = r
    BY <1>1 DEF Range
  <1>5. \A r \in W : r.id \in Nat
    BY RowsApart
  <1> HIDE DEF n
  <1>6. ASSUME NEW s \in W
        PROVE  T[1].id <= s.id
    <2>1. PICK i \in 1 .. n : T[i] = s
      BY <1>4
    <2>2. CASE i = 1
      BY <1>5, <2>1, <2>2
    <2>3. CASE i # 1
      <3>1. 1 < i
        BY <1>1, <2>3
      <3>2. <<T[1], T[i]>> \in OldestFirst
        BY <1>3, <3>1, ListsOrder DEF n
      <3>3. T[1].id < T[i].id /\ T[1].id \in Nat
        BY <1>1, <1>3, <1>5, <3>2 DEF OldestFirst
      <3> QED
        BY <1>5, <2>1, <3>3
    <2> QED
      BY <2>2, <2>3
  <1>7. Cardinality({i \in DOMAIN T : Resolved(T[i])}) = Cardinality({r \in W : Resolved(r)})
    <2> DEFINE A == {i \in DOMAIN T : Resolved(T[i])}
               B == {r \in W : Resolved(r)}
    <2>1. IsFiniteSet(A)
      BY <1>1, FS_Subset
    <2>2. \A i, j \in A : T[i] = T[j] => i = j
      BY <1>1
    <2>3. (\A i \in A : T[i] \in B) /\ \A r \in B : \E i \in A : T[i] = r
      BY <1>1, <1>4
    <2> HIDE DEF A, B
    <2>4. Cardinality(B) = Cardinality(A)
      BY <2>1, <2>2, <2>3, RowsCount
    <2> QED
      BY <2>4 DEF A, B
  <1> QED
    BY <1>1, <1>3, <1>6, <1>7

\* The responses of an attempt are the ones of its request in the log.
LEMMA ResponsesFacts ==
  ASSUME Lists(view.attempts, AttemptRows, OldestFirst), NEW r \in AttemptRows,
         Range(view.responses) = IF req.blind THEN {} ELSE ResponseRows
  PROVE  ResponsesOf(r) = IF req.blind THEN {} ELSE RepliesTo(r)
  <1>1. r \in Range(view.attempts)
    BY ListsOnce
  <1>2. CASE req.blind
    BY <1>2 DEF ResponsesOf
  <1>3. CASE ~req.blind
    <2>1. {s \in Range(view.responses) : s.rid = r.rid}
            = {s \in Range(table) : s.kind = "response" /\ s.rid = r.rid}
      BY <1>1, <1>3 DEF ResponseRows
    <2> QED
      BY <1>3, <2>1 DEF ResponsesOf, RepliesTo
  <1> QED
    BY <1>2, <1>3

\* A call passes the filter as routed when it has several rows.
LEMMA CallsClassified ==
  ASSUME req.grouped, NEW g \in Listed, req.filter.combo # Unset, req.filter.model = Unset
  PROVE  (req.filter.combo = "combo") = (Cardinality(WholeCall(g)) > 1)
  <1>1. CallMatches(req.filter, Members(Grouped, g))
    BY DEF Listed, CallKeys
  <1>2. Members(Grouped, g) = WholeCall(g)
    BY DEF Members, Grouped, CallRows, ModelMatches, WholeCall
  <1> QED
    BY <1>1, <1>2 DEF CallMatches

\* Every call is either routed or direct.
LEMMA CallsSplit ==
  ASSUME TableOK, NEW f \in Filters
  PROVE  Len(Groups([f EXCEPT !.combo = "combo"], table))
           + Len(Groups([f EXCEPT !.combo = "direct"], table))
           = Len(Groups([f EXCEPT !.combo = Unset], table))
  <1> DEFINE With(x) == [f EXCEPT !.combo = x]
             rows == CallRows(f, table)
             K(x) == CallKeys(With(x), rows)
             Many(g) == Cardinality(Members(rows, g)) > 1
  <1>1. ASSUME NEW x
        PROVE  /\ With(x).combo = x /\ With(x).model = f.model /\ With(x).name = f.name
               /\ CallRows(With(x), table) = rows
    <2>1. With(x).combo = x /\ With(x).model = f.model /\ With(x).name = f.name
      BY GroupedPageAssumption
    <2> QED
      BY <2>1 DEF CallRows, ModelMatches
  <1>2. ASSUME NEW x
        PROVE  /\ Len(Groups(With(x), table)) = Cardinality(K(x))
               /\ IsFiniteSet(K(x))
    <2> DEFINE h == With(x)
               all == CallRows(h, table)
    <2>1. IsFiniteSet(CallKeys(h, all)) /\ Orders(NewerCalls(h, all), CallKeys(h, all))
      BY CallsOrdered
    <2>2. Groups(h, table) = Arranged(CallKeys(h, all), NewerCalls(h, all))
      BY DEF Groups
    <2>3. all = rows
      BY <1>1
    <2> HIDE DEF h, all
    <2>4. Lists(Groups(h, table), CallKeys(h, all), NewerCalls(h, all))
      BY <2>1, <2>2, ArrangedLists
    <2>5. Len(Groups(h, table)) = Cardinality(CallKeys(h, all))
      BY <2>4 DEF Lists
    <2> QED
      BY <2>1, <2>3, <2>5 DEF h
  <1> DEFINE Named(g) == f.name # Unset => \E r \in Members(rows, g) : r.model \in f.name
             all == {GroupKey(r) : r \in rows}
  <1>3. K(Unset) = {g \in all : Named(g)}
    BY <1>1 DEF CallKeys, CallMatches
  <1>4. K("combo") = {g \in all : Named(g) /\ Many(g)}
    BY <1>1, GroupedPageAssumption DEF CallKeys, CallMatches
  <1>5. K("direct") = {g \in all : Named(g) /\ ~Many(g)}
    BY <1>1, GroupedPageAssumption DEF CallKeys, CallMatches
  <1> HIDE DEF K, Many, Named, all
  <1>6. K(Unset) = K("combo") \cup K("direct") /\ K("combo") \cap K("direct") = {}
    BY <1>3, <1>4, <1>5
  <1> HIDE DEF With
  <1>7. Cardinality(K(Unset)) = Cardinality(K("combo")) + Cardinality(K("direct"))
    <2> DEFINE A == K("combo")
               B == K("direct")
    <2>1. IsFiniteSet(A) /\ IsFiniteSet(B)
      BY <1>2
    <2>2. A \cap B = {}
      BY <1>6
    <2> HIDE DEF A, B
    <2>3. Cardinality(A) \in Nat /\ Cardinality(B) \in Nat /\ Cardinality(A \cap B) = 0
      BY <2>1, <2>2, FS_CardinalityType, FS_EmptySet
    <2>4. Cardinality(A \cup B) = Cardinality(A) + Cardinality(B) - Cardinality(A \cap B)
      BY <2>1, FS_Union
    <2>5. Cardinality(A \cup B) = Cardinality(A) + Cardinality(B)
      BY <2>3, <2>4
    <2> QED
      BY <1>6, <2>5 DEF A, B
  <1>8. /\ Len(Groups(With("combo"), table)) = Cardinality(K("combo"))
        /\ Len(Groups(With("direct"), table)) = Cardinality(K("direct"))
        /\ Len(Groups(With(Unset), table)) = Cardinality(K(Unset))
    BY <1>2
  <1>9. Len(Groups(With("combo"), table)) + Len(Groups(With("direct"), table))
          = Len(Groups(With(Unset), table))
    BY <1>7, <1>8
  <1> QED
    BY <1>9 DEF With

\* What the lines of an undisturbed page say is what the log holds, for any rows
\* and whatever the filter kept of a call; they stand in the order of the newest
\* rows it kept, and calls are routed or direct, and never both (pageGrouped,
\* groupHaving).
THEOREM LinesAreTrue == Spec => []LinesAgree
  <1>1. Init => PageOK
    BY DEF Init, PageOK
  <1>2. StateOK /\ PageOK /\ [Next]_vars => PageOK'
    BY NextKeepsPage
  <1>3. ASSUME StateOK, PageOK, Answered, req.grouped, req.quiet, view.groups # <<>>
        PROVE  LinesAgree
    <2>1. TableOK /\ req # Idle /\ req \in Listings
      BY <1>3, Running DEF StateOK, Answered
    <2>2. /\ GroupsOK /\ view.groups \in Seq(Listed)
          /\ Lists(view.attempts, AttemptRows, OldestFirst)
          /\ Range(view.responses) = IF req.blind THEN {} ELSE ResponseRows
      <3>1. DOMAIN view = {"count", "groups", "attempts", "responses"}
        BY <1>3, PlanNames DEF Answered
      <3> QED
        BY <1>3, <2>1, <3>1 DEF PageOK, GroupsOK
    <2>3. ASSUME NEW i \in DOMAIN Listing
          PROVE  LET line == Listing[i]
                     answered == {r \in WholeCall(line.call) : RepliesTo(r) # {} /\ ~req.blind}
                     shown == IF answered = {} THEN WholeCall(line.call) ELSE answered
                 IN /\ line.id = Max({r.id : r \in shown})
                    /\ \E r \in shown :
                          /\ r.id = line.id /\ r.rid = line.rid
                          /\ line.responses = IF req.blind THEN {} ELSE RepliesTo(r)
                    /\ \E r \in WholeCall(line.call) :
                          /\ \A s \in WholeCall(line.call) : r.id <= s.id
                          /\ line.started = r.at
                    /\ line.attempts =
                          Max({1, Cardinality({r \in WholeCall(line.call) : Resolved(r)})})
                    /\ req.filter.combo # Unset /\ req.filter.model = Unset =>
                          (req.filter.combo = "combo") = (Cardinality(WholeCall(line.call)) > 1)
      <3>1. PICK g \in Range(view.groups) : Attempts(g) # <<>> /\ Listing[i] = CallLine(g)
        BY <1>3, <2>2, <2>3, LinesOfCalls
      <3> DEFINE T == Attempts(g)
                 W == WholeCall(g)
                 line == CallLine(g)
                 answered == {r \in W : RepliesTo(r) # {} /\ ~req.blind}
                 shown == IF answered = {} THEN W ELSE answered
                 S == {r.id : r \in shown}
                 p == Primary(T)
      <3>2. g \in Listed
        BY <2>2, <3>1 DEF Range
      <3>3. Lists(T, W, OldestFirst) /\ W \subseteq AttemptRows /\ T # <<>>
        BY <1>3, <2>1, <2>2, <3>1, <3>2, AttemptsOfCall
      <3>4. W \subseteq Range(table)
        BY DEF WholeCall
      <3>5. /\ line.call = g /\ line.id = p.id /\ line.rid = p.rid /\ line.started = Head(T).at
            /\ line.attempts = Max({1, Cardinality({k \in DOMAIN T : Resolved(T[k])})})
            /\ line.responses = ResponsesOf(p)
        BY DEF CallLine
      <3> HIDE DEF T, W, line, p
      <3>6. \A r \in W : ResponsesOf(r) # {} <=> RepliesTo(r) # {} /\ ~req.blind
        BY <2>2, <3>3, ResponsesFacts
      <3>7. answered = {r \in W : ResponsesOf(r) # {}}
        BY <3>6
      <3>8. p \in shown /\ \A r \in shown : p.id >= r.id
        BY <2>1, <3>3, <3>4, <3>7, PrimaryFacts DEF p
      <3>9. line.id = Max(S)
        <4>1. \A r \in shown : r.id \in Nat
          BY <2>1, <3>4, RowsApart
        <4> HIDE DEF shown
        <4>2. S \in SUBSET Nat /\ p.id \in S /\ \A y \in S : p.id >= y
          BY <3>8, <4>1
        <4> HIDE DEF S
        <4>3. Max(S) = p.id
          BY <4>2, GreatestIs
        <4> QED
          BY <3>5, <4>3
      <3>10. \E r \in shown : /\ r.id = line.id /\ r.rid = line.rid
                              /\ line.responses = IF req.blind THEN {} ELSE RepliesTo(r)
        <4>1. p \in shown /\ p \in AttemptRows
          BY <3>3, <3>8
        <4> HIDE DEF shown
        <4>2. ResponsesOf(p) = IF req.blind THEN {} ELSE RepliesTo(p)
          BY <2>2, <4>1, ResponsesFacts
        <4> QED
          BY <3>5, <4>1, <4>2
      <3>11. /\ Head(T) \in W /\ \A s \in W : Head(T).id <= s.id
             /\ Cardinality({k \in DOMAIN T : Resolved(T[k])}) = Cardinality({r \in W : Resolved(r)})
        BY <2>1, <3>3, <3>4, AttemptFacts
      <3>12. line.attempts = Max({1, Cardinality({r \in W : Resolved(r)})})
        BY <3>5, <3>11
      <3>13. \E r \in W : (\A s \in W : r.id <= s.id) /\ line.started = r.at
        BY <3>5, <3>11
      <3>14. req.filter.combo # Unset /\ req.filter.model = Unset =>
                (req.filter.combo = "combo") = (Cardinality(W) > 1)
        BY <1>3, <3>2, CallsClassified DEF W
      <3>15. Listing[i] = line
        BY <3>1 DEF line
      <3> QED
        BY <3>5, <3>9, <3>10, <3>12, <3>13, <3>14, <3>15 DEF W
    <2>4. Len(Groups([req.filter EXCEPT !.combo = "combo"], table))
            + Len(Groups([req.filter EXCEPT !.combo = "direct"], table))
            = Len(Groups([req.filter EXCEPT !.combo = Unset], table))
      <3>1. req.filter \in Filters
        BY <2>1 DEF Listings
      <3> QED
        BY <2>1, <3>1, CallsSplit
    <2> DEFINE Latest(g) == Max({r.id : r \in {r \in WholeCall(g) : ModelMatches(req.filter, r)}})
    <2>5. ASSUME NEW i \in DOMAIN Listing, NEW j \in DOMAIN Listing, i < j
          PROVE  Latest(Listing[i].call) > Latest(Listing[j].call)
      <3>1. <<Listing[i].call, Listing[j].call>> \in ListingOrder
        BY <1>3, <2>2, <2>5, LinesInOrder
      <3>2. ListingOrder = NewerCalls(req.filter, Grouped)
        BY <1>3 DEF ListingOrder
      <3> DEFINE g == Listing[i].call
                 h == Listing[j].call
      <3> HIDE DEF g, h
      <3>3. Newest(Grouped, g) > Newest(Grouped, h)
        BY <3>1, <3>2 DEF NewerCalls, g, h
      <3>4. \A c : Members(Grouped, c) = {r \in WholeCall(c) : ModelMatches(req.filter, r)}
        BY DEF Members, Grouped, CallRows, WholeCall
      <3>5. \A c : Newest(Grouped, c) = Latest(c)
        BY <3>4 DEF Newest
      <3> QED
        BY <3>3, <3>5 DEF g, h
    <2> QED
      BY <2>3, <2>4, <2>5 DEF LinesAgree, WholeCall, RepliesTo
  <1>4. StateOK /\ PageOK => LinesAgree
    BY <1>3 DEF LinesAgree
  <1> QED
    BY <1>1, <1>2, <1>4, StateInvariant, PTL DEF Spec
=============================================================================
