----------------------------- MODULE GroupedPage -----------------------------
(***************************************************************************)
(* The listing of the request log (reqlog.go, reqlog_api.go): one line per *)
(* captured row, or one line per call, whose attempts share a trace.  A    *)
(* page takes two to four queries without a transaction, while flushes     *)
(* upsert rows and the retention removes them.                             *)
(*                                                                         *)
(* A row is a capture with the id and the time it was stored at.  What a   *)
(* text of a filter matches is the set of the names that contain it.       *)
(***************************************************************************)
EXTENDS Integers, SequencesExt, Tables

CONSTANTS
    Captures,      \* what may be captured: [rid, kind, trace, model, requested]
    NoTrace,       \* the empty trace_id
    NoModel,       \* the empty model and the empty requested_model
    Unset,         \* a filter that is not set
    Filters,       \* [kind, model, combo, name], each Unset or what it lets
                   \* through; combo and name are the two forms of one text
    Limit,         \* the page size a client asks for, at most 500
    MaxCaptures,   \* bound of the model: captures stored
    MaxWrites      \* bound of the model: writes while a client pages

ASSUME GroupedPageAssumption ==
    /\ Limit \in Nat \ {0} /\ MaxCaptures \in Nat /\ MaxWrites \in Nat
    /\ \A f \in Filters : DOMAIN f = {"kind", "model", "combo", "name"}
    /\ Unset \notin {"combo", "direct"}

VARIABLES
    table,         \* request_logs, in the order of the ids
    lastId,        \* sqlite_sequence: the greatest id ever given
    clock,         \* the timestamp of the next capture
    req,           \* the listing asked for: [filter, grouped, offset, ...]
    view,          \* what its queries returned so far
    walk,          \* a client paging: the lines due, those seen, the calls moved
                   \* to the front meanwhile, and whether the list was torn
    writes         \* the writes since the client's first page

vars == <<table, lastId, clock, req, view, walk, writes>>

Idle == [grouped |-> FALSE]
NoWalk == [due |-> {}, seen |-> {}, moved |-> {}, torn |-> FALSE]

Init ==
    /\ table = <<>> /\ lastId = 0 /\ clock = 1
    /\ req = Idle /\ view = <<>> /\ walk = NoWalk /\ writes = 0

-----------------------------------------------------------------------------
(***************************************************************************)
(* Filters and groups                                                      *)
(***************************************************************************)

\* isResolvedRequestedModel: a row of a target the router tried.
Resolved(r) == r.requested # NoModel /\ r.requested # r.model

ModelMatches(f, r) == f.model = Unset \/ r.model \in f.model

\* wherePrefixed, which looks at each row by itself.
RowMatches(f, r) ==
    /\ f.kind \in {Unset, r.kind}
    /\ ModelMatches(f, r)
    /\ f.combo # Unset => (f.combo = "combo") = Resolved(r)
    /\ f.name # Unset => r.requested \in f.name

\* The grouping key: the trace, or the row itself when it has none.
GroupKey(r) == IF r.trace = NoTrace THEN <<"row", r.id>> ELSE <<"trace", r.trace>>

\* groupedWhere: the rows that are grouped, and those of one group.
CallRows(f, s) == {r \in Range(s) : r.kind = "request" /\ ModelMatches(f, r)}
Members(rows, g) == {r \in rows : GroupKey(r) = g}

\* groupHaving: a call is classified by the number of its rows.
CallMatches(f, members) ==
    /\ f.combo # Unset => (f.combo = "combo") = (Cardinality(members) > 1)
    /\ f.name # Unset => \E r \in members : r.model \in f.name

\* GROUP BY and HAVING.
CallKeys(f, rows) ==
    {g \in {GroupKey(r) : r \in rows} : CallMatches(f, Members(rows, g))}

\* ORDER BY newest DESC.
Newest(rows, g) == Max({r.id : r \in Members(rows, g)})
NewerCalls(f, rows) ==
    {p \in CallKeys(f, rows) \X CallKeys(f, rows) : Newest(rows, p[1]) > Newest(rows, p[2])}
Groups(f, s) ==
    LET rows == CallRows(f, s)
    IN Arranged(CallKeys(f, rows), NewerCalls(f, rows))

-----------------------------------------------------------------------------
(***************************************************************************)
(* The store                                                               *)
(***************************************************************************)

\* A write that happens while a client pages is counted, and noted when it
\* happens while a page is being put together.
Written ==
    /\ req # Idle => writes < MaxWrites
    /\ writes' = IF req = Idle THEN 0 ELSE writes + 1
    /\ req' = IF view = <<>> THEN req ELSE [req EXCEPT !.quiet = FALSE]
    /\ UNCHANGED view

\* MUTANT of Half: no unique index finds the row of a request half.
HalfUnknown(c) == {}

\* The row of a request half, found by the unique index.
Half(c) == {i \in DOMAIN table : table[i].rid = c.rid /\ table[i].kind = c.kind}

Filtered == \E f \in DOMAIN req.filter : req.filter[f] # Unset

\* A row that arrives moves its call to the front, MAX(id) being what calls are
\* sorted by, and a row that changes does not.
Moved(c) == IF Half(c) = {} THEN {<<"trace", c.trace>>} ELSE {}

\* Under a filter a row that arrives may drop its call from the list, and one
\* that changes may drop out of it; a row that changes may leave its call.
Disturbs(c) ==
    IF Half(c) = {} THEN req.grouped /\ c.kind = "request" /\ Filtered
    ELSE Filtered \/ \E i \in Half(c) : table[i].trace # c.trace

\* The total is counted, and what is listed is not selected yet.
Counted == "count" \in DOMAIN view /\ DOMAIN view \cap {"groups", "rows"} = {}

Row(c, id, at) ==
    [rid |-> c.rid, kind |-> c.kind, trace |-> c.trace, model |-> c.model,
     requested |-> c.requested, id |-> id, at |-> at]

\* A flush stores a capture; a row that is there keeps its id.
Store(c) ==
    /\ Written
    /\ clock <= MaxCaptures
    /\ clock' = clock + 1
    /\ walk' = IF req = Idle THEN NoWalk
               ELSE [walk EXCEPT !.moved = @ \cup Moved(c),
                                 !.torn = @ \/ Disturbs(c) \/ Counted]
    /\ \/ /\ Half(c) = {}
          /\ lastId' = lastId + 1
          /\ table' = Append(table, Row(c, lastId', clock))
       \/ \E i \in Half(c) :
             /\ table' = [table EXCEPT ![i] = Row(c, @.id, clock)]
             /\ UNCHANGED lastId

\* maybePrune: the rows from before the cutoff go.
Prune(cutoff) ==
    /\ Written
    /\ \E r \in Range(table) : r.at < cutoff
    /\ table' = Where(table, LAMBDA r : r.at >= cutoff)
    /\ walk' = IF req = Idle THEN NoWalk ELSE [walk EXCEPT !.torn = TRUE]
    /\ UNCHANGED <<lastId, clock>>

-----------------------------------------------------------------------------
(***************************************************************************)
(* The queries of a listing                                                *)
(***************************************************************************)

\* reqLogListGet and page; blind is set when the responses cannot be read.
Begin(f, grouped) ==
    /\ req = Idle
    /\ req' = [filter |-> f, grouped |-> grouped, offset |-> 0, quiet |-> TRUE,
               blind |-> FALSE]
    /\ writes' = 0
    /\ UNCHANGED <<table, lastId, clock, view, walk>>

Plan == IF req.grouped THEN <<"count", "groups", "attempts", "responses">>
                       ELSE <<"count", "rows">>
Answered ==
    /\ req # Idle
    /\ \/ DOMAIN view = Range(Plan)
       \/ "groups" \in DOMAIN view /\ view.groups = <<>>

\* What is counted and listed.
Matching ==
    IF req.grouped THEN Groups(req.filter, table)
    ELSE Reverse(Where(table, LAMBDA r : RowMatches(req.filter, r)))

\* MUTANT of Start: the last page falls back, too.
StartEarly == IF req.offset + Limit >= view.count THEN 0 ELSE req.offset

\* An offset past the end falls back to the first page.
Start == IF req.offset >= view.count THEN 0 ELSE req.offset

\* What a query returns.
Result(q) ==
    CASE q = "count" -> Len(Matching)
      [] q \in {"groups", "rows"} -> Slice(Matching, Start, Limit)
      [] q = "attempts" ->
            Where(table, LAMBDA r : r.kind = "request" /\ GroupKey(r) \in Range(view.groups))
      [] q = "responses" ->
            Where(table, LAMBDA r : /\ r.kind = "response"
                                    /\ \E a \in Range(view.attempts) : a.rid = r.rid)

Answer(q, result) == [x \in DOMAIN view \cup {q} |-> IF x = q THEN result ELSE view[x]]

\* The lines of a listing that have a name the client knows them by.
Keys(s) == IF req.grouped THEN Range(s) \ {<<"row", r.id>> : r \in Range(table)}
                          ELSE {<<"row", r.id>> : r \in Range(s)}

\* The next query.  The one that selects a page says what the client sees, and
\* on the first page what it must see.
Query ==
    /\ req # Idle /\ ~Answered
    /\ LET q == Plan[Cardinality(DOMAIN view) + 1]
       IN /\ view' = Answer(q, Result(q))
          /\ walk' = IF q \in {"groups", "rows"}
                     THEN [walk EXCEPT !.due = IF req.offset = 0 THEN Keys(Matching) ELSE @,
                                       !.moved = IF req.offset = 0 THEN {} ELSE @,
                                       !.seen = @ \cup Keys(Result(q))]
                     ELSE walk
    /\ UNCHANGED <<table, lastId, clock, req, writes>>

\* A page without responses when they cannot be read.
ReadNoResponses ==
    /\ req # Idle /\ ~Answered
    /\ "attempts" \in DOMAIN view
    /\ view' = Answer("responses", <<>>)
    /\ req' = [req EXCEPT !.blind = TRUE]
    /\ UNCHANGED <<table, lastId, clock, walk, writes>>

\* The client asks for the next page while the total says there is one.
LastPage == req.offset + Limit >= view.count
NextPage ==
    /\ Answered /\ ~LastPage
    /\ req' = [req EXCEPT !.offset = @ + Limit, !.quiet = TRUE, !.blind = FALSE]
    /\ view' = <<>>
    /\ UNCHANGED <<table, lastId, clock, walk, writes>>

\* The client has what it wants, or a query failed.
Finish ==
    /\ req # Idle
    /\ req' = Idle /\ view' = <<>> /\ walk' = NoWalk /\ writes' = 0
    /\ UNCHANGED <<table, lastId, clock>>

Next ==
    \/ \E c \in Captures : Store(c)
    \/ \E cutoff \in 1 .. clock : Prune(cutoff)
    \/ \E f \in Filters, grouped \in BOOLEAN : Begin(f, grouped)
    \/ Query
    \/ ReadNoResponses
    \/ NextPage
    \/ Finish

Spec == Init /\ [][Next]_vars

-----------------------------------------------------------------------------
(***************************************************************************)
(* The lines of a page                                                     *)
(***************************************************************************)

\* The attempts of a call are collected under their trace_id as it is stored.
Attempts(g) == Where(view.attempts, LAMBDA r : <<"trace", r.trace>> = g)
ResponsesOf(a) == {r.id : r \in {r \in Range(view.responses) : r.rid = a.rid}}

\* The attempts that got a response.
Answering(attempts) == {i \in DOMAIN attempts : ResponsesOf(attempts[i]) # {}}

\* MUTANT of Primary: a call without a response shows its first attempt.
PrimaryFirst(attempts) == attempts[Max(Answering(attempts) \cup {1})]

\* The last attempt that got one, else the last one.
Primary(attempts) ==
    attempts[IF Answering(attempts) = {} THEN Len(attempts) ELSE Max(Answering(attempts))]

\* The name the client asked for, on the call's own row.
Combo(attempts) ==
    LET own == {i \in DOMAIN attempts : /\ attempts[i].requested = attempts[i].model
                                        /\ attempts[i].model # NoModel}
    IN IF own = {} THEN NoModel ELSE attempts[Min(own)].model

CallLine(g) ==
    LET attempts == Attempts(g)
        primary == Primary(attempts)
    IN [call |-> g, id |-> primary.id, rid |-> primary.rid, combo |-> Combo(attempts),
        started |-> Head(attempts).at,
        attempts |-> Max({1, Cardinality({i \in DOMAIN attempts : Resolved(attempts[i])})}),
        responses |-> ResponsesOf(primary)]

\* pageGrouped drops a call without attempts.
Listing ==
    IF ~req.grouped THEN view.rows
    ELSE LET listed == Where(view.groups, LAMBDA g : Attempts(g) # <<>>)
         IN [i \in DOMAIN listed |-> CallLine(listed[i])]

-----------------------------------------------------------------------------
(***************************************************************************)
(* Properties                                                              *)
(***************************************************************************)

\* Ids ascend and are never given twice, and a request half has one row.
TypeOK ==
    /\ \A i, j \in DOMAIN table :
          i < j => /\ table[i].id < table[j].id
                   /\ <<table[i].rid, table[i].kind>> # <<table[j].rid, table[j].kind>>
    /\ \A r \in Range(table) : r.id \in 1 .. lastId /\ r.at < clock
    /\ req # Idle => DOMAIN view \subseteq Range(Plan)
    /\ walk.torn \in BOOLEAN
    /\ writes \in 0 .. MaxWrites

\* What the lines of an undisturbed page say is what the log holds: a call
\* shows the last attempt that was answered, the response to it, when it began
\* and how many targets were tried, whatever rows the filter kept; calls stand
\* in the order of the newest rows the filter kept of them, and each is either
\* routed or direct (pageGrouped, groupHaving).
LinesAgree ==
    Answered /\ req.grouped /\ req.quiet /\ view.groups # <<>> =>
        LET Whole(g) == {r \in Range(table) : r.kind = "request" /\ GroupKey(r) = g}
            Replies(r) == {s.id : s \in {s \in Range(table) :
                                            s.kind = "response" /\ s.rid = r.rid}}
            Latest(g) == Max({r.id : r \in {r \in Whole(g) : ModelMatches(req.filter, r)}})
            With(combo) == Len(Groups([req.filter EXCEPT !.combo = combo], table))
        IN /\ \A i \in DOMAIN Listing :
                 LET line == Listing[i]
                     answered == {r \in Whole(line.call) : Replies(r) # {} /\ ~req.blind}
                     shown == IF answered = {} THEN Whole(line.call) ELSE answered
                 IN /\ line.id = Max({r.id : r \in shown})
                    /\ \E r \in shown :
                          /\ r.id = line.id /\ r.rid = line.rid
                          /\ line.responses = IF req.blind THEN {} ELSE Replies(r)
                    /\ \E r \in Whole(line.call) :
                          /\ \A s \in Whole(line.call) : r.id <= s.id
                          /\ line.started = r.at
                    /\ line.attempts =
                          Max({1, Cardinality({r \in Whole(line.call) : Resolved(r)})})
                    /\ req.filter.combo # Unset /\ req.filter.model = Unset =>
                          (req.filter.combo = "combo") = (Cardinality(Whole(line.call)) > 1)
           /\ \A i, j \in DOMAIN Listing :
                 i < j => Latest(Listing[i].call) > Latest(Listing[j].call)
           /\ With("combo") + With("direct") = With(Unset)

\* A client that pages until the total says it is done has seen every line that
\* matched when it began, except calls of which a new row was stored meanwhile:
\* those moved to the front, behind the client's back, and it may never see
\* them.  Nothing is said when the walk was torn: by the retention, by a row
\* that changed its trace, by a capture between the two queries that count and
\* select a page, or, under a filter, by a row that may have changed what
\* matches (pageFlat, pageGrouped: LIMIT and OFFSET, newest first).
WalkCovers ==
    Answered /\ LastPage /\ ~walk.torn => walk.due \subseteq walk.seen \cup walk.moved

-----------------------------------------------------------------------------
(***************************************************************************)
(* A claim of the comments that the code does not keep                     *)
(***************************************************************************)

\* reqlog.go:621: the page and the total agree, so an undisturbed page holds as
\* many lines as the total leaves for it.
PageAndTotalAgree ==
    Answered /\ req.quiet =>
        (req.grouped /\ view.groups = <<>>) \/
        Len(Listing) = Min({Limit, view.count - Start})
=============================================================================
