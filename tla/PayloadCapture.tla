---------------------------- MODULE PayloadCapture ----------------------------
(***************************************************************************)
(* The chat preview manager (payload_capture.go): every request hook       *)
(* registers the prompt it sees under the request id and under the trace   *)
(* id, a response looks its prompt up under its request id and saves the   *)
(* pair from a goroutine of its own.  A ring of the last registrations     *)
(* bounds the map: what leaves it takes its keys along, whoever they       *)
(* belong to by then.                                                      *)
(*                                                                         *)
(* A registration is its number.  The host registers a request twice, from *)
(* its before and its after hook, possibly with other requests in between, *)
(* and all attempts of a call share a trace id.  The texts are left out: a *)
(* hook whose body yields no prompt does nothing, and of a response only   *)
(* matters whether it has a text.                                          *)
(***************************************************************************)
EXTENDS Naturals, FiniteSets, Sequences

CONSTANTS
    Ids,            \* request and trace ids, which share one map
    NoId,           \* the empty id
    MaxHistory,     \* 300
    MaxInbound,     \* bound of the model: registrations
    MaxResponses    \* bound of the model: responses

ASSUME PayloadCaptureAssumption ==
    /\ NoId \notin Ids
    /\ MaxHistory \in Nat \ {0}
    /\ MaxInbound \in Nat
    /\ MaxResponses \in Nat

VARIABLES
    items,      \* items[n]: the ids of registration n
    history,    \* the ring, oldest registration first
    inFlight,   \* inFlight[k]: the registration found under k, 0 for none
    responses,  \* responses handled so far
    saving,     \* the goroutines started by recordResponse and not done yet:
                \* the response, its request id, the registration it found, and,
                \* for the properties, how many there had been by then
    previews    \* the rows of chat_previews, in the order of their ids

vars == <<items, history, inFlight, responses, saving, previews>>

\* The keys of a registration.
KeysOf(n) == {items[n].req, items[n].trace} \ {NoId}

Init ==
    /\ items = <<>>
    /\ history = <<>>
    /\ inFlight = [k \in Ids |-> 0]
    /\ responses = 0
    /\ saving = {}
    /\ previews = <<>>

-----------------------------------------------------------------------------

\* MUTANT of Registered: an id that is there already is left alone.
RegisteredOnce(req, trace, n) ==
    [k \in Ids |-> IF k \in {req, trace} /\ inFlight[k] = 0 THEN n ELSE inFlight[k]]

\* The map with registration n under its ids.
Registered(req, trace, n) ==
    [k \in Ids |-> IF k \in {req, trace} THEN n ELSE inFlight[k]]

\* MUTANT of Forget: the evicted registration keeps its trace id.
ForgetRequest(map, n) == [k \in Ids |-> IF k = items[n].req THEN 0 ELSE map[k]]

\* The map without the keys of registration n, which may be found under them or
\* not.
Forget(map, n) == [k \in Ids |-> IF k \in KeysOf(n) THEN 0 ELSE map[k]]

\* recordInboundRequest with a prompt, and room in the ring.
Register(req, trace) ==
    LET n == Len(items) + 1 IN
    /\ n <= MaxInbound
    /\ Len(history) < MaxHistory
    /\ items' = Append(items, [req |-> req, trace |-> trace])
    /\ inFlight' = Registered(req, trace, n)
    /\ history' = Append(history, n)
    /\ UNCHANGED <<responses, saving, previews>>

\* MUTANT of RegisterAndEvict: the ring keeps what it should have dropped.
RegisterAndKeep(req, trace) ==
    LET n == Len(items) + 1 IN
    /\ n <= MaxInbound
    /\ Len(history) >= MaxHistory
    /\ items' = Append(items, [req |-> req, trace |-> trace])
    /\ inFlight' = Forget(Registered(req, trace, n), Head(history))
    /\ history' = Append(history, n)
    /\ UNCHANGED <<responses, saving, previews>>

\* The same when the ring overflows: the oldest registration leaves it after
\* the new one has come in.
RegisterAndEvict(req, trace) ==
    LET n == Len(items) + 1 IN
    /\ n <= MaxInbound
    /\ Len(history) = MaxHistory
    /\ items' = Append(items, [req |-> req, trace |-> trace])
    /\ inFlight' = Forget(Registered(req, trace, n), Head(history))
    /\ history' = Append(Tail(history), n)
    /\ UNCHANGED <<responses, saving, previews>>

\* recordResponse looks the prompt up and starts a goroutine, unless there is
\* neither a prompt nor a text.
Respond(req, hasText) ==
    LET n == IF req = NoId THEN 0 ELSE inFlight[req] IN
    /\ responses < MaxResponses
    /\ responses' = responses + 1
    /\ saving' = IF n = 0 /\ ~hasText
                    THEN saving
                    ELSE saving \cup {[nr |-> responses', req |-> req,
                                       item |-> n, at |-> Len(items)]}
    /\ UNCHANGED <<items, history, inFlight, previews>>

\* The goroutine inserts its row.
Save(s) ==
    /\ s \in saving
    /\ saving' = saving \ {s}
    /\ previews' = Append(previews, s)
    /\ UNCHANGED <<items, history, inFlight, responses>>

\* There is no store, it was closed, or the insert fails.
SaveFails(s) ==
    /\ s \in saving
    /\ saving' = saving \ {s}
    /\ UNCHANGED <<items, history, inFlight, responses, previews>>

IdsOrNone == Ids \cup {NoId}

Next ==
    \/ \E req, trace \in IdsOrNone :
          Register(req, trace) \/ RegisterAndEvict(req, trace)
    \/ \E req \in IdsOrNone, hasText \in BOOLEAN : Respond(req, hasText)
    \/ \E s \in saving : Save(s) \/ SaveFails(s)

Spec == Init /\ [][Next]_vars

-----------------------------------------------------------------------------
(***************************************************************************)
(* Properties                                                              *)
(***************************************************************************)

Items == 1 .. Len(items)

Saves == [nr : 1 .. responses, req : IdsOrNone, item : 0 .. Len(items),
          at : 0 .. Len(items)]

\* The values of the variables, with the bound on the ring.
TypeOK ==
    /\ items \in Seq([req : IdsOrNone, trace : IdsOrNone])
    /\ history \in Seq(Items)
    /\ Len(history) <= MaxHistory
    /\ inFlight \in [Ids -> 0 .. Len(items)]
    /\ responses \in Nat
    /\ saving \subseteq Saves
    /\ previews \in Seq(Saves)

\* Registration n was among the last MaxHistory ones after len of them.
Recent(n, len) == n + MaxHistory > len

\* Registration n is what k leads to: it is the latest one with that id, it is
\* in the ring, and every earlier one with that id is still there too or had
\* left it before n came in.
LeadsTo(k, n) ==
    /\ k \in KeysOf(n)
    /\ Recent(n, Len(items))
    /\ \A m \in Items : k \in KeysOf(m) =>
          /\ m <= n
          /\ m < n => Recent(m, Len(items)) \/ ~Recent(m, n - 1)

\* The map finds a registration exactly when the ids and the ring say so: it
\* never keeps an entry the ring has dropped, which bounds its size, it never
\* finds an outdated prompt, and the only entries it misses are those that an
\* earlier registration with the same id took along when it left.
FoundExactly == \A k \in Ids, n \in Items : inFlight[k] = n <=> LeadsTo(k, n)

\* A preview joins a response to the latest prompt that had been registered
\* under its request id when the response came, and to none that had left the
\* ring by then, however late the row is inserted.
PreviewJoins ==
    \A s \in saving \cup {previews[i] : i \in DOMAIN previews} :
        s.item # 0 =>
            /\ s.item <= s.at /\ Recent(s.item, s.at)
            /\ s.req \in KeysOf(s.item)
            /\ \A m \in s.item + 1 .. s.at : s.req \notin KeysOf(m)
=============================================================================
