------------------------- MODULE PayloadCaptureProofs -------------------------
(***************************************************************************)
(* Theorems about PayloadCapture: its types, what the map finds, and what  *)
(* a preview joins.                                                        *)
(***************************************************************************)
EXTENDS PayloadCapture, TLAPS

\* The ring holds the latest registrations, in their order.
Ring ==
    /\ \A i \in DOMAIN history : history[i] = Len(items) - Len(history) + i
    /\ Len(history) < MaxHistory => Len(history) = Len(items)

TypeInv == TypeOK /\ Ring

\* What a new registration does to the ones of before and to their number.
LEMMA ItemsGrow ==
  ASSUME TypeOK, NEW req \in IdsOrNone, NEW trace \in IdsOrNone,
         items' = Append(items, [req |-> req, trace |-> trace])
  PROVE  /\ items' \in Seq([req : IdsOrNone, trace : IdsOrNone])
         /\ Len(items) \in Nat
         /\ Len(items') = Len(items) + 1
         /\ Items' = Items \cup {Len(items) + 1}
         /\ Items \subseteq Items'
         /\ Saves \subseteq Saves'  \/ responses' # responses
         /\ \A n \in Items : KeysOf(n)' = KeysOf(n)
         /\ KeysOf(Len(items))' = {req, trace} \ {NoId}
  <1>1. items \in Seq([req : IdsOrNone, trace : IdsOrNone])
    BY DEF TypeOK
  <1>2. Len(items) \in Nat
    BY <1>1
  <1>3. items' \in Seq([req : IdsOrNone, trace : IdsOrNone])
    BY <1>1
  <1>4. Len(items') = Len(items) + 1
    BY <1>1
  <1>5. Items' = Items \cup {Len(items) + 1} /\ Items \subseteq Items'
    BY <1>2, <1>4 DEF Items
  <1>6. Saves \subseteq Saves' \/ responses' # responses
    <2> SUFFICES ASSUME responses' = responses PROVE Saves \subseteq Saves'
      OBVIOUS
    <2>1. 0 .. Len(items) \subseteq 0 .. Len(items')
      BY <1>2, <1>4
    <2> QED
      BY <2>1 DEF Saves
  <1>7. \A n \in Items : items'[n] = items[n]
    BY <1>1 DEF Items
  <1>8. items'[Len(items')] = [req |-> req, trace |-> trace]
    BY <1>1, <1>4
  <1>9. \A n \in Items : KeysOf(n)' = KeysOf(n)
    BY <1>7 DEF KeysOf
  <1>10. KeysOf(Len(items))' = {req, trace} \ {NoId}
    BY <1>8 DEF KeysOf
  <1> QED
    BY <1>2, <1>3, <1>4, <1>5, <1>6, <1>9, <1>10

-----------------------------------------------------------------------------
(***************************************************************************)
(* Types and the ring                                                      *)
(***************************************************************************)

\* A registration that finds room or makes it.
LEMMA TypeRegister ==
  ASSUME TypeInv, NEW req \in IdsOrNone, NEW trace \in IdsOrNone,
         Register(req, trace) \/ RegisterAndEvict(req, trace)
  PROVE  TypeInv'
  <1>1. /\ items' = Append(items, [req |-> req, trace |-> trace])
        /\ UNCHANGED <<responses, saving, previews>>
    BY DEF Register, RegisterAndEvict
  <1>2. TypeOK
    BY DEF TypeInv
  <1>3. /\ items' \in Seq([req : IdsOrNone, trace : IdsOrNone])
        /\ Len(items) \in Nat
        /\ Len(items') = Len(items) + 1
        /\ Items' = Items \cup {Len(items) + 1}
        /\ Saves \subseteq Saves'
    BY <1>1, <1>2, ItemsGrow
  <1>4. saving' \subseteq Saves' /\ previews' \in Seq(Saves')
    <2>1. saving \subseteq Saves /\ previews \in Seq(Saves)
      BY <1>2 DEF TypeOK
    <2> QED
      BY <1>1, <1>3, <2>1
  <1>5. inFlight' \in [Ids -> 0 .. Len(items')]
    <2>1. Len(items) + 1 \in 0 .. Len(items')
      BY <1>3
    <2>2. \A k \in Ids : inFlight[k] \in 0 .. Len(items')
      BY <1>2, <1>3 DEF TypeOK
    <2> QED
      BY <2>1, <2>2 DEF Register, RegisterAndEvict, Registered, Forget
  <1>6. /\ history \in Seq(Items) /\ Len(history) \in Nat /\ Len(history) <= MaxHistory
        /\ \A i \in DOMAIN history : history[i] = Len(items) - Len(history) + i
        /\ Len(history) < MaxHistory => Len(history) = Len(items)
        /\ MaxHistory \in Nat \ {0}
    BY <1>2, PayloadCaptureAssumption DEF TypeOK, TypeInv, Ring
  <1>7. history \in Seq(Items') /\ Len(items) + 1 \in Items'
    BY <1>3, <1>6
  <1>8. /\ history' \in Seq(Items') /\ Len(history') <= MaxHistory
        /\ \A i \in DOMAIN history' : history'[i] = Len(items') - Len(history') + i
        /\ Len(history') < MaxHistory => Len(history') = Len(items')
    <2>1. CASE Register(req, trace)
      <3>1. history' = Append(history, Len(items) + 1) /\ Len(history) < MaxHistory
        BY <2>1 DEF Register
      <3> QED
        BY <1>3, <1>6, <1>7, <3>1
    <2>2. CASE RegisterAndEvict(req, trace)
      <3>1. history' = Append(Tail(history), Len(items) + 1) /\ Len(history) = MaxHistory
        BY <2>2 DEF RegisterAndEvict
      <3>2. /\ Tail(history) \in Seq(Items') /\ Len(Tail(history)) = MaxHistory - 1
            /\ \A i \in DOMAIN Tail(history) : Tail(history)[i] = history[i + 1]
        BY <1>6, <1>7, <3>1
      <3>3. history' \in Seq(Items') /\ Len(history') = MaxHistory
        BY <1>6, <1>7, <3>1, <3>2
      <3>4. ASSUME NEW i \in DOMAIN history'
            PROVE  history'[i] = Len(items') - Len(history') + i
        <4>1. CASE i = MaxHistory
          <5>1. history'[i] = Len(items) + 1
            BY <1>6, <1>7, <3>1, <3>2, <4>1
          <5> QED
            BY <1>3, <1>6, <3>3, <4>1, <5>1
        <4>2. CASE i # MaxHistory
          <5>1. i \in DOMAIN Tail(history) /\ history'[i] = Tail(history)[i]
            BY <1>6, <1>7, <3>1, <3>2, <3>3, <4>2
          <5>2. i + 1 \in DOMAIN history /\ history'[i] = history[i + 1]
            BY <1>6, <3>1, <3>2, <5>1
          <5> QED
            BY <1>3, <1>6, <3>1, <3>3, <5>2
        <4> QED
          BY <4>1, <4>2
      <3> QED
        BY <1>6, <3>3, <3>4
    <2> QED
      BY <2>1, <2>2
  <1>9. responses' \in Nat
    BY <1>1, <1>2 DEF TypeOK
  <1> QED
    BY <1>3, <1>4, <1>5, <1>8, <1>9 DEF TypeInv, TypeOK, Ring

LEMMA TypeRespond ==
  ASSUME TypeInv, NEW req \in IdsOrNone, NEW hasText \in BOOLEAN,
         Respond(req, hasText)
  PROVE  TypeInv'
  <1>1. /\ responses \in Nat /\ responses' = responses + 1
        /\ UNCHANGED <<items, history, inFlight, previews>>
    BY DEF Respond, TypeInv, TypeOK
  <1>2. DEFINE n == IF req = NoId THEN 0 ELSE inFlight[req]
               s == [nr |-> responses', req |-> req, item |-> n, at |-> Len(items)]
  <1>3. n \in 0 .. Len(items) /\ Len(items) \in 0 .. Len(items)
    BY DEF TypeInv, TypeOK, IdsOrNone
  <1>4. Saves \subseteq Saves' /\ s \in Saves'
    <2>1. 1 .. responses \subseteq 1 .. responses' /\ responses' \in 1 .. responses'
      BY <1>1
    <2> QED
      BY <1>1, <1>3, <2>1 DEF Saves
  <1>5. saving' \subseteq saving \cup {s}
    BY DEF Respond
  <1>6. saving' \subseteq Saves' /\ previews' \in Seq(Saves')
    BY <1>1, <1>4, <1>5 DEF TypeInv, TypeOK
  <1>7. Items' = Items /\ responses' \in Nat
    BY <1>1 DEF Items
  <1> QED
    BY <1>1, <1>6, <1>7 DEF TypeInv, TypeOK, Ring

LEMMA TypeStep == TypeInv /\ [Next]_vars => TypeInv'
  <1> SUFFICES ASSUME TypeInv, [Next]_vars PROVE TypeInv'
    OBVIOUS
  <1>1. CASE \E req, trace \in IdsOrNone :
                Register(req, trace) \/ RegisterAndEvict(req, trace)
    BY <1>1, TypeRegister
  <1>2. CASE \E req \in IdsOrNone, hasText \in BOOLEAN : Respond(req, hasText)
    BY <1>2, TypeRespond
  <1>3. CASE \E s \in saving : Save(s) \/ SaveFails(s)
    <2>1. /\ UNCHANGED <<items, history, inFlight, responses>>
          /\ saving' \subseteq saving
          /\ previews' = previews \/ \E s \in saving : previews' = Append(previews, s)
      BY <1>3 DEF Save, SaveFails
    <2>2. Items' = Items /\ Saves' = Saves
      BY <2>1 DEF Items, Saves
    <2>3. saving \subseteq Saves /\ previews \in Seq(Saves)
      BY DEF TypeInv, TypeOK
    <2>4. saving' \subseteq Saves /\ previews' \in Seq(Saves)
      BY <2>1, <2>3
    <2> QED
      BY <2>1, <2>2, <2>4 DEF TypeInv, TypeOK, Ring
  <1>4. CASE UNCHANGED vars
    BY <1>4 DEF vars, TypeInv, TypeOK, Ring, Items, Saves
  <1> QED
    BY <1>1, <1>2, <1>3, <1>4 DEF Next

LEMMA TypeInit == Init => TypeInv
  BY PayloadCaptureAssumption DEF Init, TypeInv, TypeOK, Ring, Items, Saves

LEMMA TypeAlways == Spec => []TypeInv
  BY TypeInit, TypeStep, PTL DEF Spec

\* Every variable of payload_capture.go keeps its type, and the ring never holds
\* more than MaxHistory registrations.
THEOREM TypeCorrect == Spec => []TypeOK
  <1>1. TypeInv => TypeOK
    BY DEF TypeInv
  <1> QED
    BY <1>1, TypeAlways, PTL

-----------------------------------------------------------------------------
(***************************************************************************)
(* What the map finds                                                      *)
(***************************************************************************)

\* While the ring has room nothing has ever left it.
LEMMA FoundRegister ==
  ASSUME TypeInv, FoundExactly, NEW req \in IdsOrNone, NEW trace \in IdsOrNone,
         Register(req, trace)
  PROVE  FoundExactly'
  <1> DEFINE new == Len(items) + 1
  <1>1. /\ Len(items) \in Nat /\ Len(items') = new /\ Items' = Items \cup {new}
        /\ \A n \in Items : KeysOf(n)' = KeysOf(n)
        /\ KeysOf(Len(items))' = {req, trace} \ {NoId}
    BY ItemsGrow DEF Register, TypeInv
  <1>2. MaxHistory \in Nat \ {0} /\ new <= MaxHistory
    BY <1>1, PayloadCaptureAssumption DEF Register, TypeInv, TypeOK, Ring
  <1>3. \A m \in Items' : Recent(m, new)
    BY <1>1, <1>2 DEF Recent, Items
  <1> SUFFICES ASSUME NEW k \in Ids, NEW n \in Items'
               PROVE  (inFlight[k] = n <=> LeadsTo(k, n))'
    BY DEF FoundExactly
  <1>4. LeadsTo(k, n)' <=> /\ k \in KeysOf(n)'
                           /\ \A m \in Items' : k \in KeysOf(m)' => m <= n
    BY <1>1, <1>3 DEF LeadsTo
  <1>5. inFlight'[k] = IF k \in {req, trace} THEN new ELSE inFlight[k]
    BY DEF Register, Registered
  <1>6. k # NoId
    BY PayloadCaptureAssumption
  <1>7. ASSUME k \in {req, trace} PROVE inFlight'[k] = n <=> LeadsTo(k, n)'
    <2>1. k \in KeysOf(Len(items))'
      BY <1>1, <1>6, <1>7
    <2>2. n = new => k \in KeysOf(n)'
      BY <1>1, <2>1
    <2>3. new \in Items' /\ new \in Nat
      BY <1>1
    <2>4. \A m \in Items' : m = new => k \in KeysOf(m)'
      BY <1>1, <2>1
    <2>5. \A m \in Items' : m \in Nat /\ m <= new
      BY <1>1 DEF Items
    <2>6. LeadsTo(k, n)' => n = new
      BY <1>4, <2>3, <2>4, <2>5
    <2>7. n = new => LeadsTo(k, n)'
      BY <1>4, <2>2, <2>5
    <2> QED
      BY <1>5, <1>7, <2>6, <2>7
  <1>8. ASSUME k \notin {req, trace} PROVE inFlight'[k] = n <=> LeadsTo(k, n)'
    <2>1. \A m \in Items' : k \in KeysOf(m)' <=> m \in Items /\ k \in KeysOf(m)
      <3>1. \A m \in Items' : m = new => k \notin KeysOf(m)'
        BY <1>1, <1>8
      <3> QED
        BY <1>1, <3>1 DEF Items
    <2>2. inFlight'[k] = inFlight[k] /\ inFlight[k] \in 0 .. Len(items)
      BY <1>5, <1>8 DEF TypeInv, TypeOK
    <2>3. CASE n = new
      BY <1>1, <1>4, <2>1, <2>2, <2>3 DEF Items
    <2>4. CASE n \in Items
      <3>1. \A m \in Items : Recent(m, Len(items))
        BY <1>1, <1>2 DEF Recent, Items
      <3>2. LeadsTo(k, n) <=> /\ k \in KeysOf(n)
                              /\ \A m \in Items : k \in KeysOf(m) => m <= n
        BY <2>4, <3>1 DEF LeadsTo
      <3>3. LeadsTo(k, n)' <=> LeadsTo(k, n)
        BY <1>1, <1>4, <2>1, <2>4, <3>2
      <3> QED
        BY <2>2, <2>4, <3>3 DEF FoundExactly
    <2> QED
      BY <1>1, <2>3, <2>4
  <1> QED
    BY <1>7, <1>8

\* In a full ring the oldest registration takes its ids along, the ones it
\* shares with the new registration included.
LEMMA FoundEvict ==
  ASSUME TypeInv, FoundExactly, NEW req \in IdsOrNone, NEW trace \in IdsOrNone,
         RegisterAndEvict(req, trace)
  PROVE  FoundExactly'
  <1> DEFINE new == Len(items) + 1
             old == new - MaxHistory
  <1>1. /\ Len(items) \in Nat /\ Len(items') = new /\ Items' = Items \cup {new}
        /\ \A n \in Items : KeysOf(n)' = KeysOf(n)
        /\ KeysOf(Len(items))' = {req, trace} \ {NoId}
    BY ItemsGrow DEF RegisterAndEvict, TypeInv
  <1>2. /\ MaxHistory \in Nat \ {0} /\ Len(history) = MaxHistory
        /\ history \in Seq(Items) /\ Head(history) = old
    <2>1. MaxHistory \in Nat \ {0} /\ Len(history) = MaxHistory /\ history \in Seq(Items)
      BY PayloadCaptureAssumption DEF RegisterAndEvict, TypeInv, TypeOK
    <2>2. 1 \in DOMAIN history /\ Head(history) = history[1]
      BY <2>1
    <2>3. history[1] = Len(items) - Len(history) + 1
      BY <2>2 DEF TypeInv, Ring
    <2> QED
      BY <1>1, <2>1, <2>2, <2>3
  <1>3. old \in Items
    BY <1>2
  <1>4. \A m \in Items' : /\ m \in Nat /\ m <= new
                          /\ Recent(m, new) <=> m > old
                          /\ m # new => (Recent(m, Len(items)) <=> m >= old)
    BY <1>1, <1>2 DEF Recent, Items
  <1>5. \A m, n \in Items' : Recent(m, n - 1) <=> m + MaxHistory > n - 1
    BY DEF Recent
  <1> SUFFICES ASSUME NEW k \in Ids, NEW n \in Items'
               PROVE  (inFlight[k] = n <=> LeadsTo(k, n))'
    BY DEF FoundExactly
  <1>6. LeadsTo(k, n)' <=>
          /\ k \in KeysOf(n)'
          /\ n > old
          /\ \A m \in Items' : k \in KeysOf(m)' =>
                m <= n /\ (m < n => m > old \/ m + MaxHistory <= n - 1)
    BY <1>1, <1>2, <1>4, <1>5 DEF LeadsTo, Recent, Items
  <1>7. inFlight'[k] = IF k \in KeysOf(old) THEN 0
                       ELSE IF k \in {req, trace} THEN new ELSE inFlight[k]
    BY <1>2 DEF RegisterAndEvict, Registered, Forget
  <1>8. \A m \in Items' : k \in KeysOf(m)' <=>
          (m \in Items /\ k \in KeysOf(m)) \/ (m = new /\ k \in {req, trace})
    <2>1. k # NoId
      BY PayloadCaptureAssumption
    <2>2. \A m \in Items' : m = new => (k \in KeysOf(m)' <=> k \in {req, trace})
      BY <1>1, <2>1
    <2>3. new \notin Items
      BY <1>1 DEF Items
    <2> QED
      BY <1>1, <2>2, <2>3
  <1>9. CASE k \in KeysOf(old)
    <2>1. inFlight'[k] = 0 /\ n # 0
      BY <1>1, <1>7, <1>9 DEF Items
    <2>2. old \in Items' /\ k \in KeysOf(old) /\ old + MaxHistory = new
      BY <1>1, <1>2, <1>3, <1>9
    <2>3. \A m \in Items' : m = old => k \in KeysOf(m)'
      BY <1>3, <1>8, <1>9
    <2>4. ASSUME LeadsTo(k, n)' PROVE FALSE
      <3>1. n > old /\ (old < n => old > old \/ old + MaxHistory <= n - 1)
        BY <1>6, <2>2, <2>3, <2>4
      <3> QED
        BY <1>1, <1>2, <1>4, <2>2, <3>1
    <2> QED
      BY <2>1, <2>4
  <1>10. CASE k \notin KeysOf(old) /\ k \in {req, trace}
    <2>1. inFlight'[k] = new /\ new \in Items' /\ new \in Nat
      BY <1>1, <1>7, <1>10
    <2>2. LeadsTo(k, n)' => n = new
      BY <1>4, <1>6, <1>8, <1>10, <2>1
    <2>3. ASSUME n = new PROVE LeadsTo(k, n)'
      <3>1. n > old /\ k \in KeysOf(n)'
        BY <1>1, <1>2, <1>8, <1>10, <2>3
      <3>2. ASSUME NEW m \in Items', k \in KeysOf(m)'
            PROVE  m <= n /\ (m < n => m > old \/ m + MaxHistory <= n - 1)
        <4>1. m # old
          BY <1>3, <1>8, <1>10, <3>2, <1>1, <1>2
        <4> QED
          BY <1>1, <1>2, <1>4, <2>3, <4>1
      <3> QED
        BY <1>6, <3>1, <3>2
    <2> QED
      BY <2>1, <2>2, <2>3
  <1>11. CASE k \notin KeysOf(old) /\ k \notin {req, trace}
    <2>1. inFlight'[k] = inFlight[k] /\ inFlight[k] \in 0 .. Len(items)
      BY <1>7, <1>11 DEF TypeInv, TypeOK
    <2>2. \A m \in Items' : k \in KeysOf(m)' <=> m \in Items /\ k \in KeysOf(m)
      BY <1>8, <1>11
    <2>3. CASE n = new
      BY <1>1, <1>6, <2>1, <2>2, <2>3 DEF Items
    <2>4. CASE n \in Items
      <3>1. LeadsTo(k, n) <=>
              /\ k \in KeysOf(n)
              /\ n >= old
              /\ \A m \in Items : k \in KeysOf(m) =>
                    m <= n /\ (m < n => m >= old \/ m + MaxHistory <= n - 1)
        <4>1. \A m \in Items : m \in Items' /\ m # new
          BY <1>1 DEF Items
        <4>2. \A m \in Items : Recent(m, Len(items)) <=> m >= old
          BY <1>4, <4>1
        <4>3. \A m \in Items : ~Recent(m, n - 1) <=> m + MaxHistory <= n - 1
          BY <1>1, <1>2, <1>4, <1>5, <2>4, <4>1, SMTT(20)
        <4> QED
          BY <2>4, <4>2, <4>3 DEF LeadsTo
      <3>2. \A m \in Items : k \in KeysOf(m) => m # old
        BY <1>11
      <3>3. \A m \in Items : k \in KeysOf(m) => (m >= old <=> m > old)
        BY <1>1, <1>2, <1>4, <3>2
      <3>4. LeadsTo(k, n)' <=> LeadsTo(k, n)
        BY <1>1, <1>6, <2>2, <2>4, <3>1, <3>3
      <3> QED
        BY <2>1, <2>4, <3>4 DEF FoundExactly
    <2> QED
      BY <1>1, <2>3, <2>4
  <1> QED
    BY <1>9, <1>10, <1>11

\* Responses and saves leave the map and the ring alone.
LEMMA FoundStep == TypeInv /\ FoundExactly /\ [Next]_vars => FoundExactly'
  <1> SUFFICES ASSUME TypeInv, FoundExactly, [Next]_vars PROVE FoundExactly'
    OBVIOUS
  <1>1. CASE \E req, trace \in IdsOrNone :
                Register(req, trace) \/ RegisterAndEvict(req, trace)
    BY <1>1, FoundRegister, FoundEvict
  <1>2. CASE UNCHANGED <<items, inFlight>>
    BY <1>2 DEF FoundExactly, LeadsTo, Items, KeysOf
  <1> QED
    BY <1>1, <1>2 DEF Next, vars, Respond, Save, SaveFails

LEMMA FoundInit == Init => FoundExactly
  BY DEF Init, FoundExactly, Items

\* The lookup of payload_capture.go finds the latest prompt with an id as long
\* as the ring says so, and nothing else.
THEOREM LookupExact == Spec => []FoundExactly
  <1>1. TypeInv /\ FoundExactly /\ [Next]_vars => FoundExactly'
    BY FoundStep
  <1> QED
    BY <1>1, TypeAlways, FoundInit, PTL DEF Spec

-----------------------------------------------------------------------------
(***************************************************************************)
(* What a preview joins                                                    *)
(***************************************************************************)

\* PreviewJoins for one response.
Joins(s) ==
    s.item # 0 =>
        /\ s.item <= s.at /\ Recent(s.item, s.at)
        /\ s.req \in KeysOf(s.item)
        /\ \A m \in s.item + 1 .. s.at : s.req \notin KeysOf(m)

\* A later registration does not change what a response has joined.
LEMMA JoinsKept ==
  ASSUME TypeOK, NEW req \in IdsOrNone, NEW trace \in IdsOrNone,
         items' = Append(items, [req |-> req, trace |-> trace]),
         NEW s \in Saves, Joins(s)
  PROVE  Joins(s)'
  <1>1. \A n \in Items : KeysOf(n)' = KeysOf(n)
    BY ItemsGrow
  <1>2. Len(items) \in Nat /\ s.item \in 0 .. Len(items) /\ s.at \in 0 .. Len(items)
    BY DEF TypeOK, Saves
  <1>3. s.item # 0 => s.item \in Items /\ \A m \in s.item + 1 .. s.at : m \in Items
    BY <1>2 DEF Items
  <1> QED
    BY <1>1, <1>3 DEF Joins, Recent

\* A response joins what the map finds.
LEMMA JoinsNew ==
  ASSUME TypeInv, FoundExactly, NEW req \in IdsOrNone, NEW nr,
         NEW n \in 0 .. Len(items), n # 0 => req \in Ids /\ inFlight[req] = n
  PROVE  Joins([nr |-> nr, req |-> req, item |-> n, at |-> Len(items)])
  <1>1. Len(items) \in Nat
    BY DEF TypeInv, TypeOK
  <1>2. ASSUME n # 0
        PROVE  /\ n <= Len(items) /\ Recent(n, Len(items)) /\ req \in KeysOf(n)
               /\ \A m \in n + 1 .. Len(items) : req \notin KeysOf(m)
    <2>1. n \in Items /\ LeadsTo(req, n)
      BY <1>1, <1>2 DEF FoundExactly, Items
    <2>2. \A m \in n + 1 .. Len(items) : m \in Items /\ ~(m <= n)
      BY <1>1, <2>1 DEF Items
    <2> QED
      BY <1>1, <2>1, <2>2 DEF LeadsTo
  <1> QED
    BY <1>2 DEF Joins

LEMMA JoinsStep ==
  TypeInv /\ FoundExactly /\ PreviewJoins /\ [Next]_vars => PreviewJoins'
  <1> DEFINE All == saving \cup {previews[i] : i \in DOMAIN previews}
  <1> SUFFICES ASSUME TypeInv, FoundExactly, PreviewJoins, [Next]_vars
               PROVE  PreviewJoins'
    OBVIOUS
  <1>1. /\ TypeOK /\ All \subseteq Saves /\ \A s \in All : Joins(s)
        /\ previews \in Seq(Saves)
    BY DEF TypeInv, TypeOK, PreviewJoins, Joins
  <1>2. ASSUME \A s \in All' : Joins(s)' PROVE PreviewJoins'
    BY <1>2 DEF PreviewJoins, Joins
  <1>3. CASE \E req, trace \in IdsOrNone :
                Register(req, trace) \/ RegisterAndEvict(req, trace)
    <2>1. PICK req \in IdsOrNone, trace \in IdsOrNone :
             items' = Append(items, [req |-> req, trace |-> trace])
      BY <1>3 DEF Register, RegisterAndEvict
    <2>2. All' = All
      BY <1>3 DEF Register, RegisterAndEvict
    <2> QED
      BY <1>1, <1>2, <2>1, <2>2, JoinsKept
  <1>4. CASE \E req \in IdsOrNone, hasText \in BOOLEAN : Respond(req, hasText)
    <2>1. PICK req \in IdsOrNone, hasText \in BOOLEAN : Respond(req, hasText)
      BY <1>4
    <2> DEFINE n == IF req = NoId THEN 0 ELSE inFlight[req]
               new == [nr |-> responses', req |-> req, item |-> n, at |-> Len(items)]
    <2>2. All' \subseteq All \cup {new} /\ UNCHANGED items
      BY <2>1 DEF Respond
    <2>3. n \in 0 .. Len(items) /\ (n # 0 => req \in Ids /\ inFlight[req] = n)
      BY DEF TypeInv, TypeOK, IdsOrNone
    <2>4. Joins(new)
      <3> HIDE DEF n
      <3> QED
        BY <2>3, JoinsNew
    <2>5. \A s : Joins(s) => Joins(s)'
      BY <2>2 DEF Joins, KeysOf
    <2> HIDE DEF new
    <2> QED
      BY <1>1, <1>2, <2>2, <2>4, <2>5
  <1>5. CASE \E s \in saving : Save(s) \/ SaveFails(s)
    <2>1. PICK s \in saving : /\ UNCHANGED items
                              /\ saving' \subseteq saving
                              /\ previews' \in {previews, Append(previews, s)}
      BY <1>5 DEF Save, SaveFails
    <2>2. \A i \in DOMAIN previews' : previews'[i] \in All
      <3>1. s \in Saves
        BY <1>1, <2>1
      <3>2. CASE previews' = previews
        BY <3>2
      <3>3. CASE previews' = Append(previews, s)
        <4>1. \A i \in DOMAIN previews' : \/ previews'[i] = s
                                          \/ i \in DOMAIN previews /\ previews'[i] = previews[i]
          BY <1>1, <3>1, <3>3
        <4> QED
          BY <2>1, <4>1
      <3> QED
        BY <2>1, <3>2, <3>3
    <2>3. All' \subseteq All
      BY <2>1, <2>2
    <2>4. \A r : Joins(r) => Joins(r)'
      BY <2>1 DEF Joins, KeysOf
    <2> QED
      BY <1>1, <1>2, <2>3, <2>4
  <1>6. CASE UNCHANGED vars
    BY <1>6 DEF vars, PreviewJoins, Recent, KeysOf
  <1> QED
    BY <1>3, <1>4, <1>5, <1>6 DEF Next

\* A chat preview joins a response to the prompt that was the latest one under
\* its request id when the response came, however late its row is inserted.
THEOREM PreviewsJoin == Spec => []PreviewJoins
  <1>1. Init => PreviewJoins
    BY DEF Init, PreviewJoins
  <1>2. TypeInv /\ FoundExactly /\ PreviewJoins /\ [Next]_vars => PreviewJoins'
    BY JoinsStep
  <1> QED
    BY <1>1, <1>2, TypeAlways, LookupExact, PTL DEF Spec

===============================================================================
