---------------------------- MODULE TablesProofs ----------------------------
(***************************************************************************)
(* What the selections and sorts of Tables return, for tables of any       *)
(* length.  The provers cannot instantiate an induction theorem whose      *)
(* parameter is an operator.  Selections and sorts need none: a place in a *)
(* result is the number of rows before it, and finite sets of rows are     *)
(* compared by bijections.  Sums and other folds do: what holds of all     *)
(* subsets of a finite set is shown by a subset for which it fails while   *)
(* it holds for the ones with a member less (SmallestSet).                 *)
(***************************************************************************)
EXTENDS Tables, SequencesExt, FiniteSetTheorems, SequenceTheorems,
        WellFoundedInduction, TLAPS

\* R orders S: no two members are level, and no member comes before itself.
Orders(R, S) ==
    /\ \A i \in S : <<i, i>> \notin R
    /\ \A i, j \in S : i # j => <<i, j>> \in R \/ <<j, i>> \in R
    /\ \A i, j, k \in S : <<i, j>> \in R /\ <<j, k>> \in R => <<i, k>> \in R

\* t holds the rows of X, each once, in the order of R.
Lists(t, X, R) ==
    /\ IsFiniteSet(X) /\ Orders(R, X)
    /\ t \in Seq(X) /\ Len(t) = Cardinality(X)
    /\ \A k \in 1 .. Len(t) : Ahead(t[k], X, R) = k - 1
    /\ \A x \in X : Ahead(x, X, R) + 1 \in 1 .. Len(t) /\ t[Ahead(x, X, R) + 1] = x

\* Every member of a finite set has a number of members before it.
LEMMA AheadType ==
  ASSUME NEW S, IsFiniteSet(S), NEW R, Orders(R, S), NEW i \in S
  PROVE  /\ Cardinality(S) \in Nat
         /\ Ahead(i, S, R) \in 0 .. Cardinality(S) - 1
  <1> DEFINE A == {k \in S : <<k, i>> \in R}
  <1>1. IsFiniteSet(A) /\ A \subseteq S /\ i \notin A
    BY FS_Subset DEF Orders
  <1>2. Cardinality(A) \in Nat /\ Cardinality(S) \in Nat
    BY <1>1, FS_CardinalityType
  <1>3. Cardinality(A) <= Cardinality(S) /\ Cardinality(A) # Cardinality(S)
    BY <1>1, FS_Subset
  <1> QED
    BY <1>2, <1>3 DEF Ahead

\* A member that comes before another one has fewer before it.
LEMMA AheadLess ==
  ASSUME NEW S, IsFiniteSet(S), NEW R, Orders(R, S),
         NEW i \in S, NEW j \in S, <<i, j>> \in R
  PROVE  Ahead(i, S, R) < Ahead(j, S, R)
  <1> DEFINE A == {k \in S : <<k, i>> \in R}
             B == {k \in S : <<k, j>> \in R}
  <1>1. IsFiniteSet(A) /\ IsFiniteSet(B)
    BY FS_Subset
  <1>2. A \subseteq B /\ i \in B /\ i \notin A
    BY DEF Orders
  <1>3. Cardinality(A) \in Nat /\ Cardinality(B) \in Nat
    BY <1>1, FS_CardinalityType
  <1>4. Cardinality(A) <= Cardinality(B) /\ Cardinality(A) # Cardinality(B)
    BY <1>1, <1>2, FS_Subset
  <1> QED
    BY <1>3, <1>4 DEF Ahead

\* No two members have the same number before them.
LEMMA AheadOnce ==
  ASSUME NEW S, IsFiniteSet(S), NEW R, Orders(R, S),
         NEW i \in S, NEW j \in S, Ahead(i, S, R) = Ahead(j, S, R)
  PROVE  i = j
  <1> SUFFICES ASSUME i # j
               PROVE  FALSE
    OBVIOUS
  <1>1. Ahead(i, S, R) < Ahead(j, S, R) \/ Ahead(j, S, R) < Ahead(i, S, R)
    BY AheadLess DEF Orders
  <1>2. Ahead(i, S, R) \in Int /\ Ahead(j, S, R) \in Int
    BY AheadType
  <1> QED
    BY <1>1, <1>2

\* Each number below the size of the set is the number before some member.
LEMMA AheadOnto ==
  ASSUME NEW S, IsFiniteSet(S), NEW R, Orders(R, S), NEW k \in 1 .. Cardinality(S)
  PROVE  \E i \in S : Ahead(i, S, R) = k - 1
  <1> DEFINE n == Cardinality(S)
             f == [i \in S |-> Ahead(i, S, R)]
  <1>1. n \in Nat
    BY FS_CardinalityType
  <1>2. f \in [S -> 0 .. n - 1]
    BY AheadType
  <1>3. \A i, j \in S : f[i] = f[j] => i = j
    BY AheadOnce
  <1>4. IsFiniteSet(0 .. n - 1) /\ Cardinality(0 .. n - 1) = n
    <2>1. 0 \in Int /\ n - 1 \in Int /\ (0 > n - 1 <=> n = 0)
      BY <1>1
    <2> HIDE DEF n
    <2> QED
      BY <1>1, <2>1, FS_Interval
  <1>5. f \in Injection(S, 0 .. n - 1)
    BY <1>2, <1>3 DEF Injection, IsInjective
  <1>6. f \in Surjection(S, 0 .. n - 1)
    BY <1>4, <1>5, FS_Injection
  <1>7. k - 1 \in 0 .. n - 1
    BY <1>1
  <1> QED
    BY <1>6, <1>7 DEF Surjection

\* Arranged lists every member once, each where its number says.
LEMMA ArrangedFacts ==
  ASSUME NEW S, IsFiniteSet(S), NEW R, Orders(R, S)
  PROVE  /\ Cardinality(S) \in Nat
         /\ DOMAIN Arranged(S, R) = 1 .. Cardinality(S)
         /\ \A k \in 1 .. Cardinality(S) :
               Arranged(S, R)[k] \in S /\ Ahead(Arranged(S, R)[k], S, R) = k - 1
         /\ \A i \in S : Arranged(S, R)[Ahead(i, S, R) + 1] = i
  <1>1. Cardinality(S) \in Nat
    BY FS_CardinalityType
  <1>2. DOMAIN Arranged(S, R) = 1 .. Cardinality(S)
    BY DEF Arranged
  <1>3. ASSUME NEW k \in 1 .. Cardinality(S)
        PROVE  Arranged(S, R)[k] \in S /\ Ahead(Arranged(S, R)[k], S, R) = k - 1
    BY AheadOnto DEF Arranged
  <1>4. ASSUME NEW i \in S
        PROVE  Arranged(S, R)[Ahead(i, S, R) + 1] = i
    <2>1. Ahead(i, S, R) + 1 \in 1 .. Cardinality(S)
      BY <1>1, AheadType
    <2>2. /\ Arranged(S, R)[Ahead(i, S, R) + 1] \in S
          /\ Ahead(Arranged(S, R)[Ahead(i, S, R) + 1], S, R) = (Ahead(i, S, R) + 1) - 1
      BY <1>3, <2>1
    <2>3. Ahead(Arranged(S, R)[Ahead(i, S, R) + 1], S, R) = Ahead(i, S, R)
      BY <2>1, <2>2, AheadType
    <2> QED
      BY <2>2, <2>3, AheadOnce
  <1> QED
    BY <1>1, <1>2, <1>3, <1>4

\* The first n places are n.
LEMMA PlacesCount ==
  ASSUME NEW n \in Nat
  PROVE  IsFiniteSet(1 .. n) /\ Cardinality(1 .. n) = n
  BY FS_Interval

\* Rows that differ are as many as their places.
LEMMA RowsCount ==
  ASSUME NEW A, IsFiniteSet(A), NEW s, \A i, j \in A : s[i] = s[j] => i = j,
         NEW B, \A i \in A : s[i] \in B, \A x \in B : \E i \in A : s[i] = x
  PROVE  IsFiniteSet(B) /\ Cardinality(B) = Cardinality(A)
  <1> DEFINE f == [i \in A |-> s[i]]
  <1>1. f \in Surjection(A, B)
    BY DEF Surjection
  <1>2. f \in Injection(A, B)
    BY DEF Injection, IsInjective
  <1> QED
    BY <1>1, <1>2, FS_Surjection

\* Selecting places whose rows differ, in an order of places that is an order
\* of their rows, lists these rows in that order.
LEMMA RowsAtLists ==
  ASSUME NEW s, NEW I, IsFiniteSet(I), \A i, j \in I : s[i] = s[j] => i = j,
         NEW X, \A i \in I : s[i] \in X, \A x \in X : \E i \in I : s[i] = x,
         NEW Q, NEW R, \A i, j \in I : <<i, j>> \in Q <=> <<s[i], s[j]>> \in R,
         Orders(R, X)
  PROVE  Lists(RowsAt(s, I, Q), X, R)
  <1> DEFINE t == RowsAt(s, I, Q)
             a == Arranged(I, Q)
  <1>1. IsFiniteSet(X) /\ Cardinality(X) = Cardinality(I)
    BY RowsCount
  <1>2. Orders(Q, I)
    <2>1. ASSUME NEW i \in I
          PROVE  <<i, i>> \notin Q
      BY DEF Orders
    <2>2. ASSUME NEW i \in I, NEW j \in I, i # j
          PROVE  <<i, j>> \in Q \/ <<j, i>> \in Q
      BY <2>2 DEF Orders
    <2>3. ASSUME NEW i \in I, NEW j \in I, NEW k \in I, <<i, j>> \in Q, <<j, k>> \in Q
          PROVE  <<i, k>> \in Q
      <3>1. <<s[i], s[j]>> \in R /\ <<s[j], s[k]>> \in R
        BY <2>3
      <3>2. <<s[i], s[k]>> \in R
        BY <3>1 DEF Orders
      <3> QED
        BY <3>2
    <2> QED
      BY <2>1, <2>2, <2>3 DEF Orders
  <1>3. ASSUME NEW i \in I
        PROVE  Ahead(s[i], X, R) = Ahead(i, I, Q)
    <2> DEFINE A == {j \in I : <<j, i>> \in Q}
               B == {x \in X : <<x, s[i]>> \in R}
    <2>1. IsFiniteSet(A) /\ \A k, l \in A : s[k] = s[l] => k = l
      BY FS_Subset
    <2>2. \A j \in A : s[j] \in B
      OBVIOUS
    <2>3. \A x \in B : \E j \in A : s[j] = x
      OBVIOUS
    <2> HIDE DEF A, B
    <2>4. Cardinality(B) = Cardinality(A)
      BY <2>1, <2>2, <2>3, RowsCount
    <2> QED
      BY <2>4 DEF Ahead, A, B
  <1>4. /\ Cardinality(I) \in Nat
        /\ DOMAIN a = 1 .. Cardinality(I)
        /\ \A k \in 1 .. Cardinality(I) : a[k] \in I /\ Ahead(a[k], I, Q) = k - 1
        /\ \A i \in I : a[Ahead(i, I, Q) + 1] = i
    BY <1>2, ArrangedFacts
  <1>5. t = [k \in 1 .. Cardinality(I) |-> s[a[k]]]
    BY <1>4 DEF RowsAt
  <1> HIDE DEF t, a
  <1>6. t \in Seq(X) /\ Len(t) = Cardinality(X)
    <2>1. t \in [1 .. Cardinality(I) -> X]
      BY <1>4, <1>5
    <2> QED
      BY <1>1, <1>4, <2>1
  <1>7. \A k \in 1 .. Len(t) : Ahead(t[k], X, R) = k - 1
    BY <1>1, <1>3, <1>4, <1>5, <1>6
  <1>8. ASSUME NEW x \in X
        PROVE  Ahead(x, X, R) + 1 \in 1 .. Len(t) /\ t[Ahead(x, X, R) + 1] = x
    <2>1. PICK i \in I : x = s[i]
      OBVIOUS
    <2>2. Ahead(i, I, Q) + 1 \in 1 .. Cardinality(I)
      BY <1>2, <1>4, AheadType
    <2> QED
      BY <1>1, <1>3, <1>4, <1>5, <1>6, <2>1, <2>2
  <1> QED
    BY <1>1, <1>6, <1>7, <1>8 DEF Lists, t

\* A list holds every row at one place.
LEMMA ListsOnce ==
  ASSUME NEW t, NEW X, NEW R, Lists(t, X, R)
  PROVE  /\ \A i, j \in 1 .. Len(t) : t[i] = t[j] => i = j
         /\ Range(t) = X
         /\ DOMAIN t = 1 .. Len(t) /\ Len(t) \in Nat /\ IsFiniteSet(DOMAIN t)
  <1>1. DOMAIN t = 1 .. Len(t) /\ Len(t) \in Nat
    BY DEF Lists
  <1>2. ASSUME NEW i \in 1 .. Len(t), NEW j \in 1 .. Len(t), t[i] = t[j]
        PROVE  i = j
    BY <1>2 DEF Lists
  <1>3. \A i \in 1 .. Len(t) : t[i] \in X
    BY <1>1 DEF Lists
  <1>4. {t[i] : i \in 1 .. Len(t)} = X
    BY <1>3 DEF Lists
  <1>5. IsFiniteSet(1 .. Len(t))
    BY <1>1, FS_Interval
  <1> QED
    BY <1>1, <1>2, <1>4, <1>5 DEF Range

\* A list is in order.
LEMMA ListsOrder ==
  ASSUME NEW t, NEW X, NEW R, Lists(t, X, R),
         NEW i \in 1 .. Len(t), NEW j \in 1 .. Len(t)
  PROVE  i < j <=> <<t[i], t[j]>> \in R
  <1>1. t[i] \in X /\ t[j] \in X /\ Ahead(t[i], X, R) = i - 1 /\ Ahead(t[j], X, R) = j - 1
    BY DEF Lists
  <1>2. IsFiniteSet(X) /\ Orders(R, X)
    BY DEF Lists
  <1>3. <<t[i], t[j]>> \in R => i - 1 < j - 1
    BY <1>1, <1>2, AheadLess
  <1>4. <<t[j], t[i]>> \in R => j - 1 < i - 1
    BY <1>1, <1>2, AheadLess
  <1>5. i < j => t[i] # t[j]
    BY <1>1
  <1> QED
    BY <1>1, <1>2, <1>3, <1>4, <1>5 DEF Orders

\* WHERE of a list lists the rows that pass, in the same order.
LEMMA SelectionLists ==
  ASSUME NEW t, NEW X, NEW R, Lists(t, X, R), NEW Y \in SUBSET X
  PROVE  LET I == {i \in DOMAIN t : t[i] \in Y}
         IN Lists(RowsAt(t, I, Ascending(I)), Y, R)
  <1> DEFINE I == {i \in DOMAIN t : t[i] \in Y}
  <1>1. /\ \A i, j \in 1 .. Len(t) : t[i] = t[j] => i = j
        /\ Range(t) = X
        /\ DOMAIN t = 1 .. Len(t) /\ IsFiniteSet(DOMAIN t)
    BY ListsOnce
  <1>2. IsFiniteSet(I) /\ \A i, j \in I : t[i] = t[j] => i = j
    BY <1>1, FS_Subset
  <1>3. (\A i \in I : t[i] \in Y) /\ \A x \in Y : \E i \in I : t[i] = x
    BY <1>1 DEF Range
  <1>4. Orders(R, Y)
    BY DEF Lists, Orders
  <1>5. ASSUME NEW i \in I, NEW j \in I
        PROVE  <<i, j>> \in Ascending(I) <=> <<t[i], t[j]>> \in R
    <2>1. <<i, j>> \in Ascending(I) <=> i < j
      BY DEF Ascending
    <2> QED
      BY <1>1, <2>1, ListsOrder
  <1> HIDE DEF I
  <1>6. Lists(RowsAt(t, I, Ascending(I)), Y, R)
    BY <1>2, <1>3, <1>4, <1>5, RowsAtLists
  <1> QED
    BY <1>6 DEF I

\* ORDER BY of a list lists the same rows in the new order.
LEMMA SortLists ==
  ASSUME NEW t, NEW X, NEW R, Lists(t, X, R), NEW N, Orders(N, X),
         NEW Q, \A i, j \in DOMAIN t : <<i, j>> \in Q <=> <<t[i], t[j]>> \in N
  PROVE  Lists(RowsAt(t, DOMAIN t, Q), X, N)
  <1> DEFINE I == DOMAIN t
  <1>1. IsFiniteSet(I) /\ (\A i, j \in I : t[i] = t[j] => i = j) /\ Range(t) = X
    BY ListsOnce
  <1>2. (\A i \in I : t[i] \in X) /\ \A x \in X : \E i \in I : t[i] = x
    BY <1>1 DEF Range
  <1>3. \A i, j \in I : <<i, j>> \in Q <=> <<t[i], t[j]>> \in N
    OBVIOUS
  <1> HIDE DEF I
  <1>4. Lists(RowsAt(t, I, Q), X, N)
    BY <1>1, <1>2, <1>3, RowsAtLists
  <1> QED
    BY <1>4 DEF I

\* A sequence of all rows, each once, in order is a list.
LEMMA ListsIf ==
  ASSUME NEW X, NEW t \in Seq(X), \A x \in X : \E i \in 1 .. Len(t) : t[i] = x,
         NEW R, \A i, j \in 1 .. Len(t) : i < j <=> <<t[i], t[j]>> \in R,
         \A i, j \in 1 .. Len(t) : t[i] = t[j] => i = j
  PROVE  Lists(t, X, R)
  <1>1. Len(t) \in Nat /\ \A i \in 1 .. Len(t) : t[i] \in X
    OBVIOUS
  <1>2. IsFiniteSet(1 .. Len(t)) /\ Cardinality(1 .. Len(t)) = Len(t)
    BY <1>1, FS_Interval, SMTT(20)
  <1>3. IsFiniteSet(X) /\ Cardinality(X) = Len(t)
    BY <1>1, <1>2, RowsCount
  <1>4. Orders(R, X)
    <2>1. ASSUME NEW x \in X
          PROVE  <<x, x>> \notin R
      <3>1. PICK i \in 1 .. Len(t) : t[i] = x
        OBVIOUS
      <3>2. ~(i < i)
        BY <1>1
      <3> QED
        BY <3>1, <3>2
    <2>2. ASSUME NEW x \in X, NEW y \in X, x # y
          PROVE  <<x, y>> \in R \/ <<y, x>> \in R
      <3>1. PICK i \in 1 .. Len(t) : t[i] = x
        OBVIOUS
      <3>2. PICK j \in 1 .. Len(t) : t[j] = y
        OBVIOUS
      <3>3. i # j
        BY <2>2, <3>1, <3>2
      <3>4. i < j \/ j < i
        BY <1>1, <3>3
      <3> QED
        BY <3>1, <3>2, <3>4
    <2>3. ASSUME NEW x \in X, NEW y \in X, NEW z \in X, <<x, y>> \in R, <<y, z>> \in R
          PROVE  <<x, z>> \in R
      <3>1. PICK i \in 1 .. Len(t) : t[i] = x
        OBVIOUS
      <3>2. PICK j \in 1 .. Len(t) : t[j] = y
        OBVIOUS
      <3>3. PICK k \in 1 .. Len(t) : t[k] = z
        OBVIOUS
      <3>4. i < j /\ j < k
        BY <2>3, <3>1, <3>2, <3>3
      <3>5. i < k
        BY <1>1, <3>4
      <3> QED
        BY <3>1, <3>3, <3>5
    <2> QED
      BY <2>1, <2>2, <2>3 DEF Orders
  <1>5. ASSUME NEW k \in 1 .. Len(t)
        PROVE  Ahead(t[k], X, R) = k - 1
    <2> DEFINE m == k - 1
               B == {x \in X : <<x, t[k]>> \in R}
    <2>1. m \in Nat /\ \A i \in 1 .. m : i \in 1 .. Len(t) /\ i < k
      BY <1>1
    <2>2. \A i \in 1 .. m : t[i] \in B
      BY <1>1, <2>1
    <2>3. ASSUME NEW x \in B
          PROVE  \E i \in 1 .. m : t[i] = x
      <3>1. PICK i \in 1 .. Len(t) : t[i] = x
        OBVIOUS
      <3>2. i < k
        BY <3>1
      <3>3. i \in 1 .. m
        BY <1>1, <3>2
      <3> QED
        BY <3>1, <3>3
    <2> HIDE DEF m, B
    <2> DEFINE A == 1 .. m
    <2>4. IsFiniteSet(A) /\ Cardinality(A) = m
      BY <2>1, PlacesCount
    <2>5. \A i, j \in A : t[i] = t[j] => i = j
      BY <2>1
    <2>6. (\A i \in A : t[i] \in B) /\ \A x \in B : \E i \in A : t[i] = x
      BY <2>2, <2>3
    <2> HIDE DEF A
    <2>7. Cardinality(B) = Cardinality(A)
      BY <2>4, <2>5, <2>6, RowsCount
    <2> QED
      BY <2>4, <2>7 DEF Ahead, B, m
  <1>6. ASSUME NEW x \in X
        PROVE  Ahead(x, X, R) + 1 \in 1 .. Len(t) /\ t[Ahead(x, X, R) + 1] = x
    <2>1. PICK k \in 1 .. Len(t) : t[k] = x
      OBVIOUS
    <2>2. Ahead(x, X, R) = k - 1
      BY <1>5, <2>1
    <2> QED
      BY <2>1, <2>2
  <1> QED
    BY <1>1, <1>3, <1>4, <1>5, <1>6 DEF Lists

\* The rows of a sequence in the order they stand in.
InOrder(s) ==
    {p \in Range(s) \X Range(s) :
        \E i, j \in DOMAIN s : i < j /\ s[i] = p[1] /\ s[j] = p[2]}

\* A table without equal rows lists its rows as they stand.
LEMMA TableLists ==
  ASSUME NEW S, NEW s \in Seq(S), \A i, j \in DOMAIN s : s[i] = s[j] => i = j
  PROVE  Lists(s, Range(s), InOrder(s))
  <1>1. s \in Seq(Range(s)) /\ DOMAIN s = 1 .. Len(s)
    BY SeqOfRange
  <1>2. \A x \in Range(s) : \E i \in 1 .. Len(s) : s[i] = x
    BY <1>1 DEF Range
  <1>3. ASSUME NEW i \in 1 .. Len(s), NEW j \in 1 .. Len(s)
        PROVE  i < j <=> <<s[i], s[j]>> \in InOrder(s)
    <2>1. s[i] \in Range(s) /\ s[j] \in Range(s)
      BY <1>1 DEF Range
    <2>2. CASE i < j
      BY <1>1, <2>1, <2>2 DEF InOrder
    <2>3. ASSUME <<s[i], s[j]>> \in InOrder(s)
          PROVE  i < j
      <3>1. PICK k, l \in DOMAIN s : k < l /\ s[k] = s[i] /\ s[l] = s[j]
        BY <2>3 DEF InOrder
      <3> QED
        BY <1>1, <3>1
    <2> QED
      BY <2>2, <2>3
  <1> QED
    BY <1>1, <1>2, <1>3, ListsIf

\* A list read backwards lists the same rows in the opposite order.
LEMMA ReverseLists ==
  ASSUME NEW t, NEW X, NEW R, Lists(t, X, R),
         NEW N, \A x, y \in X : <<x, y>> \in N <=> <<y, x>> \in R
  PROVE  Lists(Reverse(t), X, N)
  <1> DEFINE u == Reverse(t)
             n == Len(t)
  <1>1. n \in Nat /\ t \in Seq(X) /\ \A i \in 1 .. n : t[i] \in X
    BY DEF Lists
  <1>2. u = [i \in 1 .. n |-> t[(n - i) + 1]]
    BY DEF Reverse
  <1>3. \A i \in 1 .. n : (n - i) + 1 \in 1 .. n
    BY <1>1
  <1> HIDE DEF u
  <1>4. u \in Seq(X) /\ Len(u) = n
    <2>1. u \in [1 .. n -> X]
      BY <1>1, <1>2, <1>3
    <2> HIDE DEF n
    <2> QED
      BY <1>1, <2>1
  <1>5. ASSUME NEW x \in X
        PROVE  \E i \in 1 .. n : u[i] = x
    <2>1. PICK k \in 1 .. n : t[k] = x
      BY DEF Lists
    <2>2. (n - k) + 1 \in 1 .. n /\ (n - ((n - k) + 1)) + 1 = k
      BY <1>1
    <2>3. u[(n - k) + 1] = x
      BY <1>2, <2>1, <2>2
    <2> QED
      BY <2>2, <2>3
  <1>6. ASSUME NEW i \in 1 .. n, NEW j \in 1 .. n
        PROVE  i < j <=> <<u[i], u[j]>> \in N
    <2>1. u[i] = t[(n - i) + 1] /\ u[j] = t[(n - j) + 1]
      BY <1>2
    <2>2. (n - j) + 1 < (n - i) + 1 <=> <<t[(n - j) + 1], t[(n - i) + 1]>> \in R
      BY <1>3, ListsOrder
    <2>3. i < j <=> (n - j) + 1 < (n - i) + 1
      BY <1>1
    <2> QED
      BY <1>1, <1>3, <2>1, <2>2, <2>3
  <1>7. ASSUME NEW i \in 1 .. n, NEW j \in 1 .. n, u[i] = u[j]
        PROVE  i = j
    <2>1. (n - i) + 1 = (n - j) + 1
      BY <1>2, <1>3, <1>7, ListsOnce
    <2> QED
      BY <1>1, <2>1
  <1>8. Lists(u, X, N)
    BY <1>4, <1>5, <1>6, <1>7, ListsIf
  <1> QED
    BY <1>8 DEF u

\* The rows of a sequence are finitely many.
LEMMA RangeFinite ==
  ASSUME NEW S, NEW s \in Seq(S)
  PROVE  IsFiniteSet(Range(s))
  <1> DEFINE A == DOMAIN s
             f == [i \in A |-> s[i]]
  <1>1. IsFiniteSet(A)
    <2>1. A = 1 .. Len(s) /\ Len(s) \in Nat
      OBVIOUS
    <2> QED
      BY <2>1, PlacesCount
  <1>2. f \in Surjection(A, Range(s))
    BY DEF Surjection, Range
  <1> HIDE DEF f
  <1> QED
    BY <1>1, <1>2, FS_Surjection

\* A place is a number.
LEMMA AheadCount ==
  ASSUME NEW X, IsFiniteSet(X), NEW R, NEW i
  PROVE  Ahead(i, X, R) \in Nat
  <1> DEFINE A == {x \in X : <<x, i>> \in R}
  <1>1. IsFiniteSet(A)
    BY FS_Subset
  <1>2. Cardinality(A) \in Nat
    BY <1>1, FS_CardinalityType
  <1> QED
    BY <1>2 DEF Ahead

\* When rows are added a row never moves forward.
LEMMA AheadGrows ==
  ASSUME NEW X, NEW Y, IsFiniteSet(Y), X \subseteq Y, NEW R, NEW Q, NEW i \in X,
         \A x \in X : <<x, i>> \in R => <<x, i>> \in Q
  PROVE  Ahead(i, X, R) <= Ahead(i, Y, Q)
  <1> DEFINE A == {x \in X : <<x, i>> \in R}
             B == {x \in Y : <<x, i>> \in Q}
  <1>1. IsFiniteSet(B) /\ A \subseteq B
    BY FS_Subset
  <1> HIDE DEF A, B
  <1>2. Cardinality(A) <= Cardinality(B)
    BY <1>1, FS_Subset
  <1> QED
    BY <1>2 DEF Ahead, A, B

\* The greater and the smaller one of two numbers.
LEMMA MaxOfTwo ==
  ASSUME NEW a \in Int, NEW b \in Int
  PROVE  Max({a, b}) = IF a >= b THEN a ELSE b
  <1> DEFINE m == IF a >= b THEN a ELSE b
  <1>1. m \in {a, b} /\ \A y \in {a, b} : m >= y
    OBVIOUS
  <1>2. \A x \in {a, b} : (\A y \in {a, b} : x >= y) => x = m
    OBVIOUS
  <1>3. Max({a, b}) = CHOOSE x \in {a, b} : \A y \in {a, b} : x >= y
    BY DEF Max
  <1> QED
    BY <1>1, <1>2, <1>3

LEMMA MinOfTwo ==
  ASSUME NEW a \in Int, NEW b \in Int
  PROVE  Min({a, b}) = IF a <= b THEN a ELSE b
  <1> DEFINE m == IF a <= b THEN a ELSE b
  <1>1. m \in {a, b} /\ \A y \in {a, b} : m <= y
    OBVIOUS
  <1>2. \A x \in {a, b} : (\A y \in {a, b} : x <= y) => x = m
    OBVIOUS
  <1>3. Min({a, b}) = CHOOSE x \in {a, b} : \A y \in {a, b} : x <= y
    BY DEF Min
  <1> QED
    BY <1>1, <1>2, <1>3

\* A page of a list holds the rows with the right number before them, and a page
\* that is not full all the rest.
LEMMA SliceLists ==
  ASSUME NEW t, NEW X, NEW R, Lists(t, X, R), NEW o \in Nat, NEW L \in Nat \ {0}, NEW x \in X,
         Ahead(x, X, R) >= o, Ahead(x, X, R) < o + L \/ Len(Slice(t, o, L)) < L
  PROVE  x \in Range(Slice(t, o, L))
  <1> DEFINE n == Len(t)
             k == Ahead(x, X, R) + 1
             hi == IF o + L <= n THEN o + L ELSE n
             s == Slice(t, o, L)
  <1>1. t \in Seq(X) /\ n \in Nat /\ k \in 1 .. n /\ t[k] = x
    BY DEF Lists
  <1>2. Max({o, 0}) = o /\ Min({o + L, n}) = hi
    BY <1>1, MaxOfTwo, MinOfTwo
  <1>3. s = SubSeq(t, o + 1, hi)
    BY <1>2 DEF Slice
  <1> HIDE DEF s, n, k
  <1>4. hi \in Nat /\ hi <= n
    BY <1>1
  <1>5. Ahead(x, X, R) \in Nat /\ k = Ahead(x, X, R) + 1 /\ k > o
    <2>1. Ahead(x, X, R) \in Nat
      BY AheadType DEF Lists
    <2> QED
      BY <2>1 DEF k
  <1>6. o + 1 \in Nat /\ o + 1 <= n
    BY <1>1, <1>5
  <1>7. s = [i \in 1 .. hi - o |-> t[i + o]] /\ hi > o
    BY <1>1, <1>3, <1>4, <1>6 DEF n
  <1>8. Len(s) = hi - o
    BY <1>4, <1>7
  <1>9. k <= hi
    <2>1. k <= o + L \/ hi - o < L
      BY <1>5, <1>8 DEF s
    <2> QED
      BY <1>1, <1>4, <2>1
  <1>10. k - o \in 1 .. hi - o /\ (k - o) + o = k
    BY <1>1, <1>4, <1>5, <1>9
  <1>11. k - o \in DOMAIN s /\ s[k - o] = x
    BY <1>1, <1>7, <1>10
  <1> QED
    BY <1>11 DEF Range, s

\* Some number in a set of numbers is the least.
LEMMA LeastNumber ==
  ASSUME NEW T \in SUBSET Nat, T # {}
  PROVE  \E x \in T : \A y \in T : x <= y
  <1> DEFINE R == OpToRel(<, Nat)
  <1>1. IsWellFoundedOn(R, Nat)
    BY NatLessThanWellFounded
  <1>2. \A x, y \in Nat : x < y => <<x, y>> \in R
    BY DEF OpToRel
  <1> HIDE DEF R
  <1>3. \E x \in T : \A y \in T : ~(<<y, x>> \in R)
    BY <1>1, WFMin
  <1>4. PICK x \in T : \A y \in T : ~(<<y, x>> \in R)
    BY <1>3
  <1>5. \A y \in T : ~(y < x) /\ x \in Nat /\ y \in Nat
    BY <1>2, <1>4
  <1> QED
    BY <1>5

\* Some numbers below a bound have a greatest one.
LEMMA GreatestNumber ==
  ASSUME NEW n \in Nat, NEW S \in SUBSET (0 .. n), S # {}
  PROVE  Max(S) \in S /\ \A y \in S : Max(S) >= y
  <1> DEFINE T == {t \in Nat : n - t \in S}
  <1>1. \A x \in S : x \in 0 .. n
    OBVIOUS
  <1>2. \A x \in S : n - x \in Nat /\ n - (n - x) = x
    BY <1>1
  <1>3. \A x \in S : n - x \in T
    BY <1>2
  <1>4. T \in SUBSET Nat /\ T # {}
    BY <1>3
  <1>5. PICK t \in T : \A u \in T : t <= u
    BY <1>4, LeastNumber
  <1> DEFINE x == n - t
  <1>6. x \in S /\ t \in Nat
    OBVIOUS
  <1>7. \A y \in S : x >= y
    BY <1>1, <1>2, <1>3, <1>5, <1>6
  <1> HIDE DEF x
  <1>8. \E z \in S : \A y \in S : z >= y
    BY <1>6, <1>7
  <1> QED
    BY <1>8 DEF Max

\* Arranged lists any finite set that is ordered.
LEMMA ArrangedLists ==
  ASSUME NEW S, IsFiniteSet(S), NEW R, Orders(R, S)
  PROVE  Lists(Arranged(S, R), S, R)
  <1> DEFINE t == Arranged(S, R)
             n == Cardinality(S)
  <1>1. /\ n \in Nat /\ DOMAIN t = 1 .. n
        /\ \A k \in 1 .. n : t[k] \in S /\ Ahead(t[k], S, R) = k - 1
        /\ \A i \in S : t[Ahead(i, S, R) + 1] = i
    BY ArrangedFacts
  <1>2. t = [k \in 1 .. n |-> t[k]]
    BY DEF Arranged
  <1> HIDE DEF t
  <1>3. t \in Seq(S) /\ Len(t) = n
    BY <1>1, <1>2
  <1>4. ASSUME NEW i \in S
        PROVE  Ahead(i, S, R) + 1 \in 1 .. n
    <2>1. Ahead(i, S, R) \in 0 .. n - 1
      BY AheadType
    <2> QED
      BY <1>1, <2>1
  <1> QED
    BY <1>1, <1>3, <1>4 DEF Lists, t

\* A page is a sequence of rows, and they are those at its places.
LEMMA SliceRows ==
  ASSUME NEW S, NEW s \in Seq(S), NEW o \in Nat, NEW L \in Nat
  PROVE  /\ Slice(s, o, L) \in Seq(S)
         /\ \A x : x \in Range(Slice(s, o, L)) <=> \E k \in DOMAIN s : o < k /\ k <= o + L /\ s[k] = x
  <1> DEFINE n == Len(s)
             hi == IF o + L <= n THEN o + L ELSE n
             t == Slice(s, o, L)
  <1>1. n \in Nat /\ DOMAIN s = 1 .. n /\ hi \in Nat /\ hi <= n
    OBVIOUS
  <1>2. Max({o, 0}) = o /\ Min({o + L, n}) = hi
    BY <1>1, MaxOfTwo, MinOfTwo
  <1>3. t = SubSeq(s, o + 1, hi)
    BY <1>2 DEF Slice
  <1>4. t \in Seq(S)
    <2>1. \A i \in o + 1 .. hi : s[i] \in S
      BY <1>1
    <2> QED
      BY <1>1, <1>3, <2>1, SubSeqProperties
  <1> HIDE DEF t
  <1>5. DOMAIN t = 1 .. hi - o /\ \A i \in 1 .. hi - o : t[i] = s[o + i]
    <2>1. CASE o + 1 <= hi
      BY <1>1, <1>3, <2>1
    <2>2. CASE o + 1 > hi
      <3>1. t = <<>>
        BY <1>1, <1>3, <2>2
      <3> QED
        BY <1>1, <2>2, <3>1
    <2> QED
      BY <1>1, <2>1, <2>2
  <1>6. ASSUME NEW x, x \in Range(t)
        PROVE  \E k \in DOMAIN s : o < k /\ k <= o + L /\ s[k] = x
    <2>1. PICK i \in 1 .. hi - o : t[i] = x
      BY <1>5, <1>6 DEF Range
    <2>2. o + i \in DOMAIN s /\ o < o + i /\ o + i <= o + L /\ s[o + i] = x
      BY <1>1, <1>5, <2>1
    <2> QED
      BY <2>2
  <1>7. ASSUME NEW x, NEW k \in DOMAIN s, o < k, k <= o + L, s[k] = x
        PROVE  x \in Range(t)
    <2>1. k - o \in 1 .. hi - o /\ o + (k - o) = k
      BY <1>1, <1>7
    <2>2. t[k - o] = x /\ k - o \in DOMAIN t
      BY <1>5, <1>7, <2>1
    <2> QED
      BY <2>2 DEF Range
  <1> QED
    BY <1>4, <1>6, <1>7 DEF t

\* A page of a list is a list of its rows.
LEMMA SlicesAreLists ==
  ASSUME NEW t, NEW X, NEW R, Lists(t, X, R), NEW o \in Nat, NEW L \in Nat
  PROVE  Lists(Slice(t, o, L), Range(Slice(t, o, L)), R)
  <1> DEFINE n == Len(t)
             hi == IF o + L <= n THEN o + L ELSE n
             s == Slice(t, o, L)
  <1>1. t \in Seq(X) /\ n \in Nat /\ DOMAIN t = 1 .. n /\ hi \in Nat /\ hi <= n
    BY DEF Lists
  <1>2. Max({o, 0}) = o /\ Min({o + L, n}) = hi
    BY <1>1, MaxOfTwo, MinOfTwo
  <1>3. s = SubSeq(t, o + 1, hi)
    BY <1>2 DEF Slice
  <1> HIDE DEF s
  <1>4. PICK m \in Nat : /\ o + m <= n \/ m = 0
                         /\ \A i \in 1 .. m : s[i] = t[o + i]
                         /\ DOMAIN s = 1 .. m
    <2>1. CASE o + 1 <= hi
      <3>1. DOMAIN s = 1 .. hi - o /\ \A i \in 1 .. hi - o : s[i] = t[o + i]
        BY <1>1, <1>3, <2>1
      <3>2. hi - o \in Nat /\ o + (hi - o) <= n
        BY <1>1, <2>1
      <3> HIDE DEF hi, n
      <3> QED
        BY <3>1, <3>2
    <2>2. CASE o + 1 > hi
      <3>1. s = <<>>
        BY <1>1, <1>3, <2>2
      <3> QED
        BY <3>1
    <2> QED
      BY <1>1, <2>1, <2>2
  <1>5. \A i \in 1 .. m : o + i \in 1 .. n /\ s[i] = t[o + i]
    BY <1>1, <1>4
  <1>6. s \in Seq(Range(s)) /\ Len(s) = m
    <2>1. s \in Seq(X)
      BY <1>1, SliceRows DEF s
    <2>2. Len(s) \in Nat /\ DOMAIN s = 1 .. Len(s)
      BY <2>1
    <2>3. Len(s) = m
      <3>1. ~(Len(s) < m)
        BY <1>4, <2>2
      <3>2. ~(m < Len(s))
        BY <1>4, <2>2
      <3> QED
        BY <1>4, <2>2, <3>1, <3>2
    <2>4. s \in Seq(Range(s))
      BY <2>1, SeqOfRange
    <2> QED
      BY <2>3, <2>4
  <1>7. \A x \in Range(s) : \E i \in 1 .. m : s[i] = x
    BY <1>4 DEF Range
  <1>8. ASSUME NEW i \in 1 .. m, NEW j \in 1 .. m
        PROVE  i < j <=> <<s[i], s[j]>> \in R
    <2>1. o + i \in 1 .. n /\ o + j \in 1 .. n /\ s[i] = t[o + i] /\ s[j] = t[o + j]
      BY <1>5
    <2>2. o + i < o + j <=> <<t[o + i], t[o + j]>> \in R
      BY <2>1, ListsOrder
    <2> QED
      BY <1>4, <2>1, <2>2
  <1>9. ASSUME NEW i \in 1 .. m, NEW j \in 1 .. m, s[i] = s[j]
        PROVE  i = j
    <2>1. t[o + i] = t[o + j] /\ o + i \in 1 .. n /\ o + j \in 1 .. n
      BY <1>5, <1>9
    <2>2. o + i = o + j
      BY <2>1, ListsOnce
    <2> QED
      BY <1>4, <2>2
  <1>10. Lists(s, Range(s), R)
    BY <1>4, <1>6, <1>7, <1>8, <1>9, ListsIf
  <1> QED
    BY <1>10 DEF s

\* WHERE keeps the rows that pass, one result for each.
LEMMA SelectedRange ==
  ASSUME NEW S, NEW s \in Seq(S), NEW Y
  PROVE  LET I == {i \in DOMAIN s : s[i] \in Y}
         IN  \A x \in Range(RowsAt(s, I, Ascending(I))) : x \in Range(s) /\ x \in Y
  <1> DEFINE I == {i \in DOMAIN s : s[i] \in Y}
             a == Arranged(I, Ascending(I))
             n == Cardinality(I)
  <1>1. DOMAIN s = 1 .. Len(s) /\ Len(s) \in Nat
    OBVIOUS
  <1>2. IsFiniteSet(I)
    <2>1. IsFiniteSet(1 .. Len(s)) /\ I \subseteq 1 .. Len(s)
      BY <1>1, FS_Interval
    <2> QED
      BY <2>1, FS_Subset
  <1>3. Orders(Ascending(I), I)
    <2>1. \A i \in I : i \in Nat
      BY <1>1
    <2> HIDE DEF I
    <2> QED
      BY <2>1 DEF Orders, Ascending
  <1>4. DOMAIN a = 1 .. n /\ \A k \in 1 .. n : a[k] \in I
    BY <1>2, <1>3, ArrangedFacts
  <1> HIDE DEF a, n
  <1>5. RowsAt(s, I, Ascending(I)) = [k \in 1 .. n |-> s[a[k]]]
    BY <1>4 DEF RowsAt, a
  <1>6. \A x \in Range([k \in 1 .. n |-> s[a[k]]]) : x \in Range(s) /\ x \in Y
    BY <1>4 DEF Range
  <1> QED
    BY <1>5, <1>6

\* A number of a set that none exceeds is its greatest.
LEMMA GreatestIs ==
  ASSUME NEW S \in SUBSET Nat, NEW m \in S, \A y \in S : m >= y
  PROVE  Max(S) = m
  <1> DEFINE M == CHOOSE x \in S : \A y \in S : x >= y
  <1>1. M \in S /\ \A y \in S : M >= y
    OBVIOUS
  <1>2. M >= m /\ m >= M /\ M \in Nat /\ m \in Nat
    BY <1>1
  <1> HIDE DEF M
  <1>3. M = m
    BY <1>2
  <1> QED
    BY <1>3 DEF Max, M

-----------------------------------------------------------------------------
(***************************************************************************)
(* Folds and sums over finite sets                                         *)
(***************************************************************************)

\* Among the subsets of a finite set that are in B one has no smaller one in B.
LEMMA SmallestSet ==
  ASSUME NEW S, IsFiniteSet(S), NEW B \in SUBSET (SUBSET S), B # {}
  PROVE  \E T \in B : IsFiniteSet(T) /\ \A x \in T : T \ {x} \notin B
  <1> DEFINE N == {n \in Nat : \E T \in B : Cardinality(T) = n}
  <1>1. \A T \in B : IsFiniteSet(T) /\ Cardinality(T) \in Nat
    BY FS_Subset, FS_CardinalityType
  <1>2. N \in SUBSET Nat /\ N # {}
    BY <1>1
  <1>3. PICK n \in N : \A m \in N : n <= m
    BY <1>2, LeastNumber
  <1>4. PICK T \in B : Cardinality(T) = n
    OBVIOUS
  <1>5. ASSUME NEW x \in T, T \ {x} \in B
        PROVE  FALSE
    <2>1. IsFiniteSet(T \ {x}) /\ Cardinality(T \ {x}) = Cardinality(T) - 1
      BY <1>1, FS_RemoveElement
    <2>2. Cardinality(T \ {x}) \in N
      BY <1>1, <1>5
    <2>3. Cardinality(T) <= Cardinality(T) - 1 /\ Cardinality(T) \in Nat
      BY <1>1, <1>3, <1>4, <2>1, <2>2
    <2> QED
      BY <2>3
  <1> QED
    BY <1>1, <1>5

\* h is the fold over the subsets of D that takes pick[s] first and works with step.
Folds(h, D, base, pick, step) ==
    \A s \in SUBSET D :
        h[s] = IF s = {} THEN base ELSE step[pick[s]][h[s \ {pick[s]}]]

\* A fold over a finite set exists.
LEMMA FoldExists ==
  ASSUME NEW D, IsFiniteSet(D), NEW V, NEW base \in V,
         NEW pick, \A s \in SUBSET D : s # {} => pick[s] \in s,
         NEW step, \A x \in D, v \in V : step[x][v] \in V
  PROVE  \E h \in [SUBSET D -> V] : Folds(h, D, base, pick, step)
  <1> DEFINE Up(n) == {s \in SUBSET D : Cardinality(s) <= n}
             Good(h, n) == /\ h \in [Up(n) -> V]
                           /\ \A s \in Up(n) : h[s] = IF s = {} THEN base
                                                      ELSE step[pick[s]][h[s \ {pick[s]}]]
             B == {n \in Nat : ~ \E h : Good(h, n)}
  <1>1. \A s \in SUBSET D : IsFiniteSet(s) /\ Cardinality(s) \in Nat
    BY FS_Subset, FS_CardinalityType
  <1>2. \A s \in SUBSET D : Cardinality(s) = 0 <=> s = {}
    BY <1>1, FS_EmptySet
  <1>3. 0 \notin B
    <2> DEFINE h == [s \in Up(0) |-> base]
    <2>1. \A s \in Up(0) : s = {}
      BY <1>1, <1>2
    <2>2. Good(h, 0)
      BY <2>1
    <2> QED
      BY <2>2
  <1>4. ASSUME NEW n \in Nat, n \notin B
        PROVE  n + 1 \notin B
    <2>1. PICK g : Good(g, n)
      BY <1>4
    <2> DEFINE h == [s \in Up(n + 1) |-> IF s = {} THEN base ELSE step[pick[s]][g[s \ {pick[s]}]]]
    <2>2. ASSUME NEW s \in Up(n + 1), s # {}
          PROVE  pick[s] \in D /\ s \ {pick[s]} \in Up(n) /\ s \ {pick[s]} \in Up(n + 1)
      <3>1. pick[s] \in s /\ IsFiniteSet(s) /\ Cardinality(s) \in Nat /\ Cardinality(s) <= n + 1
        BY <1>1, <2>2
      <3>2. Cardinality(s \ {pick[s]}) = Cardinality(s) - 1
        BY <3>1, FS_RemoveElement
      <3> QED
        BY <3>1, <3>2
    <2>3. h \in [Up(n + 1) -> V]
      <3>1. \A s \in Up(n + 1) : s # {} => step[pick[s]][g[s \ {pick[s]}]] \in V
        BY <2>1, <2>2
      <3> HIDE DEF Up
      <3> QED
        BY <3>1
    <2>4. \A s \in Up(n) : s \in Up(n + 1) /\ h[s] = g[s]
      <3>1. \A s \in Up(n) : s \in Up(n + 1)
        BY <1>1
      <3> HIDE DEF Up
      <3> QED
        BY <2>1, <3>1
    <2>5. Good(h, n + 1)
      <3>1. \A s \in Up(n + 1) : s # {} => h[s \ {pick[s]}] = g[s \ {pick[s]}]
        BY <2>2, <2>4
      <3> HIDE DEF Up
      <3> QED
        BY <2>3, <3>1
    <2> QED
      BY <2>5
  <1> HIDE DEF B
  <1>5. B = {}
    <2> SUFFICES ASSUME B # {}
                 PROVE  FALSE
      OBVIOUS
    <2>1. B \in SUBSET Nat
      BY DEF B
    <2>2. PICK n \in B : \A m \in B : n <= m
      BY <2>1, LeastNumber
    <2>3. n \in Nat /\ n # 0
      BY <1>3, <2>1
    <2>4. n - 1 \in Nat /\ n - 1 \notin B /\ (n - 1) + 1 = n
      BY <2>1, <2>2, <2>3
    <2> QED
      BY <1>4, <2>4
  <1>6. Cardinality(D) \in Nat
    BY <1>1
  <1>7. PICK h : Good(h, Cardinality(D))
    BY <1>5, <1>6 DEF B
  <1>8. Up(Cardinality(D)) = SUBSET D
    BY FS_Subset
  <1> QED
    BY <1>7, <1>8 DEF Folds

\* Two folds over the same choices agree.
LEMMA FoldUnique ==
  ASSUME NEW D, IsFiniteSet(D), NEW E \in SUBSET D, NEW base,
         NEW pick, \A s \in SUBSET D : s # {} => pick[s] \in s, NEW step,
         NEW h, Folds(h, D, base, pick, step), NEW g, Folds(g, E, base, pick, step)
  PROVE  \A s \in SUBSET E : g[s] = h[s]
  <1> DEFINE B == {s \in SUBSET E : g[s] # h[s]}
  <1> SUFFICES ASSUME B # {}
               PROVE  FALSE
    OBVIOUS
  <1>1. IsFiniteSet(E) /\ B \in SUBSET (SUBSET E)
    BY FS_Subset
  <1> HIDE DEF B
  <1>2. PICK s \in B : \A x \in s : s \ {x} \notin B
    BY <1>1, SmallestSet
  <1>3. s \in SUBSET E /\ s \in SUBSET D /\ g[s] # h[s]
    BY <1>1, <1>2 DEF B
  <1>4. s # {}
    BY <1>3 DEF Folds
  <1>5. pick[s] \in s /\ s \ {pick[s]} \in SUBSET E
    BY <1>3, <1>4
  <1>6. g[s \ {pick[s]}] = h[s \ {pick[s]}]
    BY <1>2, <1>5 DEF B
  <1> QED
    BY <1>3, <1>4, <1>6 DEF Folds

\* A sum over a finite set of numbers is a number and takes any one of them out.
LEMMA SumFolds ==
  ASSUME NEW I, IsFiniteSet(I), NEW f, \A i \in I : f[i] \in Int
  PROVE  LET pick == [s \in SUBSET I |-> CHOOSE x \in s : TRUE]
             step == [x \in I |-> [v \in Int |-> f[x] + v]]
         IN  \E h \in [SUBSET I -> Int] :
                Folds(h, I, 0, pick, step) /\ SumFunctionOnSet(f, I) = h[I]
  <1> DEFINE pick == [s \in SUBSET I |-> CHOOSE x \in s : TRUE]
             step == [x \in I |-> [v \in Int |-> f[x] + v]]
             F(g) == [s \in SUBSET I |->
                         IF s = {} THEN 0
                         ELSE f[CHOOSE x \in s : TRUE] + g[s \ {CHOOSE x \in s : TRUE}]]
             iter == CHOOSE g : g = F(g)
  <1>1. SumFunctionOnSet(f, I) = iter[I]
    BY DEF SumFunctionOnSet, FoldFunctionOnSet, MapThenFoldSet
  <1>2. \A s \in SUBSET I : s # {} => pick[s] \in s
    OBVIOUS
  <1>3. \A x \in I, v \in Int : step[x][v] \in Int
    OBVIOUS
  <1>4. PICK h \in [SUBSET I -> Int] : Folds(h, I, 0, pick, step)
    <2> DEFINE V == Int
    <2>1. 0 \in V /\ \A x \in I, v \in V : step[x][v] \in V
      BY <1>3
    <2> HIDE DEF pick, step, V
    <2>2. \E h \in [SUBSET I -> V] : Folds(h, I, 0, pick, step)
      BY <1>2, <2>1, FoldExists
    <2> QED
      BY <2>2 DEF V
  <1>5. ASSUME NEW g, Folds(g, I, 0, pick, step), g \in [SUBSET I -> Int]
        PROVE  g = F(g)
    <2>1. ASSUME NEW s \in SUBSET I
          PROVE  g[s] = F(g)[s]
      <3> DEFINE x == CHOOSE x \in s : TRUE
      <3>1. s # {} => x \in I /\ pick[s] = x
        OBVIOUS
      <3>2. s # {} => g[s] = step[x][g[s \ {x}]]
        BY <1>5, <3>1 DEF Folds
      <3>3. s # {} => step[x][g[s \ {x}]] = f[x] + g[s \ {x}]
        BY <1>5, <3>1
      <3>4. s = {} => g[s] = 0
        BY <1>5 DEF Folds
      <3> QED
        BY <3>2, <3>3, <3>4
    <2> HIDE DEF pick, step
    <2> QED
      BY <1>5, <2>1
  <1>6. h = F(h)
    BY <1>4, <1>5
  <1>7. iter = F(iter)
    BY <1>6
  <1> HIDE DEF iter
  <1>8. iter = h
    <2> DEFINE B == {s \in SUBSET I : iter[s] # h[s]}
    <2> SUFFICES ASSUME B # {}
                 PROVE  FALSE
      BY <1>4, <1>7
    <2>1. PICK s \in B : \A x \in s : s \ {x} \notin B
      BY SmallestSet
    <2> DEFINE x == CHOOSE x \in s : TRUE
    <2>2. iter[s] = F(iter)[s] /\ h[s] = F(h)[s]
      BY <1>6, <1>7
    <2>3. s # {}
      BY <2>1, <2>2
    <2>4. x \in s /\ s \ {x} \in SUBSET I
      BY <2>3
    <2>5. iter[s \ {x}] = h[s \ {x}]
      BY <2>1, <2>4
    <2>6. iter[s] = f[x] + iter[s \ {x}] /\ h[s] = f[x] + h[s \ {x}]
      BY <2>2, <2>3
    <2> QED
      BY <2>1, <2>5, <2>6
  <1> QED
    BY <1>1, <1>4, <1>8

\* The sum over part of the places is what the same fold gives there.
LEMMA SumTakes ==
  ASSUME NEW I, IsFiniteSet(I), NEW f, \A i \in I : f[i] \in Int
  PROVE  /\ SumFunctionOnSet(f, {}) = 0
         /\ SumFunctionOnSet(f, I) \in Int
         /\ I # {} =>
               LET x == CHOOSE x \in I : TRUE
               IN  SumFunctionOnSet(f, I) = f[x] + SumFunctionOnSet(f, I \ {x})
  <1> DEFINE pick(J) == [s \in SUBSET J |-> CHOOSE x \in s : TRUE]
             step(J) == [x \in J |-> [v \in Int |-> f[x] + v]]
             Sums(h, J) == Folds(h, J, 0, pick(J), step(J)) /\ SumFunctionOnSet(f, J) = h[J]
  <1>1. ASSUME NEW J \in SUBSET I
        PROVE  \E h \in [SUBSET J -> Int] : Sums(h, J)
    <2>1. IsFiniteSet(J) /\ \A i \in J : f[i] \in Int
      BY FS_Subset
    <2> QED
      BY <2>1, SumFolds
  <1>2. PICK h \in [SUBSET I -> Int] : Sums(h, I)
    BY <1>1
  <1>3. ASSUME NEW J \in SUBSET I
        PROVE  SumFunctionOnSet(f, J) = h[J]
    <2>1. PICK g \in [SUBSET J -> Int] : Sums(g, J)
      BY <1>1
    <2>2. ASSUME NEW s \in SUBSET J
          PROVE  g[s] = IF s = {} THEN 0 ELSE step(I)[pick(I)[s]][g[s \ {pick(I)[s]}]]
      <3> DEFINE x == CHOOSE x \in s : TRUE
      <3>1. s # {} => x \in J /\ pick(I)[s] = x /\ pick(J)[s] = x /\ step(I)[x] = step(J)[x]
        OBVIOUS
      <3>2. s # {} => g[s] = step(J)[x][g[s \ {x}]]
        BY <2>1, <3>1 DEF Folds
      <3>3. s = {} => g[s] = 0
        BY <2>1 DEF Folds
      <3> QED
        BY <3>1, <3>2, <3>3
    <2>3. Folds(g, J, 0, pick(I), step(I))
      BY <2>2 DEF Folds
    <2>4. \A s \in SUBSET I : s # {} => pick(I)[s] \in s
      OBVIOUS
    <2>5. Folds(h, I, 0, pick(I), step(I))
      BY <1>2
    <2>6. SumFunctionOnSet(f, J) = g[J]
      BY <2>1
    <2> DEFINE P == pick(I)
               T == step(I)
    <2> HIDE DEF P, T
    <2>7. /\ Folds(g, J, 0, P, T) /\ Folds(h, I, 0, P, T)
          /\ \A s \in SUBSET I : s # {} => P[s] \in s
      BY <2>3, <2>4, <2>5 DEF P, T
    <2> HIDE DEF pick, step, Sums
    <2>8. \A s \in SUBSET J : g[s] = h[s]
      BY <2>7, FoldUnique
    <2> QED
      BY <2>6, <2>8
  <1>4. h[{}] = 0
    BY <1>2 DEF Folds
  <1>5. ASSUME I # {}
        PROVE  LET x == CHOOSE x \in I : TRUE IN h[I] = f[x] + h[I \ {x}]
    <2> DEFINE x == CHOOSE x \in I : TRUE
    <2>1. x \in I /\ pick(I)[I] = x
      BY <1>5
    <2>2. h[I] = step(I)[x][h[I \ {x}]]
      BY <1>2, <1>5, <2>1 DEF Folds
    <2> QED
      BY <2>1, <2>2
  <1> HIDE DEF pick, step, Sums
  <1> QED
    BY <1>3, <1>4, <1>5

\* Any number of a sum can be taken out of it.
LEMMA SumOne ==
  ASSUME NEW I, IsFiniteSet(I), NEW f, \A i \in I : f[i] \in Int, NEW x \in I
  PROVE  SumFunctionOnSet(f, I) = f[x] + SumFunctionOnSet(f, I \ {x})
  <1> DEFINE S(J) == SumFunctionOnSet(f, J)
             B == {J \in SUBSET I : \E y \in J : S(J) # f[y] + S(J \ {y})}
  <1>1. \A J \in SUBSET I : IsFiniteSet(J) /\ \A i \in J : f[i] \in Int
    BY FS_Subset
  <1>2. \A J \in SUBSET I : S(J) \in Int /\
           (J # {} => \E c \in J : S(J) = f[c] + S(J \ {c}))
    <2> TAKE J \in SUBSET I
    <2>1. J # {} => (CHOOSE c \in J : TRUE) \in J
      OBVIOUS
    <2> QED
      BY <1>1, <2>1, SumTakes
  <1> HIDE DEF S
  <1>3. B = {}
    <2> SUFFICES ASSUME B # {}
                 PROVE  FALSE
      OBVIOUS
    <2>1. PICK J \in B : \A z \in J : J \ {z} \notin B
      BY SmallestSet
    <2>2. J \in SUBSET I
      OBVIOUS
    <2>3. PICK y \in J : S(J) # f[y] + S(J \ {y})
      BY <2>1
    <2>4. PICK c \in J : S(J) = f[c] + S(J \ {c})
      BY <1>2, <2>3
    <2>5. c # y
      BY <2>3, <2>4
    <2>6. J \ {c} \in SUBSET I /\ J \ {y} \in SUBSET I /\ y \in J \ {c} /\ c \in J \ {y}
      BY <2>5
    <2>7. S(J \ {c}) = f[y] + S((J \ {c}) \ {y})
      BY <2>1, <2>6
    <2>8. S(J \ {y}) = f[c] + S((J \ {y}) \ {c})
      BY <2>1, <2>6
    <2>9. (J \ {c}) \ {y} = (J \ {y}) \ {c} /\ (J \ {y}) \ {c} \in SUBSET I
      OBVIOUS
    <2> DEFINE rest == (J \ {y}) \ {c}
    <2>10. S(rest) \in Int /\ f[y] \in Int /\ f[c] \in Int
      BY <1>1, <1>2, <2>2, <2>9
    <2>11. S(J \ {c}) = f[y] + S(rest) /\ S(J \ {y}) = f[c] + S(rest)
      BY <2>7, <2>8, <2>9
    <2> HIDE DEF rest
    <2> QED
      BY <2>3, <2>4, <2>10, <2>11
  <1> QED
    BY <1>3 DEF S

\* Equal numbers have equal sums.
LEMMA SumSame ==
  ASSUME NEW I, IsFiniteSet(I), NEW f, NEW g, \A i \in I : f[i] \in Int /\ f[i] = g[i]
  PROVE  SumFunctionOnSet(f, I) = SumFunctionOnSet(g, I)
  <1> DEFINE B == {J \in SUBSET I : SumFunctionOnSet(f, J) # SumFunctionOnSet(g, J)}
  <1> SUFFICES ASSUME B # {}
               PROVE  FALSE
    OBVIOUS
  <1>1. PICK J \in B : IsFiniteSet(J) /\ \A x \in J : J \ {x} \notin B
    BY SmallestSet
  <1>2. \A i \in J : f[i] \in Int /\ g[i] \in Int /\ f[i] = g[i]
    OBVIOUS
  <1>3. CASE J = {}
    <2>1. SumFunctionOnSet(f, {}) = 0 /\ SumFunctionOnSet(g, {}) = 0
      BY <1>1, <1>2, SumTakes
    <2> QED
      BY <1>1, <1>3, <2>1
  <1>4. CASE J # {}
    <2>1. PICK x \in J : TRUE
      BY <1>4
    <2>2. SumFunctionOnSet(f, J) = f[x] + SumFunctionOnSet(f, J \ {x})
      BY <1>1, <1>2, SumOne
    <2>3. SumFunctionOnSet(g, J) = g[x] + SumFunctionOnSet(g, J \ {x})
      BY <1>1, <1>2, SumOne
    <2>4. SumFunctionOnSet(f, J \ {x}) = SumFunctionOnSet(g, J \ {x})
      BY <1>1
    <2> QED
      BY <1>1, <1>2, <2>2, <2>3, <2>4
  <1> QED
    BY <1>3, <1>4

\* Changing one number by d changes the sum by d.
LEMMA SumChange ==
  ASSUME NEW I, IsFiniteSet(I), NEW f, NEW g, \A i \in I : f[i] \in Int /\ g[i] \in Int,
         NEW x \in I, \A i \in I \ {x} : f[i] = g[i], NEW d \in Int, f[x] = g[x] + d
  PROVE  SumFunctionOnSet(f, I) = SumFunctionOnSet(g, I) + d
  <1>1. SumFunctionOnSet(f, I) = f[x] + SumFunctionOnSet(f, I \ {x})
    BY SumOne
  <1>2. SumFunctionOnSet(g, I) = g[x] + SumFunctionOnSet(g, I \ {x})
    BY SumOne
  <1>3. IsFiniteSet(I \ {x}) /\ \A i \in I \ {x} : f[i] \in Int /\ g[i] \in Int
    BY FS_Subset
  <1>4. SumFunctionOnSet(f, I \ {x}) = SumFunctionOnSet(g, I \ {x})
    BY <1>3, SumSame
  <1>5. SumFunctionOnSet(g, I \ {x}) \in Int
    BY <1>3, SumTakes
  <1> QED
    BY <1>1, <1>2, <1>4, <1>5

\* The sum of zeros is zero.
LEMMA SumZero ==
  ASSUME NEW I, IsFiniteSet(I), NEW f, \A i \in I : f[i] = 0
  PROVE  SumFunctionOnSet(f, I) = 0
  <1> DEFINE B == {J \in SUBSET I : SumFunctionOnSet(f, J) # 0}
  <1> SUFFICES ASSUME B # {}
               PROVE  FALSE
    OBVIOUS
  <1>1. PICK J \in B : IsFiniteSet(J) /\ \A x \in J : J \ {x} \notin B
    BY SmallestSet
  <1>2. \A i \in J : f[i] \in Int /\ f[i] = 0
    OBVIOUS
  <1>3. CASE J = {}
    <2>1. SumFunctionOnSet(f, {}) = 0
      BY <1>1, <1>2, SumTakes
    <2> QED
      BY <1>1, <1>3, <2>1
  <1>4. CASE J # {}
    <2>1. PICK x \in J : TRUE
      BY <1>4
    <2>2. SumFunctionOnSet(f, J) = f[x] + SumFunctionOnSet(f, J \ {x})
      BY <1>1, <1>2, SumOne
    <2>3. SumFunctionOnSet(f, J \ {x}) = 0
      BY <1>1
    <2> QED
      BY <1>1, <1>2, <2>2, <2>3
  <1> QED
    BY <1>3, <1>4

\* The places of I whose key is k.
Having(I, key, k) == {i \in I : key[i] = k}

\* The sums of the parts add up to the sum of the whole.
LEMMA SumParts ==
  ASSUME NEW I, IsFiniteSet(I), NEW f, \A i \in I : f[i] \in Int,
         NEW K, IsFiniteSet(K), NEW key, \A i \in I : key[i] \in K
  PROVE  SumFunctionOnSet([k \in K |-> SumFunctionOnSet(f, Having(I, key, k))], K)
            = SumFunctionOnSet(f, I)
  <1> DEFINE P(J) == [k \in K |-> SumFunctionOnSet(f, Having(J, key, k))]
             B == {J \in SUBSET I : SumFunctionOnSet(P(J), K) # SumFunctionOnSet(f, J)}
  <1>1. \A J \in SUBSET I : \A k \in K :
           /\ IsFiniteSet(Having(J, key, k))
           /\ \A i \in Having(J, key, k) : f[i] \in Int
    BY FS_Subset DEF Having
  <1>2. \A J \in SUBSET I : \A k \in K : P(J)[k] \in Int
    BY <1>1, SumTakes
  <1> SUFFICES ASSUME B # {}
               PROVE  FALSE
    OBVIOUS
  <1>3. PICK J \in B : IsFiniteSet(J) /\ \A x \in J : J \ {x} \notin B
    BY SmallestSet
  <1>4. CASE J = {}
    <2>1. SumFunctionOnSet(f, {}) = 0
      BY SumTakes
    <2>2. \A k \in K : Having({}, key, k) = {}
      BY DEF Having
    <2>3. \A k \in K : P({})[k] = 0
      BY <2>1, <2>2
    <2> HIDE DEF P
    <2>4. SumFunctionOnSet(P({}), K) = 0
      BY <2>3, SumZero
    <2> QED
      BY <1>3, <1>4, <2>1, <2>4
  <1>5. CASE J # {}
    <2>1. PICK x \in J : TRUE
      BY <1>5
    <2> DEFINE J1 == J \ {x}
               m == key[x]
    <2>2. m \in K /\ f[x] \in Int /\ J \in SUBSET I /\ J1 \in SUBSET I
      OBVIOUS
    <2>3. \A i \in J : f[i] \in Int
      OBVIOUS
    <2>4. SumFunctionOnSet(f, J) = f[x] + SumFunctionOnSet(f, J1)
      BY <1>3, <2>3, SumOne, ZenonT(30)
    <2>5. SumFunctionOnSet(P(J1), K) = SumFunctionOnSet(f, J1)
      BY <1>3
    <2>6. \A k \in K \ {m} : Having(J, key, k) = Having(J1, key, k)
      BY DEF Having
    <2>7. x \in Having(J, key, m) /\ Having(J1, key, m) = Having(J, key, m) \ {x}
      BY DEF Having
    <2>8. SumFunctionOnSet(f, Having(J, key, m)) = f[x] + SumFunctionOnSet(f, Having(J, key, m) \ {x})
      BY <1>1, <2>2, <2>7, SumOne
    <2>9. SumFunctionOnSet(f, Having(J, key, m)) = f[x] + SumFunctionOnSet(f, Having(J1, key, m))
      BY <2>7, <2>8
    <2>10. SumFunctionOnSet(f, Having(J1, key, m)) \in Int
      BY <1>1, <2>2, SumTakes
    <2>11. P(J)[m] = P(J1)[m] + f[x]
      BY <2>2, <2>9, <2>10
    <2>12. \A k \in K \ {m} : P(J)[k] = P(J1)[k]
      BY <2>6
    <2>13. \A k \in K : P(J)[k] \in Int /\ P(J1)[k] \in Int
      BY <1>2, <2>2
    <2>14. SumFunctionOnSet(f, J1) \in Int
      <3>1. IsFiniteSet(J1)
        BY <1>3, FS_Subset
      <3> QED
        BY <2>3, <3>1, SumTakes
    <2>15. J \in B
      BY <1>3
    <2>16. SumFunctionOnSet(P(J), K) # SumFunctionOnSet(f, J)
      BY <2>15
    <2> HIDE DEF P, J1, m, B
    <2>17. SumFunctionOnSet(P(J), K) = SumFunctionOnSet(P(J1), K) + f[x]
      BY <2>2, <2>11, <2>12, <2>13, SumChange
    <2> QED
      BY <2>2, <2>4, <2>5, <2>14, <2>16, <2>17
  <1> QED
    BY <1>4, <1>5

\* Moving the numbers to other places keeps the sum.
LEMMA SumMoved ==
  ASSUME NEW I, IsFiniteSet(I), NEW f, \A i \in I : f[i] \in Int,
         NEW J, IsFiniteSet(J), NEW a, \A j \in J : a[j] \in I,
         \A i, j \in J : a[i] = a[j] => i = j, \A i \in I : \E j \in J : a[j] = i
  PROVE  SumFunctionOnSet([j \in J |-> f[a[j]]], J) = SumFunctionOnSet(f, I)
  <1> DEFINE g == [j \in J |-> f[a[j]]]
             Image(T) == {i \in I : \E j \in T : a[j] = i}
             B == {T \in SUBSET J : SumFunctionOnSet(g, T) # SumFunctionOnSet(f, Image(T))}
  <1>1. \A T \in SUBSET J : /\ IsFiniteSet(T) /\ IsFiniteSet(Image(T))
                            /\ \A j \in T : g[j] \in Int
                            /\ \A i \in Image(T) : f[i] \in Int
    BY FS_Subset
  <1>2. B = {}
    <2> SUFFICES ASSUME B # {}
                 PROVE  FALSE
      OBVIOUS
    <2>1. PICK T \in B : \A x \in T : T \ {x} \notin B
      BY SmallestSet
    <2>2. T \in SUBSET J
      OBVIOUS
    <2>3. SumFunctionOnSet(g, T) # SumFunctionOnSet(f, Image(T))
      BY <2>1
    <2>4. CASE T = {}
      <3>1. Image(T) = {}
        BY <2>4
      <3>2. SumFunctionOnSet(g, {}) = 0 /\ SumFunctionOnSet(f, {}) = 0
        BY <1>1, <2>2, SumTakes
      <3> QED
        BY <2>3, <2>4, <3>1, <3>2
    <2>5. CASE T # {}
      <3>1. PICK x \in T : TRUE
        BY <2>5
      <3>2. a[x] \in Image(T) /\ Image(T \ {x}) = Image(T) \ {a[x]} /\ T \ {x} \in SUBSET J
        BY <2>2
      <3>3. SumFunctionOnSet(g, T \ {x}) = SumFunctionOnSet(f, Image(T \ {x}))
        BY <2>1, <3>2
      <3>4. g[x] = f[a[x]] /\ g[x] \in Int
        BY <1>1, <2>2
      <3> HIDE DEF g, Image, B
      <3>5. SumFunctionOnSet(g, T) = g[x] + SumFunctionOnSet(g, T \ {x})
        BY <1>1, <2>2, SumOne
      <3>6. SumFunctionOnSet(f, Image(T)) = f[a[x]] + SumFunctionOnSet(f, Image(T) \ {a[x]})
        BY <1>1, <2>2, <3>2, SumOne
      <3> QED
        BY <2>3, <3>2, <3>3, <3>4, <3>5, <3>6
    <2> QED
      BY <2>4, <2>5
  <1>3. Image(J) = I
    OBVIOUS
  <1> QED
    BY <1>2, <1>3

\* As many as there are: ones add up to the size of a set.
LEMMA SumOnes ==
  ASSUME NEW I, IsFiniteSet(I), NEW f, \A i \in I : f[i] = 1
  PROVE  SumFunctionOnSet(f, I) = Cardinality(I)
  <1> DEFINE B == {J \in SUBSET I : SumFunctionOnSet(f, J) # Cardinality(J)}
  <1> SUFFICES ASSUME B # {}
               PROVE  FALSE
    OBVIOUS
  <1>1. PICK J \in B : IsFiniteSet(J) /\ \A x \in J : J \ {x} \notin B
    BY SmallestSet
  <1>2. \A i \in J : f[i] \in Int /\ f[i] = 1
    OBVIOUS
  <1>3. CASE J = {}
    <2>1. SumFunctionOnSet(f, {}) = 0 /\ Cardinality({}) = 0
      BY <1>1, <1>2, SumTakes, FS_EmptySet
    <2> QED
      BY <1>1, <1>3, <2>1
  <1>4. CASE J # {}
    <2>1. PICK x \in J : TRUE
      BY <1>4
    <2>2. SumFunctionOnSet(f, J) = f[x] + SumFunctionOnSet(f, J \ {x})
      BY <1>1, <1>2, SumOne
    <2>3. SumFunctionOnSet(f, J \ {x}) = Cardinality(J \ {x})
      BY <1>1
    <2>4. Cardinality(J \ {x}) = Cardinality(J) - 1 /\ Cardinality(J) \in Nat
      BY <1>1, FS_RemoveElement, FS_CardinalityType
    <2> QED
      BY <1>1, <1>2, <2>2, <2>3, <2>4
  <1> QED
    BY <1>3, <1>4

\* The sizes of the parts add up to the size of the whole.
LEMMA CountParts ==
  ASSUME NEW I, IsFiniteSet(I), NEW K, IsFiniteSet(K), NEW key, \A i \in I : key[i] \in K
  PROVE  SumFunctionOnSet([k \in K |-> Cardinality(Having(I, key, k))], K) = Cardinality(I)
  <1> DEFINE f == [i \in I |-> 1]
             p == [k \in K |-> SumFunctionOnSet(f, Having(I, key, k))]
  <1>1. \A i \in I : f[i] \in Int /\ f[i] = 1
    OBVIOUS
  <1>2. \A k \in K : IsFiniteSet(Having(I, key, k)) /\ \A i \in Having(I, key, k) : i \in I
    BY FS_Subset DEF Having
  <1> HIDE DEF f
  <1>3. \A k \in K : SumFunctionOnSet(f, Having(I, key, k)) = Cardinality(Having(I, key, k))
    BY <1>1, <1>2, SumOnes
  <1>4. p = [k \in K |-> Cardinality(Having(I, key, k))]
    BY <1>3
  <1>5. SumFunctionOnSet(p, K) = SumFunctionOnSet(f, I)
    BY <1>1, SumParts
  <1>6. SumFunctionOnSet(f, I) = Cardinality(I)
    BY <1>1, SumOnes
  <1> QED
    BY <1>4, <1>5, <1>6
=============================================================================
