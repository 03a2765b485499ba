------------------------------- MODULE Tables -------------------------------
(***************************************************************************)
(* Rows as SQL and the loops of the plugin deliver them: WHERE keeps the   *)
(* rows that pass a test in the order they are in, ORDER BY sorts them and *)
(* leaves rows that compare equal in that order, LIMIT and OFFSET cut a    *)
(* page out of the result.                                                 *)
(*                                                                         *)
(* A place in the result is a rank, the number of members that come before,*)
(* instead of a step of a recursion, so that proofs can speak of it.       *)
(***************************************************************************)
EXTENDS Integers, Sequences, FiniteSetsExt

\* The members of S that come before i, and S as a sequence, in the order of R,
\* a set of pairs that orders S.
Ahead(i, S, R) == Cardinality({j \in S : <<j, i>> \in R})
Arranged(S, R) == [k \in 1 .. Cardinality(S) |-> CHOOSE i \in S : Ahead(i, S, R) = k - 1]

\* The rows of s at the places I, in the order of R.
RowsAt(s, I, R) ==
    LET places == Arranged(I, R)
    IN [k \in DOMAIN places |-> s[places[k]]]

Ascending(I) == {p \in I \X I : p[1] < p[2]}

\* SELECT ... WHERE.
Where(s, Test(_)) ==
    LET I == {i \in DOMAIN s : Test(s[i])}
    IN RowsAt(s, I, Ascending(I))

\* SELECT COUNT(*) ... WHERE.
Count(s, Test(_)) == Cardinality({i \in DOMAIN s : Test(s[i])})

\* ORDER BY, and sort.SliceStable.
OrderBy(s, Earlier(_, _)) ==
    LET I == DOMAIN s
        Comes(i, j) == \/ Earlier(s[i], s[j])
                       \/ ~Earlier(s[j], s[i]) /\ i < j
    IN RowsAt(s, I, {p \in I \X I : Comes(p[1], p[2])})

\* MUTANT of Slice: the offset counts one row too many once it is not zero.
SliceSkipping(s, offset, limit) ==
    SubSeq(s, (IF offset > 0 THEN offset + 1 ELSE 0) + 1, Min({offset + limit, Len(s)}))

\* LIMIT ... OFFSET.
Slice(s, offset, limit) ==
    SubSeq(s, Max({offset, 0}) + 1, Min({Max({offset, 0}) + limit, Len(s)}))
=============================================================================
