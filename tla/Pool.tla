-------------------------------- MODULE Pool --------------------------------
(***************************************************************************)
(* The pool of internal/matching/match.go.  SplitPool turns the argument   *)
(* of engine.Run into two sorted sides; here that is the map book from ID  *)
(* to transaction, the position of each row in the sorted book (rank), and *)
(* the set of rows no pass has taken yet (open).  The passes take rows out *)
(* of the pool; book and rank never change after the split, just as the    *)
(* reference tables of the pool keep the matched rows.                     *)
(***************************************************************************)
EXTENDS Records

VARIABLES
    book,   \* ID -> transaction, every row of the run
    rank,   \* ID -> position in the sorted book
    open    \* IDs still in the pool

Ids == DOMAIN book
Expected == {i \in Ids : IsExpected(book[i])}
Actual == Ids \ Expected

OpenExpected == open \cap Expected
OpenActual == open \cap Actual

\* The position of each row of b in the sorted book.
RankOf(b) ==
    [i \in DOMAIN b |-> Cardinality({j \in DOMAIN b : Precedes(b[j], b[i])})]

\* i is the first row of S in pool order.
IsFirst(i, S) == i \in S /\ \A j \in S : rank[i] <= rank[j]
First(S) == CHOOSE i \in S : \A j \in S : rank[i] <= rank[j]

\* The rows of S that come after i in pool order.
After(S, i) == {j \in S : rank[i] < rank[j]}

\* Rows whose reference names the same record as row i (i among them).  This
\* is byRef[refOf(t)]: empty for a row without a reference.
SameRecord(i) == {j \in Ids : RefsAgree(book[j], book[i])}

(***************************************************************************)
(* Pool.RefConflict: one of the two rows carries a reference that names a  *)
(* different record on the other side of the whole book.                   *)
(***************************************************************************)
RefConflict(e, a) ==
    /\ ~RefsAgree(book[e], book[a])
    /\ \/ SameRecord(e) \cap Actual # {}
       \/ SameRecord(a) \cap Expected # {}

SumAmounts(S) == SumOf(book, S)
=============================================================================
