--------------------------- MODULE LoadOrderProofs ---------------------------
(***************************************************************************)
(* Theorem about load order: two runs over one book, loaded in any two     *)
(* orders, do the same to rows of the same content.                        *)
(*                                                                         *)
(* The rows that stand at one place of the two sorted books have the same  *)
(* content.  Such rows are twins; everything the engine decides it decides *)
(* alike for twins, so the two runs stay in step.                          *)
(***************************************************************************)
EXTENDS LoadOrder, MatchingProofs

-----------------------------------------------------------------------------
(* Twins *)

Rows1 == DOMAIN book1
Rows2 == DOMAIN book2

\* Two rows agree in every field the engine reads.
Same(t, u) ==
    /\ t.source = u.source /\ t.ref = u.ref /\ t.cp = u.cp
    /\ t.amount = u.amount /\ t.day = u.day /\ t.dir = u.dir
    /\ t.gross = u.gross /\ Content(t) = Content(u)

\* f maps each row of the first book to its twin in the second: the row at the
\* same place.
Paired(f) ==
    /\ IsFiniteSet(Rows1)
    /\ \A i \in Rows1 : f[i] \in Rows2
    /\ \A i, j \in Rows1 : f[i] = f[j] => i = j
    /\ \A k \in Rows2 : \E i \in Rows1 : f[i] = k
    /\ \A i \in Rows1 : /\ book1[i] \in Transaction
                        /\ book2[f[i]] \in Transaction
                        /\ Same(book1[i], book2[f[i]])
    /\ \A i \in Rows1 : rank1[i] \in Nat /\ rank2[f[i]] = rank1[i]
    /\ \A i, j \in Rows1 : rank1[i] = rank1[j] => i = j

\* B holds the twins of A.
Twins(f, A, B) ==
    /\ A \subseteq Rows1 /\ B \subseteq Rows2
    /\ \A i \in Rows1 : i \in A <=> f[i] \in B

\* Twins agree in all fields, which have their types.
LEMMA Fields ==
    ASSUME NEW f, Paired(f), NEW i \in Rows1
    PROVE  /\ f[i] \in Rows2
           /\ book2[f[i]].source = book1[i].source
           /\ book2[f[i]].ref = book1[i].ref
           /\ book2[f[i]].cp = book1[i].cp
           /\ book2[f[i]].amount = book1[i].amount
           /\ book2[f[i]].day = book1[i].day
           /\ book2[f[i]].dir = book1[i].dir
           /\ book2[f[i]].gross = book1[i].gross
           /\ rank2[f[i]] = rank1[i] /\ rank1[i] \in Nat
           /\ book1[i].amount \in Int /\ book1[i].day \in Int
           /\ book1[i].gross \in Int
<1>1. book1[i] \in Transaction /\ Same(book1[i], book2[f[i]])
    BY DEF Paired
<1>2. /\ book1[i].amount \in Int /\ book1[i].day \in Int
      /\ book1[i].gross \in Int
    BY <1>1 DEF Transaction
<1> QED
    BY <1>1, <1>2 DEF Paired, Same

\* Sets of twins are those whose members correspond, from either side.
LEMMA TwinsMade ==
    ASSUME NEW f, Paired(f), NEW A, NEW B, Twins(f, A, B)
    PROVE  /\ \A i \in A : i \in Rows1 /\ f[i] \in B
           /\ \A k \in B : \E i \in A : f[i] = k
           /\ B = {f[i] : i \in A}
           /\ A = {} <=> B = {}
<1>1. \A i \in A : i \in Rows1 /\ f[i] \in B
    BY DEF Twins
<1>2. \A k \in B : \E i \in A : f[i] = k
    BY DEF Twins, Paired
<1> QED
    BY <1>1, <1>2

\* They have as many members.
LEMMA TwinsCount ==
    ASSUME NEW f, Paired(f), NEW A, NEW B, Twins(f, A, B)
    PROVE  /\ IsFiniteSet(A) /\ IsFiniteSet(B)
           /\ Cardinality(A) = Cardinality(B)
<1> DEFINE g == [i \in A |-> f[i]]
<1>1. IsFiniteSet(A)
    BY FS_Subset DEF Paired, Twins
<1>2. g \in Bijection(A, B)
    <2>1. g \in [A -> B]
        BY TwinsMade
    <2>2. \A i, j \in A : g[i] = g[j] => i = j
        BY TwinsMade DEF Paired
    <2>3. \A k \in B : \E i \in A : g[i] = k
        BY TwinsMade
    <2> QED
        BY <2>1, <2>2, <2>3 DEF Bijection, Injection, Surjection, IsInjective
<1>3. ExistsBijection(A, B)
    BY <1>2 DEF ExistsBijection
<1> QED
    BY <1>1, <1>3, FS_Bijection

\* The two runs add up as one does.
LEMMA SumOneTwo ==
    ASSUME NEW b, NEW S
    PROVE  One!SumOf(b, S) = SumOf(b, S) /\ Two!SumOf(b, S) = SumOf(b, S)
BY DEF SumOf, MapThenSumSet, MapThenFoldSet,
       One!SumOf, One!MapThenSumSet, One!MapThenFoldSet,
       Two!SumOf, Two!MapThenSumSet, Two!MapThenFoldSet

\* And they count as one does.
LEMMA CountOneTwo ==
    ASSUME NEW S
    PROVE  One!Cardinality(S) = Cardinality(S) /\ Two!Cardinality(S) = Cardinality(S)
BY DEF Cardinality, One!Cardinality, Two!Cardinality

\* They add up to the same.
LEMMA TwinsSum ==
    ASSUME NEW f, Paired(f), NEW A, NEW B, Twins(f, A, B)
    PROVE  One!SumAmounts(A) = Two!SumAmounts(B)
<1> DEFINE v == [i \in Rows1 |-> book1[i].amount]
           w == [k \in Rows2 |-> book2[k].amount]
<1>1. /\ IsFiniteSet(A) /\ IsFiniteSet(B) /\ B = {f[i] : i \in A}
      /\ A \subseteq Rows1 /\ B \subseteq Rows2
    <2>1. IsFiniteSet(A) /\ IsFiniteSet(B)
        BY TwinsCount, Zenon
    <2>2. B = {f[i] : i \in A}
        BY TwinsMade, Zenon
    <2> QED
        BY <2>1, <2>2 DEF Twins
<1>2. \A i \in A : w[f[i]] \in Int /\ v[i] = w[f[i]]
    BY <1>1, Fields
<1>3. \A i, j \in A : f[i] = f[j] => i = j
    BY <1>1 DEF Paired
<1>4. (\A i \in A : v[i] = book1[i].amount) /\ \A k \in B : w[k] = book2[k].amount
    BY <1>1
<1> HIDE DEF v, w
<1>5. SumOf(book1, A) = Sum(v, A) /\ SumOf(book2, B) = Sum(w, B)
    BY <1>1, <1>4, SumOfRows
<1>6. Sum(v, A) = Sum(w, {f[i] : i \in A})
    BY <1>1, <1>2, <1>3, SumImage
<1>7. One!SumAmounts(A) = SumOf(book1, A) /\ Two!SumAmounts(B) = SumOf(book2, B)
    BY SumOneTwo DEF One!SumAmounts, Two!SumAmounts
<1> QED
    BY <1>1, <1>5, <1>6, <1>7

\* The first of one is the twin of the first of the other; what comes after it
\* are twins.
LEMMA TwinsFirst ==
    ASSUME NEW f, Paired(f), NEW A, NEW B, Twins(f, A, B)
    PROVE  /\ \A i \in Rows1 : One!IsFirst(i, A) <=> Two!IsFirst(f[i], B)
           /\ \A i \in Rows1 : Twins(f, One!After(A, i), Two!After(B, f[i]))
<1>1. ASSUME NEW i \in Rows1
      PROVE  One!IsFirst(i, A) <=> Two!IsFirst(f[i], B)
    <2>1. ASSUME One!IsFirst(i, A) PROVE Two!IsFirst(f[i], B)
        BY <2>1, TwinsMade, Fields DEF One!IsFirst, Two!IsFirst
    <2>2. ASSUME Two!IsFirst(f[i], B) PROVE One!IsFirst(i, A)
        <3>1. i \in A
            BY <2>2 DEF Two!IsFirst, Twins
        <3>2. \A j \in A : /\ j \in Rows1 /\ rank2[f[j]] = rank1[j]
                           /\ rank2[f[i]] <= rank2[f[j]]
            BY <2>2, TwinsMade, Fields DEF Two!IsFirst
        <3>3. rank2[f[i]] = rank1[i]
            BY Fields
        <3> QED
            BY <3>1, <3>2, <3>3 DEF One!IsFirst
    <2> QED
        BY <2>1, <2>2
<1>2. ASSUME NEW i \in Rows1
      PROVE  Twins(f, One!After(A, i), Two!After(B, f[i]))
    BY Fields DEF Twins, One!After, Two!After
<1> QED
    BY <1>1, <1>2

-----------------------------------------------------------------------------
(* Sets of twins combine *)

\* What two sets of twins have in common are twins.
LEMMA TwinsMeet ==
    ASSUME NEW f, NEW A, NEW B, Twins(f, A, B), NEW C, NEW D, Twins(f, C, D)
    PROVE  Twins(f, A \cap C, B \cap D)
BY DEF Twins

\* What two sets of twins hold together are twins.
LEMMA TwinsJoin ==
    ASSUME NEW f, NEW A, NEW B, Twins(f, A, B), NEW C, NEW D, Twins(f, C, D)
    PROVE  Twins(f, A \cup C, B \cup D)
BY DEF Twins

\* What is left of one set of twins without another are twins.
LEMMA TwinsLess ==
    ASSUME NEW f, Paired(f), NEW A, NEW B, Twins(f, A, B),
           NEW C, NEW D, Twins(f, C, D)
    PROVE  Twins(f, A \ C, B \ D)
BY DEF Twins, Paired

\* One set holds another if and only if the twins do.
LEMMA TwinsWithin ==
    ASSUME NEW f, Paired(f), NEW A, NEW B, Twins(f, A, B),
           NEW C, NEW D, Twins(f, C, D)
    PROVE  A \subseteq C <=> B \subseteq D
<1>1. ASSUME A \subseteq C PROVE B \subseteq D
    BY <1>1, TwinsMade
<1>2. ASSUME B \subseteq D PROVE A \subseteq C
    BY <1>2 DEF Twins
<1> QED
    BY <1>1, <1>2

\* Two sets are equal if and only if their twins are.
LEMMA TwinsEqual ==
    ASSUME NEW f, Paired(f), NEW A, NEW B, Twins(f, A, B),
           NEW C, NEW D, Twins(f, C, D)
    PROVE  A = C <=> B = D
<1>1. A \subseteq C <=> B \subseteq D
    BY TwinsWithin
<1>2. C \subseteq A <=> D \subseteq B
    BY TwinsWithin
<1> QED
    BY <1>1, <1>2

\* A set is empty if and only if its twins are.
LEMMA TwinsEmpty ==
    ASSUME NEW f, Paired(f), NEW A, NEW B, Twins(f, A, B)
    PROVE  A = {} <=> B = {}
BY TwinsMade

\* One row and its twin.
LEMMA TwinsOne ==
    ASSUME NEW f, Paired(f), NEW i \in Rows1
    PROVE  Twins(f, {i}, {f[i]})
BY DEF Paired, Twins

\* The two sides of the book.
LEMMA TwinSides ==
    ASSUME NEW f, Paired(f)
    PROVE  /\ Twins(f, Rows1, Rows2)
           /\ Twins(f, One!Expected, Two!Expected)
           /\ Twins(f, One!Actual, Two!Actual)
           /\ One!Ids = Rows1 /\ Two!Ids = Rows2
<1>1. One!Ids = Rows1 /\ Two!Ids = Rows2
    BY DEF One!Ids, Two!Ids, Rows1, Rows2
<1>2. Twins(f, Rows1, Rows2)
    BY DEF Paired, Twins
<1>3. Twins(f, One!Expected, Two!Expected)
    BY <1>1, Fields DEF Twins, One!Expected, Two!Expected, One!IsExpected, Two!IsExpected
<1> QED
    BY <1>1, <1>2, <1>3, TwinsLess DEF One!Actual, Two!Actual

\* What two rows have to do with each other, their twins have too.
LEMMA Relations ==
    ASSUME NEW f, Paired(f), NEW i \in Rows1, NEW j \in Rows1
    PROVE  /\ One!RefsAgree(book1[i], book1[j])
                  <=> Two!RefsAgree(book2[f[i]], book2[f[j]])
           /\ One!DayDiff(book1[i], book1[j]) = Two!DayDiff(book2[f[i]], book2[f[j]])
           /\ One!AmountDiff(i, j) = Two!AmountDiff(f[i], f[j])
<1>1. /\ book2[f[i]].ref = book1[i].ref /\ book2[f[i]].cp = book1[i].cp
      /\ book2[f[i]].amount = book1[i].amount /\ book2[f[i]].day = book1[i].day
      /\ book2[f[j]].ref = book1[j].ref /\ book2[f[j]].cp = book1[j].cp
      /\ book2[f[j]].amount = book1[j].amount /\ book2[f[j]].day = book1[j].day
    BY Fields
<1>2. One!RefsAgree(book1[i], book1[j])
          <=> Two!RefsAgree(book2[f[i]], book2[f[j]])
    BY <1>1 DEF One!RefsAgree, Two!RefsAgree, One!NoRef, Two!NoRef
<1>3. One!DayDiff(book1[i], book1[j]) = Two!DayDiff(book2[f[i]], book2[f[j]])
    BY <1>1 DEF One!DayDiff, Two!DayDiff, One!AbsDiff, Two!AbsDiff
<1>4. One!AmountDiff(i, j) = Two!AmountDiff(f[i], f[j])
    BY <1>1 DEF One!AmountDiff, Two!AmountDiff, One!AbsDiff, Two!AbsDiff
<1> QED
    BY <1>2, <1>3, <1>4

\* Rows of one record.
LEMMA TwinRecords ==
    ASSUME NEW f, Paired(f), NEW i \in Rows1
    PROVE  Twins(f, One!SameRecord(i), Two!SameRecord(f[i]))
<1>1. One!Ids = Rows1 /\ Two!Ids = Rows2
    BY TwinSides
<1>2. \A j \in Rows1 : One!RefsAgree(book1[j], book1[i])
                           <=> Two!RefsAgree(book2[f[j]], book2[f[i]])
    BY Relations
<1>3. \A j \in Rows1 : f[j] \in Rows2
    BY Fields
<1> QED
    BY <1>1, <1>2, <1>3 DEF Twins, One!SameRecord, Two!SameRecord

\* Twins are in the same conflicts.
LEMMA TwinConflicts ==
    ASSUME NEW f, Paired(f), NEW i \in Rows1, NEW j \in Rows1
    PROVE  One!RefConflict(i, j) <=> Two!RefConflict(f[i], f[j])
<1>1. /\ Twins(f, One!SameRecord(i), Two!SameRecord(f[i]))
      /\ Twins(f, One!SameRecord(j), Two!SameRecord(f[j]))
      /\ Twins(f, One!Expected, Two!Expected)
      /\ Twins(f, One!Actual, Two!Actual)
    BY TwinRecords, TwinSides
<1>2. /\ Twins(f, One!SameRecord(i) \cap One!Actual, Two!SameRecord(f[i]) \cap Two!Actual)
      /\ Twins(f, One!SameRecord(j) \cap One!Expected, Two!SameRecord(f[j]) \cap Two!Expected)
    BY <1>1, TwinsMeet
<1>3. /\ One!SameRecord(i) \cap One!Actual = {} <=> Two!SameRecord(f[i]) \cap Two!Actual = {}
      /\ One!SameRecord(j) \cap One!Expected = {} <=> Two!SameRecord(f[j]) \cap Two!Expected = {}
    BY <1>2, TwinsEmpty
<1>4. One!RefsAgree(book1[i], book1[j])
          <=> Two!RefsAgree(book2[f[i]], book2[f[j]])
    BY Relations
<1> QED
    BY <1>3, <1>4 DEF One!RefConflict, Two!RefConflict

-----------------------------------------------------------------------------
(* The passes accept alike *)

\* The pools of the two runs hold twins.
InPool(f) == Paired(f) /\ Twins(f, open1, open2)

\* The open rows of each side.
LEMMA TwinPools ==
    ASSUME NEW f, InPool(f)
    PROVE  /\ Paired(f)
           /\ Twins(f, open1, open2)
           /\ Twins(f, One!OpenExpected, Two!OpenExpected)
           /\ Twins(f, One!OpenActual, Two!OpenActual)
<1>1. Paired(f) /\ Twins(f, open1, open2)
    BY DEF InPool
<1>2. /\ Twins(f, One!Expected, Two!Expected)
      /\ Twins(f, One!Actual, Two!Actual)
    BY <1>1, TwinSides
<1> QED
    BY <1>1, <1>2, TwinsMeet DEF One!OpenExpected, Two!OpenExpected,
                                 One!OpenActual, Two!OpenActual

\* What the exact pass accepts for a row.
LEMMA TwinFits ==
    ASSUME NEW f, InPool(f), NEW e \in Rows1
    PROVE  Twins(f, One!ExactFits(e), Two!ExactFits(f[e]))
<1>1. Paired(f) /\ Twins(f, One!OpenActual, Two!OpenActual)
    BY TwinPools
<1>2. \A a \in Rows1 :
          /\ One!RefsAgree(book1[e], book1[a]) <=> Two!RefsAgree(book2[f[e]], book2[f[a]])
          /\ One!DayDiff(book1[a], book1[e]) = Two!DayDiff(book2[f[a]], book2[f[e]])
    BY <1>1, Relations
<1>3. \A a \in Rows1 : /\ book2[f[a]].amount = book1[a].amount
                       /\ book2[f[a]].dir = book1[a].dir
    BY <1>1, Fields
<1> QED
    BY <1>1, <1>2, <1>3 DEF Twins, One!ExactFits, Two!ExactFits

\* The rows the exact pass can pair are twins.
LEMMA TwinExactRows ==
    ASSUME NEW f, InPool(f)
    PROVE  Twins(f, One!ExactRows, Two!ExactRows)
<1>1. Paired(f) /\ Twins(f, One!OpenExpected, Two!OpenExpected)
    BY TwinPools
<1>2. \A e \in Rows1 : Twins(f, One!ExactFits(e), Two!ExactFits(f[e]))
    BY TwinFits
<1>3. \A e \in Rows1 : One!ExactFits(e) = {} <=> Two!ExactFits(f[e]) = {}
    BY <1>1, <1>2, TwinsEmpty
<1> QED
    BY <1>1, <1>3 DEF Twins, One!ExactRows, Two!ExactRows

\* What the split pass accepts.
LEMMA TwinParts ==
    ASSUME NEW f, InPool(f), NEW e \in Rows1
    PROVE  Twins(f, One!SplitParts(e), Two!SplitParts(f[e]))
<1>1. Paired(f) /\ Twins(f, One!OpenActual, Two!OpenActual)
    BY TwinPools
<1>2. \A a \in Rows1 :
          /\ One!RefsAgree(book1[e], book1[a]) <=> Two!RefsAgree(book2[f[e]], book2[f[a]])
          /\ One!DayDiff(book1[a], book1[e]) = Two!DayDiff(book2[f[a]], book2[f[e]])
    BY <1>1, Relations
<1>3. \A a \in Rows1 : /\ book2[f[a]].source = book1[a].source
                       /\ book2[f[a]].dir = book1[a].dir
    BY <1>1, Fields
<1> QED
    BY <1>1, <1>2, <1>3 DEF Twins, One!SplitParts, Two!SplitParts

\* A split fits a row if and only if one fits its twin.
LEMMA TwinSplitFits ==
    ASSUME NEW f, InPool(f), NEW e \in Rows1
    PROVE  One!SplitFits(e) <=> Two!SplitFits(f[e])
<1>1. Paired(f) /\ Twins(f, One!OpenExpected, Two!OpenExpected)
    BY TwinPools
<1>2. Twins(f, One!SplitParts(e), Two!SplitParts(f[e]))
    BY TwinParts
<1>3. /\ Cardinality(One!SplitParts(e)) = Cardinality(Two!SplitParts(f[e]))
      /\ One!SumAmounts(One!SplitParts(e)) = Two!SumAmounts(Two!SplitParts(f[e]))
    BY <1>1, <1>2, TwinsCount, TwinsSum
<1> DEFINE A == One!SameRecord(e) \cap One!OpenExpected
           B == Two!SameRecord(f[e]) \cap Two!OpenExpected
           C == {e}
           D == {f[e]}
<1>4. A = C <=> B = D
    <2>1. Twins(f, One!SameRecord(e), Two!SameRecord(f[e])) /\ Twins(f, C, D)
        BY <1>1, TwinRecords, TwinsOne
    <2>2. Twins(f, A, B)
        BY <1>1, <2>1, TwinsMeet
    <2> HIDE DEF A, B, C, D
    <2> QED
        BY <1>1, <2>1, <2>2, TwinsEqual
<1>5. book2[f[e]].ref = book1[e].ref /\ book2[f[e]].amount = book1[e].amount
    BY <1>1, Fields
<1>6. /\ One!SplitFits(e) <=>
            /\ book1[e].ref # 0
            /\ A = C
            /\ Cardinality(One!SplitParts(e)) >= 2
            /\ One!SumAmounts(One!SplitParts(e)) = book1[e].amount
      /\ Two!SplitFits(f[e]) <=>
            /\ book2[f[e]].ref # 0
            /\ B = D
            /\ Cardinality(Two!SplitParts(f[e])) >= 2
            /\ Two!SumAmounts(Two!SplitParts(f[e])) = book2[f[e]].amount
    BY CountOneTwo DEF One!SplitFits, Two!SplitFits, One!NoRef, Two!NoRef
<1> HIDE DEF A, B, C, D
<1> QED
    BY <1>3, <1>4, <1>5, <1>6

\* The rows the split pass can match are twins.
LEMMA TwinSplitRows ==
    ASSUME NEW f, InPool(f)
    PROVE  Twins(f, One!SplitRows, Two!SplitRows)
<1>1. Twins(f, One!OpenExpected, Two!OpenExpected)
    BY TwinPools
<1>2. \A e \in Rows1 : One!SplitFits(e) <=> Two!SplitFits(f[e])
    BY TwinSplitFits
<1> QED
    BY <1>1, <1>2 DEF Twins, One!SplitRows, Two!SplitRows

\* Candidate pairs and their evidence.
LEMMA TwinCandidates ==
    ASSUME NEW f, Paired(f), NEW i \in Rows1, NEW j \in Rows1
    PROVE  /\ One!BankEdge(i, j) <=> Two!BankEdge(f[i], f[j])
           /\ One!ReversalEdge(i, j) <=> Two!ReversalEdge(f[i], f[j])
           /\ One!Tier(i, j) = Two!Tier(f[i], f[j])
           /\ \A t : One!Candidate(i, j, t) <=> Two!Candidate(f[i], f[j], t)
<1>1. /\ Twins(f, One!Expected, Two!Expected)
      /\ Twins(f, One!Actual, Two!Actual)
    BY TwinSides
<1>2. /\ One!RefsAgree(book1[i], book1[j]) <=> Two!RefsAgree(book2[f[i]], book2[f[j]])
      /\ One!DayDiff(book1[j], book1[i]) = Two!DayDiff(book2[f[j]], book2[f[i]])
      /\ One!AmountDiff(i, j) = Two!AmountDiff(f[i], f[j])
      /\ One!RefConflict(i, j) <=> Two!RefConflict(f[i], f[j])
    BY Relations, TwinConflicts
<1>3. /\ book2[f[i]].ref = book1[i].ref /\ book2[f[i]].cp = book1[i].cp
      /\ book2[f[i]].amount = book1[i].amount /\ book2[f[i]].dir = book1[i].dir
      /\ book2[f[j]].ref = book1[j].ref /\ book2[f[j]].cp = book1[j].cp
      /\ book2[f[j]].amount = book1[j].amount /\ book2[f[j]].dir = book1[j].dir
      /\ book2[f[j]].source = book1[j].source
    BY Fields
<1>4. j \in One!Actual <=> f[j] \in Two!Actual
    BY <1>1 DEF Twins
<1>5. j \in One!Expected <=> f[j] \in Two!Expected
    BY <1>1 DEF Twins
<1>6. One!BankEdge(i, j) <=> Two!BankEdge(f[i], f[j])
    BY <1>2, <1>3, <1>4 DEF One!BankEdge, Two!BankEdge, One!TolerantLimit, Two!TolerantLimit
<1>7. One!ReversalEdge(i, j) <=> Two!ReversalEdge(f[i], f[j])
    BY <1>2, <1>3, <1>5 DEF One!ReversalEdge, Two!ReversalEdge, One!NoRef, Two!NoRef
<1>8. One!Tier(i, j) = Two!Tier(f[i], f[j])
    BY <1>2 DEF One!Tier, Two!Tier, One!TierRef, Two!TierRef, One!TierAmount, Two!TierAmount,
                One!TierTolerance, Two!TierTolerance
<1> QED
    BY <1>6, <1>7, <1>8 DEF One!Candidate, Two!Candidate

\* Sets of pairs that correspond.
TwinPairs(f, P, Q) ==
    /\ P \subseteq Rows1 \X Rows1 /\ Q \subseteq Rows2 \X Rows2
    /\ \A i, j \in Rows1 : <<i, j>> \in P <=> <<f[i], f[j]>> \in Q

\* The candidate pairs of a tier.
LEMMA TwinEdges ==
    ASSUME NEW f, InPool(f), NEW t
    PROVE  TwinPairs(f, One!Edges(t), Two!Edges(t))
<1>1. /\ Paired(f)
      /\ Twins(f, open1, open2)
      /\ Twins(f, One!OpenExpected, Two!OpenExpected)
    BY TwinPools
<1>2. \A i, j \in Rows1 : One!Candidate(i, j, t) <=> Two!Candidate(f[i], f[j], t)
    BY <1>1, TwinCandidates
<1>3. /\ One!Edges(t) \subseteq Rows1 \X Rows1
      /\ Two!Edges(t) \subseteq Rows2 \X Rows2
    BY <1>1 DEF One!Edges, Two!Edges, Twins
<1>4. ASSUME NEW i \in Rows1, NEW j \in Rows1
      PROVE  <<i, j>> \in One!Edges(t) <=> <<f[i], f[j]>> \in Two!Edges(t)
    <2>1. <<i, j>> \in One!Edges(t)
              <=> i \in One!OpenExpected /\ j \in open1 /\ One!Candidate(i, j, t)
        BY DEF One!Edges
    <2>2. <<f[i], f[j]>> \in Two!Edges(t)
              <=> f[i] \in Two!OpenExpected /\ f[j] \in open2 /\ Two!Candidate(f[i], f[j], t)
        BY DEF Two!Edges
    <2> QED
        BY <1>1, <1>2, <2>1, <2>2 DEF Twins
<1> QED
    BY <1>3, <1>4 DEF TwinPairs

\* The rows on such pairs, and the pairs a row is on.
LEMMA TwinRowsOn ==
    ASSUME NEW f, Paired(f), NEW P, NEW Q, TwinPairs(f, P, Q)
    PROVE  Twins(f, One!RowsOn(P), Two!RowsOn(Q))
<1>1. /\ \A i, j \in Rows1 : <<i, j>> \in P <=> <<f[i], f[j]>> \in Q
      /\ P \subseteq Rows1 \X Rows1 /\ Q \subseteq Rows2 \X Rows2
    BY DEF TwinPairs
<1>2. /\ \A p \in P : p[1] \in Rows1 /\ p[2] \in Rows1 /\ p = <<p[1], p[2]>>
      /\ \A q \in Q : q[1] \in Rows2 /\ q[2] \in Rows2 /\ q = <<q[1], q[2]>>
    BY <1>1
<1>3. /\ \A i : i \in One!RowsOn(P) <=> \E p \in P : i = p[1] \/ i = p[2]
      /\ \A i : i \in Two!RowsOn(Q) <=> \E q \in Q : i = q[1] \/ i = q[2]
    BY DEF One!RowsOn, Two!RowsOn
<1>4. One!RowsOn(P) \subseteq Rows1 /\ Two!RowsOn(Q) \subseteq Rows2
    BY <1>1 DEF One!RowsOn, Two!RowsOn
<1>5. /\ \A i \in Rows1 : f[i] \in Rows2
      /\ \A k \in Rows2 : \E i \in Rows1 : f[i] = k
      /\ \A i, j \in Rows1 : f[i] = f[j] => i = j
    BY DEF Paired
<1>6. ASSUME NEW i \in Rows1
      PROVE  i \in One!RowsOn(P) <=> f[i] \in Two!RowsOn(Q)
    <2>1. ASSUME i \in One!RowsOn(P) PROVE f[i] \in Two!RowsOn(Q)
        <3>1. PICK p \in P : i = p[1] \/ i = p[2]
            BY <1>3, <2>1
        <3>2. <<f[p[1]], f[p[2]]>> \in Q
            BY <1>1, <1>2
        <3>3. /\ <<f[p[1]], f[p[2]]>>[1] = f[p[1]]
              /\ <<f[p[1]], f[p[2]]>>[2] = f[p[2]]
            OBVIOUS
        <3> QED
            BY <1>3, <3>1, <3>2, <3>3
    <2>2. ASSUME f[i] \in Two!RowsOn(Q) PROVE i \in One!RowsOn(P)
        <3>1. PICK q \in Q : f[i] = q[1] \/ f[i] = q[2]
            BY <1>3, <2>2
        <3>2. PICK m \in Rows1, n \in Rows1 : f[m] = q[1] /\ f[n] = q[2]
            BY <1>2, <1>5
        <3>3. <<m, n>> \in P /\ (i = m \/ i = n)
            BY <1>1, <1>2, <1>5, <3>1, <3>2
        <3>4. <<m, n>>[1] = m /\ <<m, n>>[2] = n
            OBVIOUS
        <3> QED
            BY <1>3, <3>3, <3>4
    <2> QED
        BY <2>1, <2>2
<1> QED
    BY <1>4, <1>6 DEF Twins

\* Twins have as many edges.
LEMMA TwinDegrees ==
    ASSUME NEW f, Paired(f), NEW P, NEW Q, TwinPairs(f, P, Q), NEW i \in Rows1
    PROVE  One!Degree(P, i) = Two!Degree(Q, f[i])
<1> DEFINE A == {p \in P : i \in {p[1], p[2]}}
           B == {q \in Q : f[i] \in {q[1], q[2]}}
           g == [p \in A |-> <<f[p[1]], f[p[2]]>>]
<1>1. /\ \A m, n \in Rows1 : <<m, n>> \in P <=> <<f[m], f[n]>> \in Q
      /\ P \subseteq Rows1 \X Rows1 /\ Q \subseteq Rows2 \X Rows2
    BY DEF TwinPairs
<1>2. /\ \A m \in Rows1 : f[m] \in Rows2
      /\ \A m, n \in Rows1 : f[m] = f[n] => m = n
      /\ \A k \in Rows2 : \E m \in Rows1 : f[m] = k
      /\ IsFiniteSet(Rows1)
    BY DEF Paired
<1>3. IsFiniteSet(A)
    <2>1. IsFiniteSet(Rows1 \X Rows1)
        BY <1>2, FS_Product
    <2>2. A \subseteq Rows1 \X Rows1
        BY <1>1
    <2> QED
        BY <2>1, <2>2, FS_Subset
<1>4. g \in Bijection(A, B)
    <2>1. \A p \in A : /\ p[1] \in Rows1 /\ p[2] \in Rows1 /\ p = <<p[1], p[2]>>
                       /\ g[p] = <<f[p[1]], f[p[2]]>> /\ i \in {p[1], p[2]}
        BY <1>1
    <2>2. \A p \in A : g[p] \in B
        BY <1>1, <2>1
    <2>3. ASSUME NEW p \in A, NEW q \in A, g[p] = g[q]
          PROVE  p = q
        <3>1. f[p[1]] = f[q[1]] /\ f[p[2]] = f[q[2]]
            BY <2>1, <2>3
        <3>2. /\ p[1] \in Rows1 /\ p[2] \in Rows1
              /\ q[1] \in Rows1 /\ q[2] \in Rows1
            BY <2>1
        <3>3. \A m, n \in Rows1 : f[m] = f[n] => m = n
            BY <1>2
        <3>4. p[1] = q[1] /\ p[2] = q[2]
            BY <3>1, <3>2, <3>3
        <3> QED
            BY <2>1, <3>4
    <2>4. ASSUME NEW q \in B
          PROVE  \E p \in A : g[p] = q
        <3>1. q[1] \in Rows2 /\ q[2] \in Rows2 /\ q = <<q[1], q[2]>>
            BY <1>1
        <3>2. PICK m \in Rows1, n \in Rows1 : f[m] = q[1] /\ f[n] = q[2]
            BY <1>2, <3>1
        <3>3. <<m, n>> \in P
            BY <1>1, <3>1, <3>2
        <3>4. i \in {m, n}
            BY <1>2, <3>2
        <3>5. <<m, n>> \in A
            BY <3>3, <3>4
        <3> QED
            BY <2>1, <3>1, <3>2, <3>5
    <2>5. g \in [A -> B]
        BY <2>2
    <2> QED
        BY <2>3, <2>4, <2>5 DEF Bijection, Injection, Surjection, IsInjective
<1>5. Cardinality(A) = Cardinality(B)
    <2>1. ExistsBijection(A, B)
        BY <1>4 DEF ExistsBijection
    <2> QED
        BY <1>3, <2>1, FS_Bijection
<1>6. One!Degree(P, i) = Cardinality(A) /\ Two!Degree(Q, f[i]) = Cardinality(B)
    BY CountOneTwo DEF One!Degree, Two!Degree
<1> QED
    BY <1>5, <1>6

\* Rivals, and the score of a pair.
LEMMA TwinRivals ==
    ASSUME NEW f, InPool(f), NEW e \in Rows1, NEW a \in Rows1
    PROVE  One!RivalFree(e, a) <=> Two!RivalFree(f[e], f[a])
<1>1. /\ Paired(f)
      /\ Twins(f, One!OpenExpected, Two!OpenExpected)
      /\ Twins(f, One!OpenActual, Two!OpenActual)
    BY TwinPools
<1>2. /\ Twins(f, One!OpenActual \ {a}, Two!OpenActual \ {f[a]})
      /\ Twins(f, One!OpenExpected \ {e}, Two!OpenExpected \ {f[e]})
    BY <1>1, TwinsOne, TwinsLess
<1>3. \A j \in Rows1 : /\ book2[f[j]].source = book1[j].source
                       /\ book2[f[j]].cp = book1[j].cp
                       /\ book2[f[j]].dir = book1[j].dir
                       /\ book2[f[j]].amount = book1[j].amount
    BY <1>1, Fields
<1>4. \A x, y \in Rows1 : One!RivalOf(e, x, y) <=> Two!RivalOf(f[e], f[x], f[y])
    <2>1. \A x, y \in Rows1 : One!DayDiff(book1[x], book1[y])
                                  = Two!DayDiff(book2[f[x]], book2[f[y]])
        BY <1>1, Relations
    <2> QED
        BY <1>3, <2>1 DEF One!RivalOf, Two!RivalOf
<1>5. \A x, y \in Rows1 : One!RefConflict(x, y) <=> Two!RefConflict(f[x], f[y])
    BY <1>1, TwinConflicts
<1> DEFINE bank1(j) == (book1[j].source = "bank" /\ One!RivalOf(e, j, e))
                           => One!RefConflict(e, j)
           bank2(k) == (book2[k].source = "bank" /\ Two!RivalOf(f[e], k, f[e]))
                           => Two!RefConflict(f[e], k)
           exp1(x) == One!RivalOf(e, x, a) => One!RefConflict(x, a)
           exp2(x) == Two!RivalOf(f[e], x, f[a]) => Two!RefConflict(x, f[a])
<1>6. \A j \in Rows1 : (bank1(j) <=> bank2(f[j])) /\ (exp1(j) <=> exp2(f[j]))
    BY <1>3, <1>4, <1>5
<1>7. /\ One!RivalFree(e, a) <=> /\ \A j \in One!OpenActual \ {a} : bank1(j)
                                 /\ \A x \in One!OpenExpected \ {e} : exp1(x)
      /\ Two!RivalFree(f[e], f[a]) <=>
             /\ \A j \in Two!OpenActual \ {f[a]} : bank2(j)
             /\ \A x \in Two!OpenExpected \ {f[e]} : exp2(x)
    BY DEF One!RivalFree, Two!RivalFree
<1> HIDE DEF bank1, bank2, exp1, exp2
<1> DEFINE A == One!OpenActual \ {a}
           B == Two!OpenActual \ {f[a]}
           C == One!OpenExpected \ {e}
           D == Two!OpenExpected \ {f[e]}
<1>8. Twins(f, A, B) /\ Twins(f, C, D)
    BY <1>2
<1> HIDE DEF A, B, C, D
<1>9. /\ (\A j \in A : bank1(j)) <=> \A j \in B : bank2(j)
      /\ (\A x \in C : exp1(x)) <=> \A x \in D : exp2(x)
    <2>1. /\ \A i \in A : i \in Rows1 /\ f[i] \in B
          /\ \A k \in B : \E i \in A : f[i] = k
          /\ \A i \in C : i \in Rows1 /\ f[i] \in D
          /\ \A k \in D : \E i \in C : f[i] = k
        BY <1>1, <1>8, TwinsMade
    <2> QED
        BY <1>6, <2>1
<1> QED
    BY <1>7, <1>9 DEF A, B, C, D

\* Pairs of twins score alike.
LEMMA TwinScores ==
    ASSUME NEW f, Paired(f), NEW e \in Rows1, NEW o \in Rows1
    PROVE  One!Score(e, o) = Two!Score(f[e], f[o])
<1>1. /\ One!DayDiff(book1[e], book1[o]) = Two!DayDiff(book2[f[e]], book2[f[o]])
      /\ One!AmountDiff(e, o) = Two!AmountDiff(f[e], f[o])
    BY Relations
<1>2. book2[f[e]].amount = book1[e].amount
    BY Fields
<1> QED
    BY <1>1, <1>2 DEF One!Score, Two!Score, One!FullScore, Two!FullScore,
                      One!BasisPoints, Two!BasisPoints

\* What the tolerant pass accepts for the row it visits.
LEMMA TwinAccepts ==
    ASSUME NEW f, InPool(f), TwinPairs(f, edges1, edges2),
           NEW e \in Rows1, NEW o \in Rows1
    PROVE  One!Accepts(edges1, e, o) <=> Two!Accepts(edges2, f[e], f[o])
<1>1. Paired(f) /\ Twins(f, open1, open2)
    BY TwinPools
<1>2. <<e, o>> \in edges1 <=> <<f[e], f[o]>> \in edges2
    BY DEF TwinPairs
<1>3. {e, o} \subseteq open1 <=> {f[e], f[o]} \subseteq open2
    BY <1>1 DEF Twins
<1>4. /\ One!Degree(edges1, e) = Two!Degree(edges2, f[e])
      /\ One!Degree(edges1, o) = Two!Degree(edges2, f[o])
    BY <1>1, TwinDegrees
<1>5. One!Tier(e, o) = Two!Tier(f[e], f[o])
    BY <1>1, TwinCandidates
<1>6. o \in One!Actual <=> f[o] \in Two!Actual
    BY <1>1, TwinSides DEF Twins
<1>7. One!RivalFree(e, o) <=> Two!RivalFree(f[e], f[o])
    BY TwinRivals
<1> QED
    BY <1>2, <1>3, <1>4, <1>5, <1>6, <1>7
       DEF One!Accepts, Two!Accepts, One!TierRef, Two!TierRef,
           One!TierAmount, Two!TierAmount

\* The rows a tolerant pass may pair with twins are twins.
LEMMA TwinPartners ==
    ASSUME NEW f, InPool(f), TwinPairs(f, edges1, edges2), NEW e \in Rows1
    PROVE  Twins(f, One!Pairs(e), Two!Pairs(f[e]))
<1>1. Paired(f) /\ Twins(f, open1, open2)
    BY TwinPools
<1>2. \A o \in Rows1 : One!Accepts(edges1, e, o) <=> Two!Accepts(edges2, f[e], f[o])
    BY TwinAccepts
<1> QED
    BY <1>1, <1>2 DEF Twins, One!Pairs, Two!Pairs

\* The rows of which a tolerant pass takes a pair are twins.
LEMMA TwinPairRows ==
    ASSUME NEW f, InPool(f), TwinPairs(f, edges1, edges2), Twins(f, walk1, walk2)
    PROVE  Twins(f, One!PairRows, Two!PairRows)
<1>1. \A e \in Rows1 : Twins(f, One!Pairs(e), Two!Pairs(f[e]))
    BY TwinPartners
<1>2. \A e \in Rows1 : One!Pairs(e) = {} <=> Two!Pairs(f[e]) = {}
    BY <1>1, TwinsEmpty DEF InPool
<1> QED
    BY <1>2 DEF Twins, One!PairRows, Two!PairRows

\* The payouts of the group pass, and the orders each is searched among.
LEMMA TwinPayouts ==
    ASSUME NEW f, InPool(f)
    PROVE  Twins(f, One!Payouts, Two!Payouts)
<1>1. Paired(f) /\ Twins(f, One!OpenActual, Two!OpenActual)
    BY TwinPools
<1>2. \A i \in Rows1 : /\ book2[f[i]].source = book1[i].source
                       /\ book2[f[i]].dir = book1[i].dir
                       /\ book2[f[i]].gross = book1[i].gross
    BY <1>1, Fields
<1> QED
    BY <1>1, <1>2 DEF Twins, One!Payouts, Two!Payouts

\* The orders that may belong to twin payouts are twins.
LEMMA TwinOrders ==
    ASSUME NEW f, InPool(f), NEW p \in Rows1
    PROVE  /\ Twins(f, One!Orders(p), Two!Orders(f[p]))
           /\ One!Cardinality(One!Orders(p)) = Two!Cardinality(Two!Orders(f[p]))
<1>1. Paired(f) /\ Twins(f, One!OpenExpected, Two!OpenExpected)
    BY TwinPools
<1>2. \A i \in Rows1 : /\ book2[f[i]].dir = book1[i].dir
                       /\ book2[f[i]].amount = book1[i].amount
                       /\ book2[f[i]].cp = book1[i].cp
                       /\ book2[f[i]].day = book1[i].day
    BY <1>1, Fields
<1>3. Twins(f, One!Orders(p), Two!Orders(f[p]))
    BY <1>1, <1>2 DEF Twins, One!Orders, Two!Orders
<1> QED
    BY <1>1, <1>3, TwinsCount, CountOneTwo

\* Families of sets of rows that correspond.
TwinFamilies(f, F, G) ==
    /\ F \subseteq SUBSET Rows1 /\ G \subseteq SUBSET Rows2
    /\ \A S \in SUBSET Rows1 : \A T \in SUBSET Rows2 :
           Twins(f, S, T) => (S \in F <=> T \in G)

Image(f, S) == {f[i] : i \in S}
Origin(f, T) == {i \in Rows1 : f[i] \in T}

\* Every set of rows has its set of twins.
LEMMA TwinSets ==
    ASSUME NEW f, Paired(f)
    PROVE  /\ \A S \in SUBSET Rows1 : /\ Image(f, S) \in SUBSET Rows2
                                      /\ Twins(f, S, Image(f, S))
           /\ \A T \in SUBSET Rows2 : /\ Origin(f, T) \in SUBSET Rows1
                                      /\ Twins(f, Origin(f, T), T)
<1>1. ASSUME NEW S \in SUBSET Rows1
      PROVE  /\ Image(f, S) \in SUBSET Rows2
             /\ Twins(f, S, Image(f, S))
    BY DEF Image, Twins, Paired
<1>2. ASSUME NEW T \in SUBSET Rows2
      PROVE  /\ Origin(f, T) \in SUBSET Rows1
             /\ Twins(f, Origin(f, T), T)
    BY DEF Origin, Twins
<1> QED
    BY <1>1, <1>2

\* Such families have as many members.
LEMMA FamiliesCount ==
    ASSUME NEW f, Paired(f), NEW F, NEW G, TwinFamilies(f, F, G)
    PROVE  /\ IsFiniteSet(F) /\ IsFiniteSet(G)
           /\ Cardinality(F) = Cardinality(G)
           /\ F = {} <=> G = {}
<1> DEFINE g == [S \in F |-> Image(f, S)]
<1>1. /\ F \subseteq SUBSET Rows1 /\ G \subseteq SUBSET Rows2
      /\ \A S \in SUBSET Rows1 : \A T \in SUBSET Rows2 :
             Twins(f, S, T) => (S \in F <=> T \in G)
    BY DEF TwinFamilies
<1>2. IsFiniteSet(F)
    <2>1. IsFiniteSet(SUBSET Rows1)
        BY FS_SUBSET DEF Paired
    <2> QED
        BY <1>1, <2>1, FS_Subset
<1>3. g \in Bijection(F, G)
    <2>1. \A S \in F : g[S] \in G /\ Twins(f, S, g[S])
        BY <1>1, TwinSets
    <2>2. g \in [F -> G]
        BY <2>1
    <2>3. ASSUME NEW S \in F, NEW T \in F, g[S] = g[T] PROVE S = T
        <3>1. Twins(f, S, g[S]) /\ Twins(f, T, g[S])
            BY <2>1, <2>3
        <3> HIDE DEF g
        <3> QED
            BY <3>1, TwinsEqual
    <2>4. ASSUME NEW T \in G PROVE \E S \in F : g[S] = T
        <3>1. Twins(f, Origin(f, T), T) /\ Origin(f, T) \in SUBSET Rows1
            BY <1>1, TwinSets
        <3>2. Origin(f, T) \in F
            BY <1>1, <3>1
        <3>3. Twins(f, Origin(f, T), g[Origin(f, T)])
            BY <2>1, <3>2
        <3> HIDE DEF g
        <3> QED
            BY <3>1, <3>2, <3>3, TwinsEqual
    <2> QED
        BY <2>2, <2>3, <2>4 DEF Bijection, Injection, Surjection, IsInjective
<1>4. ExistsBijection(F, G)
    BY <1>3 DEF ExistsBijection
<1>5. F = {} <=> G = {}
    BY <1>3 DEF Bijection, Injection, Surjection
<1> QED
    BY <1>2, <1>4, <1>5, FS_Bijection

\* Their members together are twins.
LEMMA TwinUnions ==
    ASSUME NEW f, Paired(f), NEW F, NEW G, TwinFamilies(f, F, G)
    PROVE  Twins(f, UNION F, UNION G)
<1>1. /\ F \subseteq SUBSET Rows1 /\ G \subseteq SUBSET Rows2
      /\ \A S \in SUBSET Rows1 : \A T \in SUBSET Rows2 :
             Twins(f, S, T) => (S \in F <=> T \in G)
    BY DEF TwinFamilies
<1>2. ASSUME NEW i \in Rows1, i \in UNION F PROVE f[i] \in UNION G
    <2>1. PICK S \in F : i \in S
        BY <1>2
    <2>2. Image(f, S) \in G /\ Twins(f, S, Image(f, S))
        BY <1>1, TwinSets
    <2> QED
        BY <2>1, <2>2 DEF Twins
<1>3. ASSUME NEW i \in Rows1, f[i] \in UNION G PROVE i \in UNION F
    <2>1. PICK T \in G : f[i] \in T
        BY <1>3
    <2>2. Origin(f, T) \in F /\ Twins(f, Origin(f, T), T)
        BY <1>1, TwinSets
    <2> QED
        BY <2>1, <2>2 DEF Twins
<1> QED
    BY <1>1, <1>2, <1>3 DEF Twins

\* The sets of orders that explain a payout.
LEMMA TwinOrderSets ==
    ASSUME NEW f, InPool(f), NEW p \in Rows1
    PROVE  TwinFamilies(f, One!OrderSets(p), Two!OrderSets(f[p]))
<1>1. Paired(f) /\ Twins(f, One!Orders(p), Two!Orders(f[p]))
    BY TwinPools, TwinOrders
<1>2. book2[f[p]].gross = book1[p].gross
    BY <1>1, Fields
<1>3. /\ One!OrderSets(p) \subseteq SUBSET Rows1
      /\ Two!OrderSets(f[p]) \subseteq SUBSET Rows2
    BY <1>1 DEF Twins, One!OrderSets, Two!OrderSets
<1>4. ASSUME NEW S \in SUBSET Rows1, NEW T \in SUBSET Rows2, Twins(f, S, T)
      PROVE  S \in One!OrderSets(p) <=> T \in Two!OrderSets(f[p])
    <2>1. S \subseteq One!Orders(p) <=> T \subseteq Two!Orders(f[p])
        BY <1>1, <1>4, TwinsWithin
    <2>2. One!SumAmounts(S) = Two!SumAmounts(T)
        BY <1>1, <1>4, TwinsSum
    <2>3. S \in One!OrderSets(p)
              <=> S \subseteq One!Orders(p) /\ One!SumAmounts(S) = book1[p].gross
        BY DEF One!OrderSets
    <2>4. T \in Two!OrderSets(f[p])
              <=> T \subseteq Two!Orders(f[p]) /\ Two!SumAmounts(T) = book2[f[p]].gross
        BY DEF Two!OrderSets
    <2> QED
        BY <1>2, <2>1, <2>2, <2>3, <2>4
<1> QED
    BY <1>3, <1>4 DEF TwinFamilies

\* Which of two sets is found earlier.
LEMMA TwinFoundBefore ==
    ASSUME NEW f, Paired(f), NEW S, NEW T, Twins(f, S, T),
           NEW U, NEW V, Twins(f, U, V)
    PROVE  One!FoundBefore(S, U) <=> Two!FoundBefore(T, V)
<1> DEFINE A == S \ U
           B == T \ V
           C == (S \ U) \cup (U \ S)
           D == (T \ V) \cup (V \ T)
<1>1. Twins(f, A, B) /\ Twins(f, U \ S, V \ T)
    BY TwinsLess
<1>2. Twins(f, C, D)
    BY <1>1, TwinsJoin
<1>3. /\ One!FoundBefore(S, U) <=> \E i \in A : \A j \in C : rank1[i] <= rank1[j]
      /\ Two!FoundBefore(T, V) <=> \E i \in B : \A j \in D : rank2[i] <= rank2[j]
    BY DEF One!FoundBefore, Two!FoundBefore
<1> HIDE DEF A, B, C, D
<1>4. /\ \A i \in A : i \in Rows1 /\ f[i] \in B
      /\ \A k \in B : \E i \in A : f[i] = k
      /\ \A i \in C : i \in Rows1 /\ f[i] \in D
      /\ \A k \in D : \E i \in C : f[i] = k
    BY <1>1, <1>2, TwinsMade
<1>5. \A i \in Rows1 : rank2[f[i]] = rank1[i]
    BY Fields
<1>6. ASSUME NEW i \in A, \A j \in C : rank1[i] <= rank1[j]
      PROVE  f[i] \in B /\ \A j \in D : rank2[f[i]] <= rank2[j]
    BY <1>4, <1>5, <1>6
<1>7. ASSUME NEW k \in B, \A j \in D : rank2[k] <= rank2[j]
      PROVE  \E i \in A : \A j \in C : rank1[i] <= rank1[j]
    <2>1. PICK i \in A : f[i] = k
        BY <1>4
    <2> QED
        BY <1>4, <1>5, <1>7, <2>1
<1> QED
    BY <1>3, <1>6, <1>7

\* The rows of the first n sets found.
LEMMA TwinFound ==
    ASSUME NEW f, Paired(f), NEW F, NEW G, TwinFamilies(f, F, G), NEW n
    PROVE  Twins(f, One!FoundFirst(n, F), Two!FoundFirst(n, G))
<1> DEFINE early1(S) == {T \in F \ {S} : One!FoundBefore(T, S)}
           early2(S) == {T \in G \ {S} : Two!FoundBefore(T, S)}
           F1 == {S \in F : Cardinality(early1(S)) < n}
           G1 == {S \in G : Cardinality(early2(S)) < n}
<1>1. /\ F \subseteq SUBSET Rows1 /\ G \subseteq SUBSET Rows2
      /\ \A S \in SUBSET Rows1 : \A T \in SUBSET Rows2 :
             Twins(f, S, T) => (S \in F <=> T \in G)
    BY DEF TwinFamilies
<1>2. ASSUME NEW S \in SUBSET Rows1, NEW T \in SUBSET Rows2, Twins(f, S, T)
      PROVE  Cardinality(early1(S)) = Cardinality(early2(T))
    <2>1. ASSUME NEW U \in SUBSET Rows1, NEW V \in SUBSET Rows2, Twins(f, U, V)
          PROVE  U \in early1(S) <=> V \in early2(T)
        <3>1. U \in F <=> V \in G
            BY <1>1, <2>1
        <3>2. U = S <=> V = T
            BY <1>2, <2>1, TwinsEqual
        <3>3. One!FoundBefore(U, S) <=> Two!FoundBefore(V, T)
            BY <1>2, <2>1, TwinFoundBefore
        <3>4. /\ U \in early1(S) <=> U \in F /\ ~(U = S) /\ One!FoundBefore(U, S)
              /\ V \in early2(T) <=> V \in G /\ ~(V = T) /\ Two!FoundBefore(V, T)
            BY Zenon
        <3> HIDE DEF early1, early2
        <3> QED
            BY <3>1, <3>2, <3>3, <3>4, Zenon
    <2>2. early1(S) \subseteq SUBSET Rows1 /\ early2(T) \subseteq SUBSET Rows2
        BY <1>1
    <2> HIDE DEF early1, early2
    <2>3. TwinFamilies(f, early1(S), early2(T))
        BY <2>1, <2>2 DEF TwinFamilies
    <2> QED
        BY <2>3, FamiliesCount
<1>3. TwinFamilies(f, F1, G1)
    <2>1. F1 \subseteq SUBSET Rows1 /\ G1 \subseteq SUBSET Rows2
        BY <1>1
    <2>2. ASSUME NEW S \in SUBSET Rows1, NEW T \in SUBSET Rows2, Twins(f, S, T)
          PROVE  S \in F1 <=> T \in G1
        <3>1. S \in F <=> T \in G
            BY <1>1, <2>2
        <3>2. Cardinality(early1(S)) = Cardinality(early2(T))
            BY <1>2, <2>2
        <3> HIDE DEF early1, early2
        <3> QED
            BY <3>1, <3>2
    <2> HIDE DEF F1, G1
    <2> QED
        BY <2>1, <2>2 DEF TwinFamilies
<1>4. One!FoundFirst(n, F) = UNION F1 /\ Two!FoundFirst(n, G) = UNION G1
    BY CountOneTwo DEF One!FoundFirst, Two!FoundFirst
<1> HIDE DEF F1, G1
<1> QED
    BY <1>3, <1>4, TwinUnions

\* What the group pass decides about a payout.
LEMMA TwinRefusals ==
    ASSUME NEW f, InPool(f), Twins(f, unsure1, unsure2), NEW p \in Rows1
    PROVE  /\ One!OrderSets(p) = {} <=> Two!OrderSets(f[p]) = {}
           /\ One!Refused(p) <=> Two!Refused(f[p])
           /\ Twins(f, One!FirstFound(One!OrderSets(p)), Two!FirstFound(Two!OrderSets(f[p])))
           /\ Twins(f, One!FirstTwo(One!OrderSets(p)), Two!FirstTwo(Two!OrderSets(f[p])))
<1>1. Paired(f)
    BY DEF InPool
<1> DEFINE F == One!OrderSets(p)
           G == Two!OrderSets(f[p])
<1>2. TwinFamilies(f, F, G)
    BY TwinOrderSets
<1>3. /\ One!FirstFound(F) = One!FoundFirst(1, F) /\ One!FirstTwo(F) = One!FoundFirst(2, F)
      /\ Two!FirstFound(G) = Two!FoundFirst(1, G) /\ Two!FirstTwo(G) = Two!FoundFirst(2, G)
    BY DEF One!FirstFound, One!FirstTwo, Two!FirstFound, Two!FirstTwo
<1>4. /\ One!Refused(p) <=> \/ Cardinality(F) > 1
                            \/ One!FirstFound(F) \cap unsure1 # {}
      /\ Two!Refused(f[p]) <=> \/ Cardinality(G) > 1
                               \/ Two!FirstFound(G) \cap unsure2 # {}
    BY CountOneTwo DEF One!Refused, Two!Refused
<1> HIDE DEF F, G
<1>5. (F = {} <=> G = {}) /\ Cardinality(F) = Cardinality(G)
    BY <1>1, <1>2, FamiliesCount
<1>6. /\ Twins(f, One!FirstFound(F), Two!FirstFound(G))
      /\ Twins(f, One!FirstTwo(F), Two!FirstTwo(G))
    BY <1>1, <1>2, <1>3, TwinFound
<1>7. One!FirstFound(F) \cap unsure1 = {} <=> Two!FirstFound(G) \cap unsure2 = {}
    <2>1. Twins(f, One!FirstFound(F) \cap unsure1, Two!FirstFound(G) \cap unsure2)
        BY <1>6, TwinsMeet
    <2> QED
        BY <1>1, <2>1, TwinsEmpty
<1> QED
    BY <1>4, <1>5, <1>6, <1>7 DEF F, G

-----------------------------------------------------------------------------
(* Classification judges alike *)

\* The first row of a set is the twin of the first of the other.
LEMMA TwinLeaders ==
    ASSUME NEW f, Paired(f), NEW A, NEW B, Twins(f, A, B), A # {}
    PROVE  /\ One!First(A) \in A
           /\ Two!First(B) = f[One!First(A)]
<1> DEFINE T == {rank1[i] : i \in A}
<1>1. /\ A \subseteq Rows1
      /\ \A i \in Rows1 : rank1[i] \in Nat /\ rank2[f[i]] = rank1[i]
      /\ \A i, j \in Rows1 : rank1[i] = rank1[j] => i = j
    BY DEF Paired, Twins
<1>2. T \subseteq Nat /\ T # {}
    BY <1>1
<1>3. PICK n \in T : \A m \in T : n <= m
    BY <1>2, LeastNatural
<1>4. PICK r \in A : \A j \in A : rank1[r] <= rank1[j]
    BY <1>3
<1>5. \A r1 \in A : (\A j \in A : rank1[r1] <= rank1[j]) => r1 = r
    BY <1>1, <1>4
<1>6. One!First(A) = r
    BY <1>4, <1>5 DEF One!First
<1>7. /\ \A i \in A : i \in Rows1 /\ f[i] \in B
      /\ \A k \in B : \E i \in A : f[i] = k
    BY TwinsMade
<1>8. f[r] \in B /\ \A k \in B : rank2[f[r]] <= rank2[k]
    BY <1>1, <1>4, <1>7
<1>9. ASSUME NEW k \in B, \A j \in B : rank2[k] <= rank2[j]
      PROVE  k = f[r]
    <2>1. PICK i \in A : f[i] = k
        BY <1>7
    <2>2. \A j \in A : rank1[i] <= rank1[j]
        BY <1>1, <1>7, <1>9, <2>1
    <2> QED
        BY <1>5, <2>1, <2>2
<1>10. Two!First(B) = f[r]
    BY <1>8, <1>9 DEF Two!First
<1> QED
    BY <1>6, <1>10

\* The rows of the same amount are twins.
LEMMA TwinAmounts ==
    ASSUME NEW f, Paired(f), NEW i \in Rows1
    PROVE  Twins(f, One!SameAmount(i), Two!SameAmount(f[i]))
<1>1. /\ One!Ids = Rows1 /\ Two!Ids = Rows2
      /\ \A j \in Rows1 : f[j] \in Rows2
    BY TwinSides, Fields
<1>2. \A j \in Rows1 : /\ book2[f[j]].cp = book1[j].cp
                       /\ book2[f[j]].amount = book1[j].amount
                       /\ book2[f[j]].dir = book1[j].dir
    BY Fields
<1> QED
    BY <1>1, <1>2 DEF Twins, One!SameAmount, Two!SameAmount

\* Twins are late alike.
LEMMA TwinLate ==
    ASSUME NEW f, Paired(f), NEW e \in Rows1, NEW a \in Rows1
    PROVE  One!Late(e, a) <=> Two!Late(f[e], f[a])
<1>1. /\ One!RefsAgree(book1[e], book1[a]) <=> Two!RefsAgree(book2[f[e]], book2[f[a]])
      /\ One!DayDiff(book1[a], book1[e]) = Two!DayDiff(book2[f[a]], book2[f[e]])
      /\ One!RefConflict(e, a) <=> Two!RefConflict(f[e], f[a])
    BY Relations, TwinConflicts
<1> QED
    BY <1>1 DEF One!Late, Two!Late

\* A row's part in a split settlement with late parts.
LEMMA TwinLateParts ==
    ASSUME NEW f, Paired(f), NEW e \in Rows1
    PROVE  /\ Twins(f, One!PartsOf(e), Two!PartsOf(f[e]))
           /\ Cardinality(One!PartsOf(e)) = Cardinality(Two!PartsOf(f[e]))
           /\ One!SumAmounts(One!PartsOf(e)) = Two!SumAmounts(Two!PartsOf(f[e]))
           /\ (\E a \in One!PartsOf(e) :
                   One!DayDiff(book1[a], book1[e]) > MatchWindowDays)
                  <=> \E a \in Two!PartsOf(f[e]) :
                          Two!DayDiff(book2[a], book2[f[e]]) > MatchWindowDays
<1>1. Twins(f, One!SameRecord(e), Two!SameRecord(f[e]))
    BY TwinRecords
<1>2. \A a \in Rows1 : /\ book2[f[a]].source = book1[a].source
                       /\ book2[f[a]].dir = book1[a].dir
    BY Fields
<1>3. Twins(f, One!PartsOf(e), Two!PartsOf(f[e]))
    BY <1>1, <1>2 DEF Twins, One!PartsOf, Two!PartsOf
<1>4. /\ Cardinality(One!PartsOf(e)) = Cardinality(Two!PartsOf(f[e]))
      /\ One!SumAmounts(One!PartsOf(e)) = Two!SumAmounts(Two!PartsOf(f[e]))
    BY <1>3, TwinsCount, TwinsSum
<1>5. \A a \in Rows1 : One!DayDiff(book1[a], book1[e]) = Two!DayDiff(book2[f[a]], book2[f[e]])
    BY Relations
<1>6. /\ \A i \in One!PartsOf(e) : i \in Rows1 /\ f[i] \in Two!PartsOf(f[e])
      /\ \A k \in Two!PartsOf(f[e]) : \E i \in One!PartsOf(e) : f[i] = k
    BY <1>3, TwinsMade
<1> QED
    BY <1>3, <1>4, <1>5, <1>6

\* Row e is the one expected row of a split settlement that row i belongs to.
Splits1(i, e) ==
    /\ One!SameRecord(i) \cap One!Expected = {e}
    /\ i \in One!PartsOf(e) \cup {e}
    /\ Cardinality(One!PartsOf(e)) >= 2
    /\ \E a \in One!PartsOf(e) : One!DayDiff(book1[a], book1[e]) > MatchWindowDays
    /\ One!SumAmounts(One!PartsOf(e)) = book1[e].amount

Splits2(i, e) ==
    /\ Two!SameRecord(i) \cap Two!Expected = {e}
    /\ i \in Two!PartsOf(e) \cup {e}
    /\ Cardinality(Two!PartsOf(e)) >= 2
    /\ \E a \in Two!PartsOf(e) : Two!DayDiff(book2[a], book2[e]) > MatchWindowDays
    /\ Two!SumAmounts(Two!PartsOf(e)) = book2[e].amount

\* Twins are paid in several payments alike.
LEMMA TwinSplits ==
    ASSUME NEW f, Paired(f), NEW i \in Rows1, NEW e \in Rows1
    PROVE  Splits1(i, e) <=> Splits2(f[i], f[e])
<1> DEFINE A == One!SameRecord(i) \cap One!Expected
           B == Two!SameRecord(f[i]) \cap Two!Expected
           C == {e}
           D == {f[e]}
           late1 == \E a \in One!PartsOf(e) :
                        One!DayDiff(book1[a], book1[e]) > MatchWindowDays
           late2 == \E a \in Two!PartsOf(f[e]) :
                        Two!DayDiff(book2[a], book2[f[e]]) > MatchWindowDays
<1>1. Twins(f, A, B)
    BY TwinRecords, TwinSides, TwinsMeet
<1>2. Twins(f, C, D)
    BY TwinsOne
<1>3. Twins(f, One!PartsOf(e), Two!PartsOf(f[e]))
    BY TwinLateParts
<1>4. i \in One!PartsOf(e) \cup C <=> f[i] \in Two!PartsOf(f[e]) \cup D
    BY <1>2, <1>3 DEF Twins
<1>5. /\ Cardinality(One!PartsOf(e)) = Cardinality(Two!PartsOf(f[e]))
      /\ One!SumAmounts(One!PartsOf(e)) = Two!SumAmounts(Two!PartsOf(f[e]))
      /\ late1 <=> late2
    BY TwinLateParts
<1>6. book2[f[e]].amount = book1[e].amount
    BY Fields
<1>7. /\ Splits1(i, e) <=>
            /\ A = C
            /\ i \in One!PartsOf(e) \cup C
            /\ Cardinality(One!PartsOf(e)) >= 2
            /\ late1
            /\ One!SumAmounts(One!PartsOf(e)) = book1[e].amount
      /\ Splits2(f[i], f[e]) <=>
            /\ B = D
            /\ f[i] \in Two!PartsOf(f[e]) \cup D
            /\ Cardinality(Two!PartsOf(f[e])) >= 2
            /\ late2
            /\ Two!SumAmounts(Two!PartsOf(f[e])) = book2[f[e]].amount
    BY DEF Splits1, Splits2
<1> HIDE DEF A, B, C, D, late1, late2
<1>8. A = C <=> B = D
    BY <1>1, <1>2, TwinsEqual
<1> QED
    BY <1>4, <1>5, <1>6, <1>7, <1>8

\* So are the late ones.
LEMMA TwinLateSplits ==
    ASSUME NEW f, Paired(f), NEW i \in Rows1
    PROVE  One!LateSplit(i) <=> Two!LateSplit(f[i])
<1> DEFINE A == One!SameRecord(i) \cap One!Expected
           B == Two!SameRecord(f[i]) \cap Two!Expected
<1>1. Twins(f, A, B)
    BY TwinRecords, TwinSides, TwinsMeet
<1>2. /\ One!LateSplit(i) <=> \E e \in A : Splits1(i, e)
      /\ Two!LateSplit(f[i]) <=> \E e \in B : Splits2(f[i], e)
    BY CountOneTwo DEF One!LateSplit, Two!LateSplit, Splits1, Splits2
<1> HIDE DEF A, B
<1>3. /\ \A e \in A : e \in Rows1 /\ f[e] \in B
      /\ \A k \in B : \E e \in A : f[e] = k
    BY <1>1, TwinsMade
<1>4. \A e \in Rows1 : Splits1(i, e) <=> Splits2(f[i], f[e])
    BY TwinSplits
<1> QED
    BY <1>2, <1>3, <1>4

\* Twins are duplicates alike.
LEMMA TwinDuplicates ==
    ASSUME NEW f, Paired(f), NEW i \in Rows1
    PROVE  One!Duplicate(i) <=> Two!Duplicate(f[i])
<1>1. Twins(f, One!SameRecord(i), Two!SameRecord(f[i]))
    BY TwinRecords
<1>2. /\ \A j \in One!SameRecord(i) : j \in Rows1 /\ f[j] \in Two!SameRecord(f[i])
      /\ \A k \in Two!SameRecord(f[i]) : \E j \in One!SameRecord(i) : f[j] = k
    BY <1>1, TwinsMade
<1>3. \A j \in Rows1 : /\ book2[f[j]].source = book1[j].source
                       /\ book2[f[j]].amount = book1[j].amount
                       /\ book2[f[j]].dir = book1[j].dir
                       /\ rank2[f[j]] = rank1[j]
    BY Fields
<1> QED
    BY <1>2, <1>3 DEF One!Duplicate, Two!Duplicate

\* Twins are refunds alike.
LEMMA TwinRefunds ==
    ASSUME NEW f, Paired(f), NEW i \in Rows1
    PROVE  One!Refund(i) <=> Two!Refund(f[i])
<1>1. Twins(f, One!SameRecord(i), Two!SameRecord(f[i])) /\ Twins(f, One!Actual, Two!Actual)
    BY TwinRecords, TwinSides
<1>2. Cardinality(One!SameRecord(i)) = Cardinality(Two!SameRecord(f[i]))
    BY <1>1, TwinsCount
<1>3. i \in One!Actual <=> f[i] \in Two!Actual
    BY <1>1 DEF Twins
<1>4. book2[f[i]].dir = book1[i].dir
    BY Fields
<1> QED
    BY <1>2, <1>3, <1>4, CountOneTwo DEF One!Refund, Two!Refund

\* The rows of larger and of smaller amount beside twins are twins.
LEMMA TwinShortfalls ==
    ASSUME NEW f, Paired(f), NEW i \in Rows1
    PROVE  /\ Twins(f, One!Larger(i), Two!Larger(f[i]))
           /\ Twins(f, One!Smaller(i), Two!Smaller(f[i]))
<1>1. /\ Twins(f, One!SameRecord(i) \cap One!Expected, Two!SameRecord(f[i]) \cap Two!Expected)
      /\ Twins(f, One!SameRecord(i) \cap One!Actual, Two!SameRecord(f[i]) \cap Two!Actual)
    BY TwinRecords, TwinSides, TwinsMeet
<1>2. \A j \in Rows1 : /\ book2[f[j]].amount = book1[j].amount
                       /\ book2[f[j]].dir = book1[j].dir
    BY Fields
<1> QED
    BY <1>1, <1>2 DEF Twins, One!Larger, Two!Larger, One!Smaller, Two!Smaller

\* Twins resemble the same rows.
LEMMA TwinResembled ==
    ASSUME NEW f, Paired(f), NEW i \in Rows1
    PROVE  One!Resembled(i) <=> Two!Resembled(f[i])
<1> DEFINE A == One!SameRecord(i) \cap One!Actual
           B == Two!SameRecord(f[i]) \cap Two!Actual
           C == One!SameAmount(i) \cap One!Actual
           D == Two!SameAmount(f[i]) \cap Two!Actual
           near1(j) == /\ ~One!RefConflict(i, j)
                       /\ \/ One!RefsAgree(book1[i], book1[j])
                          \/ One!DayDiff(book1[j], book1[i]) <= AmountHorizonDays
           near2(j) == /\ ~Two!RefConflict(f[i], j)
                       /\ \/ Two!RefsAgree(book2[f[i]], book2[j])
                          \/ Two!DayDiff(book2[j], book2[f[i]]) <= AmountHorizonDays
<1>1. Twins(f, A, B) /\ Twins(f, C, D)
    BY TwinRecords, TwinSides, TwinAmounts, TwinsMeet
<1>2. \A j \in Rows1 : near1(j) <=> near2(f[j])
    BY Relations, TwinConflicts
<1>3. \A j \in Rows1 : book2[f[j]].dir = book1[j].dir
    BY Fields
<1>4. /\ One!Resembled(i) <=> \/ \E j \in A : book1[j].dir = book1[i].dir
                              \/ \E j \in C : near1(j)
      /\ Two!Resembled(f[i]) <=> \/ \E j \in B : book2[j].dir = book2[f[i]].dir
                                 \/ \E j \in D : near2(j)
    BY DEF One!Resembled, Two!Resembled
<1> HIDE DEF A, B, C, D, near1, near2
<1>5. /\ \A j \in A : j \in Rows1 /\ f[j] \in B
      /\ \A k \in B : \E j \in A : f[j] = k
      /\ \A j \in C : j \in Rows1 /\ f[j] \in D
      /\ \A k \in D : \E j \in C : f[j] = k
    BY <1>1, TwinsMade
<1> QED
    BY <1>2, <1>3, <1>4, <1>5

\* The two runs compute one shortfall.
LEMMA ShortfallOneTwo ==
    ASSUME NEW x, NEW y, NEW d
    PROVE  One!Shortfall(x, y, d) = Two!Shortfall(x, y, d)
BY DEF One!Shortfall, Two!Shortfall, One!BasisPoints, Two!BasisPoints,
       One!commissionMinBP, Two!commissionMinBP,
       One!commissionMaxBP, Two!commissionMaxBP

\* A settlement of the same money outside the window.
LEMMA TwinTimings ==
    ASSUME NEW f, Paired(f), NEW i \in Rows1
    PROVE  /\ (\E e \in One!SameAmount(i) \cap One!Expected : One!Late(e, i))
                  <=> \E e \in Two!SameAmount(f[i]) \cap Two!Expected : Two!Late(e, f[i])
           /\ (\E a \in One!SameAmount(i) \cap One!Actual : One!Late(i, a))
                  <=> \E a \in Two!SameAmount(f[i]) \cap Two!Actual : Two!Late(f[i], a)
<1> DEFINE A == One!SameAmount(i) \cap One!Expected
           B == Two!SameAmount(f[i]) \cap Two!Expected
           C == One!SameAmount(i) \cap One!Actual
           D == Two!SameAmount(f[i]) \cap Two!Actual
<1>1. Twins(f, A, B) /\ Twins(f, C, D)
    BY TwinSides, TwinAmounts, TwinsMeet
<1>2. \A j \in Rows1 : /\ One!Late(j, i) <=> Two!Late(f[j], f[i])
                       /\ One!Late(i, j) <=> Two!Late(f[i], f[j])
    BY TwinLate
<1> HIDE DEF A, B, C, D
<1>3. /\ \A j \in A : j \in Rows1 /\ f[j] \in B
      /\ \A k \in B : \E j \in A : f[j] = k
      /\ \A j \in C : j \in Rows1 /\ f[j] \in D
      /\ \A k \in D : \E j \in C : f[j] = k
    BY <1>1, TwinsMade
<1>4. /\ (\E e \in A : One!Late(e, i)) <=> \E e \in B : Two!Late(e, f[i])
      /\ (\E a \in C : One!Late(i, a)) <=> \E a \in D : Two!Late(f[i], a)
    BY <1>2, <1>3
<1> QED
    BY <1>4 DEF A, B, C, D

\* The verdicts on twins that are money are the same.
LEMMA TwinActual ==
    ASSUME NEW f, Paired(f), NEW i \in Rows1
    PROVE  One!ActualVerdict(i) = Two!ActualVerdict(f[i])
<1>1. book2[f[i]].amount = book1[i].amount /\ book2[f[i]].dir = book1[i].dir
    BY Fields
<1>2. /\ One!Timing = Two!Timing
      /\ One!Whole("unknown", i) = Two!Whole("unknown", f[i])
    BY <1>1 DEF One!Timing, Two!Timing, One!Whole, Two!Whole
<1> DEFINE late1 == \E e \in One!SameAmount(i) \cap One!Expected : One!Late(e, i)
           late2 == \E e \in Two!SameAmount(f[i]) \cap Two!Expected : Two!Late(e, f[i])
           A == One!Larger(i)
           B == Two!Larger(f[i])
<1>3. late1 <=> late2
    BY TwinTimings
<1>4. Twins(f, A, B)
    BY TwinShortfalls
<1>5. /\ One!ActualVerdict(i) =
             IF book1[i].dir = "credit" /\ A # {}
             THEN One!Shortfall(book1[One!First(A)].amount, book1[i].amount, 0)
             ELSE IF book1[i].dir = "credit" /\ late1
             THEN One!Timing ELSE One!Whole("unknown", i)
      /\ Two!ActualVerdict(f[i]) =
             IF book2[f[i]].dir = "credit" /\ B # {}
             THEN Two!Shortfall(book2[Two!First(B)].amount, book2[f[i]].amount, 0)
             ELSE IF book2[f[i]].dir = "credit" /\ late2
             THEN Two!Timing ELSE Two!Whole("unknown", f[i])
    BY DEF One!ActualVerdict, Two!ActualVerdict
<1> HIDE DEF A, B, late1, late2
<1>6. A = {} <=> B = {}
    BY <1>4, TwinsEmpty
<1>7. CASE A = {}
    BY <1>1, <1>2, <1>3, <1>5, <1>6, <1>7
<1>8. CASE A # {}
    <2>1. One!First(A) \in A /\ Two!First(B) = f[One!First(A)]
        BY <1>4, <1>8, TwinLeaders
    <2>2. One!First(A) \in Rows1
        BY <1>4, <2>1 DEF Twins
    <2>3. book2[Two!First(B)].amount = book1[One!First(A)].amount
        BY <2>1, <2>2, Fields
    <2>4. B # {}
        BY <1>6, <1>8
    <2>5. One!Shortfall(book1[One!First(A)].amount, book1[i].amount, 0)
              = Two!Shortfall(book2[Two!First(B)].amount, book2[f[i]].amount, 0)
        BY <1>1, <2>3, ShortfallOneTwo
    <2> QED
        BY <1>1, <1>2, <1>3, <1>5, <1>8, <2>4, <2>5
<1> QED
    BY <1>7, <1>8

\* The verdicts on twins that are orders are the same.
LEMMA TwinExpected ==
    ASSUME NEW f, Paired(f), NEW i \in Rows1
    PROVE  One!ExpectedVerdict(i) = Two!ExpectedVerdict(f[i])
<1>1. book2[f[i]].amount = book1[i].amount
    BY Fields
<1>2. /\ One!Timing = Two!Timing
      /\ One!Whole("unknown", i) = Two!Whole("unknown", f[i])
      /\ One!Whole("missing", i) = Two!Whole("missing", f[i])
    BY <1>1 DEF One!Timing, Two!Timing, One!Whole, Two!Whole
<1> DEFINE late1 == \E a \in One!SameAmount(i) \cap One!Actual : One!Late(i, a)
           late2 == \E a \in Two!SameAmount(f[i]) \cap Two!Actual : Two!Late(f[i], a)
           A == One!Smaller(i)
           B == Two!Smaller(f[i])
           paid1 == book1[One!First(A)].amount
           paid2 == book2[Two!First(B)].amount
<1>3. /\ late1 <=> late2
      /\ One!Resembled(i) <=> Two!Resembled(f[i])
    BY TwinTimings, TwinResembled
<1>4. Twins(f, A, B)
    BY TwinShortfalls
<1>5. /\ One!ExpectedVerdict(i) =
             IF A # {}
             THEN One!Shortfall(book1[i].amount, paid1, book1[i].amount - paid1)
             ELSE IF late1 THEN One!Timing
             ELSE One!Whole(IF One!Resembled(i) THEN "unknown" ELSE "missing", i)
      /\ Two!ExpectedVerdict(f[i]) =
             IF B # {}
             THEN Two!Shortfall(book2[f[i]].amount, paid2, book2[f[i]].amount - paid2)
             ELSE IF late2 THEN Two!Timing
             ELSE Two!Whole(IF Two!Resembled(f[i]) THEN "unknown" ELSE "missing", f[i])
    BY DEF One!ExpectedVerdict, Two!ExpectedVerdict
<1>6. A = {} <=> B = {}
    BY <1>4, TwinsEmpty
<1>7. A # {} => paid1 = paid2
    <2>1. ASSUME A # {} PROVE One!First(A) \in A /\ Two!First(B) = f[One!First(A)]
        BY <1>4, <2>1, TwinLeaders
    <2>2. A \subseteq Rows1
        BY <1>4 DEF Twins
    <2> HIDE DEF A, B
    <2> QED
        BY <2>1, <2>2, Fields
<1> HIDE DEF A, B, late1, late2, paid1, paid2
<1>8. CASE A = {}
    <2>1. One!Whole(IF One!Resembled(i) THEN "unknown" ELSE "missing", i)
              = Two!Whole(IF Two!Resembled(f[i]) THEN "unknown" ELSE "missing", f[i])
        BY <1>2, <1>3
    <2>2. B = {}
        BY <1>6, <1>8
    <2> QED
        BY <1>2, <1>3, <1>5, <1>8, <2>1, <2>2
<1>9. CASE A # {}
    BY <1>1, <1>5, <1>6, <1>7, <1>9, ShortfallOneTwo
<1> QED
    BY <1>8, <1>9

\* Twins get the same discrepancy.
LEMMA TwinVerdicts ==
    ASSUME NEW f, Paired(f), NEW i \in Rows1, NEW A, NEW B, Twins(f, A, B)
    PROVE  One!Verdict(i, A) = Two!Verdict(f[i], B)
<1>1. book2[f[i]].amount = book1[i].amount
    BY Fields
<1>2. /\ One!Timing = Two!Timing
      /\ One!Whole("duplicate", i) = Two!Whole("duplicate", f[i])
      /\ One!Whole("ambiguous", i) = Two!Whole("ambiguous", f[i])
    BY <1>1 DEF One!Timing, Two!Timing, One!Whole, Two!Whole
<1>3. /\ One!LateSplit(i) <=> Two!LateSplit(f[i])
      /\ One!Duplicate(i) <=> Two!Duplicate(f[i])
      /\ One!Refund(i) <=> Two!Refund(f[i])
      /\ One!ExpectedVerdict(i) = Two!ExpectedVerdict(f[i])
      /\ One!ActualVerdict(i) = Two!ActualVerdict(f[i])
    BY TwinLateSplits, TwinDuplicates, TwinRefunds, TwinExpected, TwinActual
<1>4. /\ i \in A <=> f[i] \in B
      /\ i \in One!Expected <=> f[i] \in Two!Expected
    BY TwinSides DEF Twins
<1> QED
    BY <1>1, <1>2, <1>3, <1>4 DEF One!Verdict, Two!Verdict

-----------------------------------------------------------------------------
(* Two sorted books of the same contents *)

\* The row without its ID.
Bare(t) == [t EXCEPT !.id = 0]

\* Row t comes before row u whatever their IDs.
Prior(t, u) == Precedes(Bare(t), Bare(u))

\* The rows agree in all the order reads but the ID.
KeySame(t, u) ==
    /\ t.day = u.day /\ t.ref = u.ref /\ t.cp = u.cp /\ t.amount = u.amount
    /\ t.dir = u.dir /\ t.source = u.source /\ t.gross = u.gross

\* A row without its ID is a row, with the same key up to the ID.
LEMMA BareRow ==
    ASSUME NEW t \in Transaction
    PROVE  /\ Bare(t) \in Transaction
           /\ Bare(t).id = 0
           /\ KeySame(Bare(t), t)
<1>1. t = [id |-> t.id, source |-> t.source, ref |-> t.ref, cp |-> t.cp,
           currency |-> t.currency, amount |-> t.amount, day |-> t.day,
           dir |-> t.dir, gross |-> t.gross, commission |-> t.commission]
    BY DEF Transaction
<1>2. Bare(t) = [id |-> 0, source |-> t.source, ref |-> t.ref, cp |-> t.cp,
                 currency |-> t.currency, amount |-> t.amount, day |-> t.day,
                 dir |-> t.dir, gross |-> t.gross, commission |-> t.commission]
    BY <1>1 DEF Bare
<1> QED
    BY <1>2 DEF Transaction, KeySame

\* Keys that do not compare are the same.
LEMMA KeysTotal ==
    ASSUME NEW k \in [1..8 -> Int], NEW l \in [1..8 -> Int],
           ~KeyBefore(k, l), ~KeyBefore(l, k), NEW o \in 1..8
    PROVE  k[o] = l[o]
<1> SUFFICES ASSUME k[o] # l[o] PROVE FALSE
    OBVIOUS
<1> DEFINE T == {n \in 1..8 : k[n] # l[n]}
<1>1. T \subseteq Nat /\ o \in T
    OBVIOUS
<1>2. PICK n \in T : \A m \in T : n <= m
    <2> HIDE DEF T
    <2> QED
        BY <1>1, LeastNatural
<1>3. n \in 1..8 /\ \A m \in 1..(n - 1) : k[m] = l[m]
    BY <1>2
<1>4. k[n] < l[n] \/ l[n] < k[n]
    BY <1>2
<1> QED
    BY <1>3, <1>4 DEF KeyBefore

\* Rows with one key are ordered alike.
LEMMA KeySameOrders ==
    ASSUME NEW t \in Transaction, NEW u \in Transaction, NEW v \in Transaction,
           KeySame(t, u)
    PROVE  /\ Prior(t, v) <=> Prior(u, v)
           /\ Prior(v, t) <=> Prior(v, u)
<1>1. /\ KeySame(Bare(t), Bare(u)) /\ Bare(t).id = 0 /\ Bare(u).id = 0
    BY BareRow DEF KeySame
<1>2. SortKey(Bare(t)) = SortKey(Bare(u))
    BY <1>1 DEF SortKey, KeySame
<1>3. IsExpected(Bare(t)) = IsExpected(Bare(u))
    BY <1>1 DEF IsExpected, KeySame
<1> QED
    BY <1>2, <1>3 DEF Prior, Precedes, Before

\* Rows neither of which is prior have one key.
LEMMA NonePrior ==
    ASSUME NEW t \in Transaction, NEW u \in Transaction, ~Prior(t, u), ~Prior(u, t)
    PROVE  KeySame(t, u)
<1> DEFINE x == Bare(t)
           y == Bare(u)
           k == SortKey(x)
           l == SortKey(y)
<1>1. x \in Transaction /\ y \in Transaction /\ KeySame(x, t) /\ KeySame(y, u)
    BY BareRow
<1>2. k \in [1..8 -> Int] /\ l \in [1..8 -> Int]
    BY <1>1, KeyOfRow
<1>3. IsExpected(x) = IsExpected(y)
    BY DEF Prior, Precedes, IsExpected
<1>4. ~Before(x, y) /\ ~Before(y, x)
    BY <1>3 DEF Prior, Precedes
<1>5. ~KeyBefore(k, l) /\ ~KeyBefore(l, k)
    BY <1>4 DEF Before, KeyBefore
<1>6. \A o \in 1..8 : k[o] = l[o]
    <2> HIDE DEF k, l
    <2> QED
        BY <1>2, <1>5, KeysTotal
<1>7. /\ x.day = y.day /\ x.ref = y.ref /\ x.cp = y.cp /\ x.amount = y.amount
      /\ DirectionOrder[x.dir] = DirectionOrder[y.dir]
      /\ SourceOrder[x.source] = SourceOrder[y.source]
      /\ x.gross = y.gross
    <2>1. /\ k[1] = l[1] /\ k[2] = l[2] /\ k[3] = l[3] /\ k[4] = l[4]
          /\ k[5] = l[5] /\ k[6] = l[6] /\ k[7] = l[7]
        BY <1>6
    <2> HIDE DEF x, y
    <2> QED
        BY <2>1 DEF SortKey
<1>8. x.dir = y.dir /\ x.source = y.source
    BY <1>1, <1>7 DEF DirectionOrder, SourceOrder, Transaction, Directions, Sources
<1> HIDE DEF x, y
<1> QED
    BY <1>1, <1>7, <1>8 DEF KeySame

\* What is prior comes before, and what comes before has nothing prior to it.
LEMMA PriorPrecedes ==
    ASSUME NEW t \in Transaction, NEW u \in Transaction
    PROVE  /\ Prior(t, u) => Precedes(t, u)
           /\ Precedes(t, u) => ~Prior(u, t)
<1>1. ASSUME NEW x \in Transaction, NEW y \in Transaction, Prior(x, y)
      PROVE  Precedes(x, y)
    <2> DEFINE k == SortKey(Bare(x))
               l == SortKey(Bare(y))
               q == SortKey(x)
               r == SortKey(y)
    <2>1. /\ KeySame(Bare(x), x) /\ KeySame(Bare(y), y)
          /\ Bare(x).id = 0 /\ Bare(y).id = 0
        BY BareRow
    <2>2. \A o \in 1..7 : k[o] = q[o] /\ l[o] = r[o]
        BY <2>1 DEF SortKey, KeySame
    <2>3. k[8] = 0 /\ l[8] = 0
        BY <2>1 DEF SortKey
    <2>4. IsExpected(Bare(x)) = IsExpected(x) /\ IsExpected(Bare(y)) = IsExpected(y)
        BY <2>1 DEF IsExpected, KeySame
    <2>5. CASE IsExpected(x) = IsExpected(y)
        <3>1. Before(Bare(x), Bare(y))
            BY <1>1, <2>4, <2>5 DEF Prior, Precedes
        <3>2. PICK n \in 1..8 : k[n] < l[n] /\ \A m \in 1..(n - 1) : k[m] = l[m]
            BY <3>1 DEF Before
        <3> HIDE DEF k, l, q, r
        <3>3. n # 8
            BY <2>3, <3>2
        <3>4. q[n] < r[n] /\ \A m \in 1..(n - 1) : q[m] = r[m]
            BY <2>2, <3>2, <3>3
        <3>5. Before(x, y)
            BY <3>4 DEF Before, q, r
        <3> QED
            BY <2>5, <3>5 DEF Precedes
    <2>6. CASE IsExpected(x) # IsExpected(y)
        BY <1>1, <2>4, <2>6 DEF Prior, Precedes
    <2> QED
        BY <2>5, <2>6
<1>2. ~(Precedes(t, u) /\ Precedes(u, t))
    BY RowsOrdered
<1> QED
    BY <1>1, <1>2

\* An accepted book: finite, filed by ID, and within the money contract.
GoodBook(b) ==
    /\ IsFiniteSet(DOMAIN b)
    /\ \A i \in DOMAIN b : /\ b[i] \in Transaction
                           /\ b[i].id = i
                           /\ ValidateMoney(b[i])

\* The rows before row i, and how many they are.
Ahead(b, i) == {j \in DOMAIN b : Precedes(b[j], b[i])}
Place(b, i) == Cardinality(Ahead(b, i))

\* Every place of a book is taken by one row.
LEMMA PlacesTaken ==
    ASSUME NEW b, GoodBook(b)
    PROVE  LET n == Cardinality(DOMAIN b)
           IN  /\ n \in Nat
               /\ \A i \in DOMAIN b : Place(b, i) \in 0..(n - 1)
               /\ \A i, j \in DOMAIN b : Place(b, i) = Place(b, j) => i = j
               /\ \A m \in 0..(n - 1) : \E i \in DOMAIN b : Place(b, i) = m
<1> DEFINE n == Cardinality(DOMAIN b)
           g == [i \in DOMAIN b |-> Place(b, i)]
<1>1. /\ IsFiniteSet(DOMAIN b) /\ n \in Nat
      /\ \A i \in DOMAIN b : b[i] \in Transaction /\ b[i].id = i
    BY FS_CardinalityType DEF GoodBook
<1>2. ASSUME NEW i \in DOMAIN b
      PROVE  IsFiniteSet(Ahead(b, i)) /\ Place(b, i) \in 0..(n - 1)
    <2>1. Ahead(b, i) \in SUBSET DOMAIN b /\ i \notin Ahead(b, i)
        BY <1>1, RowsOrdered DEF Ahead
    <2>2. /\ IsFiniteSet(Ahead(b, i))
          /\ Cardinality(Ahead(b, i)) <= n
          /\ n = Cardinality(Ahead(b, i)) => DOMAIN b = Ahead(b, i)
        BY <1>1, <2>1, FS_Subset
    <2>3. Cardinality(Ahead(b, i)) \in Nat
        BY <2>2, FS_CardinalityType
    <2> QED
        BY <1>1, <2>1, <2>2, <2>3 DEF Place
<1>3. ASSUME NEW x \in DOMAIN b, NEW y \in DOMAIN b, Precedes(b[x], b[y])
      PROVE  Place(b, x) # Place(b, y)
    <2>1. Ahead(b, x) \in SUBSET Ahead(b, y)
        BY <1>1, <1>3, RowsOrdered DEF Ahead
    <2>2. x \in Ahead(b, y) /\ x \notin Ahead(b, x)
        BY <1>1, <1>3, RowsOrdered DEF Ahead
    <2>3. Ahead(b, x) # Ahead(b, y)
        BY <2>2
    <2>4. Cardinality(Ahead(b, x)) # Cardinality(Ahead(b, y))
        BY <1>2, <2>1, <2>3, FS_Subset
    <2> QED
        BY <2>4 DEF Place
<1>4. \A i, j \in DOMAIN b : Place(b, i) = Place(b, j) => i = j
    <2>1. \A i, j \in DOMAIN b :
              i # j => Precedes(b[i], b[j]) \/ Precedes(b[j], b[i])
        BY <1>1, RowsOrdered
    <2> QED
        BY <1>3, <2>1
<1>5. g \in Injection(DOMAIN b, 0..(n - 1))
    <2>1. g \in [DOMAIN b -> 0..(n - 1)]
        BY <1>2
    <2> QED
        BY <1>4, <2>1 DEF Injection, IsInjective
<1>6. IsFiniteSet(0..(n - 1)) /\ Cardinality(0..(n - 1)) = n
    <2> HIDE DEF n
    <2>1. 0 \in Int /\ n - 1 \in Int
        BY <1>1
    <2>2. /\ IsFiniteSet(0..(n - 1))
          /\ Cardinality(0..(n - 1)) = IF 0 > n - 1 THEN 0 ELSE (n - 1) - 0 + 1
        BY <2>1, FS_Interval
    <2> QED
        BY <1>1, <2>2
<1>7. g \in Surjection(DOMAIN b, 0..(n - 1))
    <2> HIDE DEF g
    <2> QED
        BY <1>5, <1>6, FS_Injection
<1>8. \A m \in 0..(n - 1) : \E i \in DOMAIN b : Place(b, i) = m
    BY <1>7 DEF Surjection
<1> QED
    BY <1>1, <1>2, <1>4, <1>8

\* If book c has rows like those of b, a row of b prior to a row of c stands
\* before it.
LEMMA PlaceGrows ==
    ASSUME NEW b, GoodBook(b), NEW c, GoodBook(c), NEW g,
           \A i \in DOMAIN b : g[i] \in DOMAIN c /\ KeySame(b[i], c[g[i]]),
           \A i, j \in DOMAIN b : g[i] = g[j] => i = j,
           NEW i \in DOMAIN b, NEW k \in DOMAIN c, Prior(b[i], c[k])
    PROVE  Place(b, i) < Place(c, k)
<1> DEFINE A == Ahead(b, i) \cup {i}
           h == [j \in A |-> g[j]]
<1>1. /\ IsFiniteSet(DOMAIN b) /\ IsFiniteSet(DOMAIN c)
      /\ \A j \in DOMAIN b : b[j] \in Transaction
      /\ \A j \in DOMAIN c : c[j] \in Transaction
    BY DEF GoodBook
<1>2. Ahead(b, i) \in SUBSET DOMAIN b /\ i \notin Ahead(b, i)
    BY <1>1, RowsOrdered DEF Ahead
<1>3. IsFiniteSet(Ahead(b, i)) /\ Cardinality(Ahead(b, i)) \in Nat
    BY <1>1, <1>2, FS_Subset, FS_CardinalityType
<1>4. Cardinality(A) = Cardinality(Ahead(b, i)) + 1
    BY <1>2, <1>3, FS_AddElement
<1>5. ASSUME NEW j \in A PROVE g[j] \in Ahead(c, k)
    <2>1. j \in DOMAIN b /\ b[j] \in Transaction /\ b[i] \in Transaction
          /\ c[k] \in Transaction /\ g[j] \in DOMAIN c /\ c[g[j]] \in Transaction
          /\ KeySame(b[j], c[g[j]])
        BY <1>1, <1>2
    <2>2. Prior(b[j], c[k])
        <3>1. CASE j = i
            BY <3>1
        <3>2. CASE j # i
            <4>1. Precedes(b[j], b[i])
                BY <3>2 DEF Ahead
            <4>2. ~Prior(b[i], b[j])
                BY <2>1, <4>1, PriorPrecedes
            <4>3. CASE Prior(b[j], b[i])
                <5>1. /\ Bare(b[j]) \in Transaction /\ Bare(b[i]) \in Transaction
                      /\ Bare(c[k]) \in Transaction
                    BY <2>1, BareRow
                <5> QED
                    BY <4>3, <5>1, RowsOrdered DEF Prior
            <4>4. CASE ~Prior(b[j], b[i])
                <5>1. KeySame(b[j], b[i])
                    BY <2>1, <4>2, <4>4, NonePrior
                <5> QED
                    BY <2>1, <5>1, KeySameOrders
            <4> QED
                BY <4>3, <4>4
        <3> QED
            BY <3>1, <3>2
    <2>3. Prior(c[g[j]], c[k])
        BY <2>1, <2>2, KeySameOrders
    <2>4. Precedes(c[g[j]], c[k])
        BY <2>1, <2>3, PriorPrecedes
    <2> QED
        BY <2>1, <2>4 DEF Ahead
<1>6. IsFiniteSet(Ahead(c, k)) /\ Cardinality(Ahead(c, k)) \in Nat
    <2>1. Ahead(c, k) \in SUBSET DOMAIN c
        BY DEF Ahead
    <2> QED
        BY <1>1, <2>1, FS_Subset, FS_CardinalityType
<1>7. h \in Injection(A, Ahead(c, k))
    <2>1. h \in [A -> Ahead(c, k)]
        BY <1>5
    <2>2. \A x, y \in A : h[x] = h[y] => x = y
        BY <1>2
    <2> QED
        BY <2>1, <2>2 DEF Injection, IsInjective
<1>8. Cardinality(A) <= Cardinality(Ahead(c, k))
    <2> HIDE DEF A, h
    <2> QED
        BY <1>6, <1>7, FS_Injection
<1> QED
    BY <1>3, <1>4, <1>6, <1>8 DEF Place

\* Rows at one place of two such books have one content.
LEMMA SamePlace ==
    ASSUME NEW b, GoodBook(b), NEW c, GoodBook(c), NEW g, NEW h,
           \A i \in DOMAIN b : g[i] \in DOMAIN c /\ KeySame(b[i], c[g[i]]),
           \A i, j \in DOMAIN b : g[i] = g[j] => i = j,
           \A k \in DOMAIN c : h[k] \in DOMAIN b /\ KeySame(c[k], b[h[k]]),
           \A k, l \in DOMAIN c : h[k] = h[l] => k = l,
           NEW i \in DOMAIN b, NEW k \in DOMAIN c, Place(b, i) = Place(c, k)
    PROVE  Same(b[i], c[k])
<1>1. /\ b[i] \in Transaction /\ c[k] \in Transaction
      /\ ValidateMoney(b[i]) /\ ValidateMoney(c[k])
    BY DEF GoodBook
<1>2. Place(b, i) \in Nat /\ Place(c, k) \in Nat
    BY PlacesTaken
<1>3. ~Prior(b[i], c[k])
    <2>1. ASSUME Prior(b[i], c[k]) PROVE Place(b, i) < Place(c, k)
        BY <2>1, PlaceGrows
    <2> QED
        BY <1>2, <2>1
<1>4. ~Prior(c[k], b[i])
    <2>1. ASSUME Prior(c[k], b[i]) PROVE Place(c, k) < Place(b, i)
        BY <2>1, PlaceGrows
    <2> QED
        BY <1>2, <2>1
<1>5. KeySame(b[i], c[k])
    BY <1>1, <1>3, <1>4, NonePrior
<1>6. Content(b[i]) = Content(c[k])
    <2>1. ASSUME NEW t \in Transaction
          PROVE  Content(t) =
                     [id |-> 0, source |-> t.source, ref |-> t.ref, cp |-> t.cp,
                      currency |-> t.currency, amount |-> t.amount, day |-> t.day,
                      dir |-> t.dir, gross |-> t.gross,
                      commission |-> IF t.source = "marketplace" THEN t.commission ELSE 0]
        <3>1. t = [id |-> t.id, source |-> t.source, ref |-> t.ref, cp |-> t.cp,
                   currency |-> t.currency, amount |-> t.amount, day |-> t.day,
                   dir |-> t.dir, gross |-> t.gross, commission |-> t.commission]
            BY DEF Transaction
        <3> DEFINE fee == IF t.source = "marketplace" THEN t.commission ELSE 0
        <3>2. Content(t) = [t EXCEPT !.id = 0, !.commission = fee]
            BY <3>1 DEF Content
        <3> HIDE DEF fee
        <3>3. [t EXCEPT !.id = 0, !.commission = fee] = [Bare(t) EXCEPT !.commission = fee]
            BY DEF Bare
        <3>4. Bare(t) =
                  [id |-> 0, source |-> t.source, ref |-> t.ref, cp |-> t.cp,
                   currency |-> t.currency, amount |-> t.amount, day |-> t.day,
                   dir |-> t.dir, gross |-> t.gross, commission |-> t.commission]
            BY <3>1 DEF Bare
        <3> DEFINE q == Bare(t)
        <3> HIDE DEF q
        <3>5. [q EXCEPT !.commission = fee] =
                  [id |-> 0, source |-> t.source, ref |-> t.ref, cp |-> t.cp,
                   currency |-> t.currency, amount |-> t.amount, day |-> t.day,
                   dir |-> t.dir, gross |-> t.gross, commission |-> fee]
            BY <3>4 DEF q
        <3> QED
            BY <3>2, <3>3, <3>5 DEF fee, q
    <2>2. b[i].currency = c[k].currency
        BY <1>1 DEF ValidateMoney
    <2>3. b[i].source = "marketplace" => b[i].commission = c[k].commission
        <3>1. /\ b[i].gross \in Int /\ b[i].amount \in Int /\ b[i].commission \in Int
              /\ c[k].commission \in Int
            BY <1>1 DEF Transaction
        <3> QED
            BY <1>1, <1>5, <3>1 DEF ValidateMoney, KeySame
    <2> QED
        BY <1>1, <1>5, <2>1, <2>2, <2>3 DEF KeySame
<1> QED
    BY <1>5, <1>6 DEF Same, KeySame

\* f pairs the rows of two books by their places.
PairedBooks(f, b, c) ==
    /\ IsFiniteSet(DOMAIN b)
    /\ \A i \in DOMAIN b : f[i] \in DOMAIN c
    /\ \A i, j \in DOMAIN b : f[i] = f[j] => i = j
    /\ \A k \in DOMAIN c : \E i \in DOMAIN b : f[i] = k
    /\ \A i \in DOMAIN b : /\ b[i] \in Transaction
                           /\ c[f[i]] \in Transaction
                           /\ Same(b[i], c[f[i]])
    /\ \A i \in DOMAIN b : Place(b, i) \in Nat /\ Place(c, f[i]) = Place(b, i)
    /\ \A i, j \in DOMAIN b : Place(b, i) = Place(b, j) => i = j

\* Books whose rows correspond are paired by their places.
LEMMA BooksPaired ==
    ASSUME NEW b, GoodBook(b), NEW c, GoodBook(c), NEW g,
           \A k \in DOMAIN c : g[k] \in DOMAIN b /\ KeySame(c[k], b[g[k]]),
           \A k, l \in DOMAIN c : g[k] = g[l] => k = l,
           \A i \in DOMAIN b : \E k \in DOMAIN c : g[k] = i
    PROVE  \E f : PairedBooks(f, b, c)
<1> DEFINE n == Cardinality(DOMAIN b)
           h == [i \in DOMAIN b |-> CHOOSE k \in DOMAIN c : g[k] = i]
           f == [i \in DOMAIN b |-> CHOOSE k \in DOMAIN c : Place(c, k) = Place(b, i)]
<1>1. \A i \in DOMAIN b : h[i] \in DOMAIN c /\ g[h[i]] = i
    OBVIOUS
<1>2. /\ \A i \in DOMAIN b : h[i] \in DOMAIN c /\ KeySame(b[i], c[h[i]])
      /\ \A i, j \in DOMAIN b : h[i] = h[j] => i = j
    BY <1>1 DEF KeySame
<1>3. Cardinality(DOMAIN c) = n
    <2> DEFINE e == [k \in DOMAIN c |-> g[k]]
    <2>1. e \in [DOMAIN c -> DOMAIN b]
        OBVIOUS
    <2>2. e \in Bijection(DOMAIN c, DOMAIN b)
        BY <2>1 DEF Bijection, Injection, Surjection, IsInjective
    <2>3. ExistsBijection(DOMAIN c, DOMAIN b)
        BY <2>2 DEF ExistsBijection
    <2> QED
        BY <2>3, FS_Bijection DEF GoodBook
<1>4. /\ n \in Nat
      /\ \A i \in DOMAIN b : Place(b, i) \in 0..(n - 1)
      /\ \A i, j \in DOMAIN b : Place(b, i) = Place(b, j) => i = j
      /\ \A m \in 0..(n - 1) : \E i \in DOMAIN b : Place(b, i) = m
    BY PlacesTaken
<1>5. /\ \A k \in DOMAIN c : Place(c, k) \in 0..(n - 1)
      /\ \A k, l \in DOMAIN c : Place(c, k) = Place(c, l) => k = l
      /\ \A m \in 0..(n - 1) : \E k \in DOMAIN c : Place(c, k) = m
    BY <1>3, PlacesTaken
<1> HIDE DEF n, h
<1>6. \A i \in DOMAIN b : f[i] \in DOMAIN c /\ Place(c, f[i]) = Place(b, i)
    BY <1>4, <1>5
<1> HIDE DEF f
<1>7. \A i, j \in DOMAIN b : f[i] = f[j] => i = j
    BY <1>4, <1>6
<1>8. ASSUME NEW k \in DOMAIN c PROVE \E i \in DOMAIN b : f[i] = k
    <2>1. PICK i \in DOMAIN b : Place(b, i) = Place(c, k)
        BY <1>4, <1>5
    <2> QED
        BY <1>5, <1>6, <2>1
<1>9. ASSUME NEW i \in DOMAIN b PROVE Same(b[i], c[f[i]])
    <2>1. f[i] \in DOMAIN c /\ Place(b, i) = Place(c, f[i])
        BY <1>6
    <2> QED
        BY <1>2, <2>1, SamePlace, SMTT(20)
<1>10. /\ IsFiniteSet(DOMAIN b)
       /\ \A i \in DOMAIN b : b[i] \in Transaction
       /\ \A k \in DOMAIN c : c[k] \in Transaction
    BY DEF GoodBook
<1>11. \A i \in DOMAIN b : Place(b, i) \in Nat
    BY <1>4
<1>12. \A i \in DOMAIN b : /\ b[i] \in Transaction
                           /\ c[f[i]] \in Transaction
                           /\ Same(b[i], c[f[i]])
    BY <1>6, <1>9, <1>10
<1>13. PairedBooks(f, b, c)
    BY <1>4, <1>6, <1>7, <1>8, <1>10, <1>11, <1>12 DEF PairedBooks
<1> QED
    BY <1>13

\* What both runs compute from their argument, said once.
Carried(txs) ==
    [i \in {txs[k].id : k \in DOMAIN txs} |->
        txs[CHOOSE k \in DOMAIN txs : txs[k].id = i]]

\* Both runs carry a list into the book in the same way.
LEMMA BooksOneTwo ==
    ASSUME NEW txs, NEW b
    PROVE  /\ One!BookOf(txs) = Carried(txs) /\ Two!BookOf(txs) = Carried(txs)
           /\ One!RankOf(b) = [i \in DOMAIN b |-> Place(b, i)]
           /\ Two!RankOf(b) = [i \in DOMAIN b |-> Place(b, i)]
<1>1. One!BookOf(txs) = Carried(txs) /\ Two!BookOf(txs) = Carried(txs)
    BY DEF One!BookOf, Two!BookOf, Carried
<1>2. \A t, u : /\ One!Precedes(t, u) = Precedes(t, u)
                /\ Two!Precedes(t, u) = Precedes(t, u)
    BY DEF One!Precedes, Two!Precedes, Precedes, One!Before, Two!Before, Before,
           One!SortKey, Two!SortKey, SortKey, One!IsExpected, Two!IsExpected,
           IsExpected, One!DirectionOrder, Two!DirectionOrder, DirectionOrder,
           One!SourceOrder, Two!SourceOrder, SourceOrder
<1>3. ASSUME NEW i
      PROVE  /\ {j \in DOMAIN b : One!Precedes(b[j], b[i])} = Ahead(b, i)
             /\ {j \in DOMAIN b : Two!Precedes(b[j], b[i])} = Ahead(b, i)
    BY <1>2 DEF Ahead
<1>4. \A i : /\ One!Cardinality({j \in DOMAIN b : One!Precedes(b[j], b[i])}) = Place(b, i)
             /\ Two!Cardinality({j \in DOMAIN b : Two!Precedes(b[j], b[i])}) = Place(b, i)
    BY <1>3, CountOneTwo DEF Place
<1>5. /\ One!RankOf(b) = [i \in DOMAIN b |-> Place(b, i)]
      /\ Two!RankOf(b) = [i \in DOMAIN b |-> Place(b, i)]
    BY <1>4 DEF One!RankOf, Two!RankOf
<1> QED
    BY <1>1, <1>5

-----------------------------------------------------------------------------
(* The same rows in another order *)

\* The second list holds the rows of the first, numbered anew.
LEMMA ReorderedRows ==
    ASSUME NEW txs \in Seq(Transaction), NEW p \in Permutations(Len(txs)),
           NEW k \in DOMAIN txs
    PROVE  LET u == Reordered(txs, p)
           IN  /\ DOMAIN u = DOMAIN txs
               /\ p[k] \in DOMAIN txs
               /\ u[k].id = k
               /\ u[k] \in Transaction
               /\ KeySame(u[k], txs[p[k]])
               /\ u[k].currency = txs[p[k]].currency
               /\ u[k].commission = txs[p[k]].commission
<1> DEFINE u == Reordered(txs, p)
           t == txs[p[k]]
<1>1. DOMAIN txs = 1..Len(txs) /\ p[k] \in DOMAIN txs
    BY DEF Permutations
<1>2. DOMAIN u = DOMAIN txs /\ u[k] = [t EXCEPT !.id = k]
    BY DEF Reordered
<1>3. t \in Transaction /\ k \in Nat
    BY <1>1
<1> HIDE DEF t
<1>4. t = [id |-> t.id, source |-> t.source, ref |-> t.ref, cp |-> t.cp,
           currency |-> t.currency, amount |-> t.amount, day |-> t.day,
           dir |-> t.dir, gross |-> t.gross, commission |-> t.commission]
    BY <1>3 DEF Transaction
<1>5. [t EXCEPT !.id = k]
          = [id |-> k, source |-> t.source, ref |-> t.ref, cp |-> t.cp,
             currency |-> t.currency, amount |-> t.amount, day |-> t.day,
             dir |-> t.dir, gross |-> t.gross, commission |-> t.commission]
    BY <1>4
<1> HIDE DEF u
<1>6. /\ u[k].id = k /\ KeySame(u[k], t) /\ u[k].currency = t.currency
      /\ u[k].commission = t.commission
    BY <1>2, <1>5 DEF KeySame
<1>7. u[k] \in Transaction
    BY <1>2, <1>3, <1>5 DEF Transaction
<1> QED
    BY <1>1, <1>2, <1>6, <1>7 DEF u, t

\* Every row of the first list is somewhere in the second.
LEMMA AllReordered ==
    ASSUME NEW txs \in Seq(Transaction), NEW p \in Permutations(Len(txs))
    PROVE  /\ IsFiniteSet(DOMAIN txs)
           /\ \A k, l \in DOMAIN txs : p[k] = p[l] => k = l
           /\ \A l \in DOMAIN txs : \E k \in DOMAIN txs : p[k] = l
<1> DEFINE D == DOMAIN txs
<1>1. D = 1..Len(txs) /\ Len(txs) \in Nat
    OBVIOUS
<1>2. IsFiniteSet(D)
    BY <1>1, FS_Interval
<1>3. p \in [D -> D] /\ \A k, l \in D : p[k] = p[l] => k = l
    BY <1>1 DEF Permutations
<1>4. p \in Injection(D, D)
    BY <1>3 DEF Injection, IsInjective
<1>5. p \in Surjection(D, D)
    <2> HIDE DEF D
    <2> QED
        BY <1>2, <1>4, FS_Injection
<1> QED
    BY <1>2, <1>3, <1>5 DEF Surjection

\* What a transaction weighs in the total that validation bounds.
Load(txs) == [k \in DOMAIN txs |-> txs[k].amount + txs[k].commission]

LoadTotals(txs, g) ==
    g = [s \in SUBSET DOMAIN txs |->
            IF s = {} THEN 0
            ELSE txs[CHOOSE x \in s : TRUE].amount
                     + txs[CHOOSE x \in s : TRUE].commission
                     + g[s \ {CHOOSE x \in s : TRUE}]]

\* The totals of validation, one by one.
LEMMA LoadTotalsMeaning ==
    ASSUME NEW txs, NEW g, LoadTotals(txs, g)
    PROVE  /\ \E h : LoadTotals(txs, h) /\ h[DOMAIN txs] = One!Total(txs)
           /\ \E h : LoadTotals(txs, h) /\ h[DOMAIN txs] = Two!Total(txs)
BY DEF LoadTotals, One!Total, One!MapThenSumSet, One!MapThenFoldSet,
       Two!Total, Two!MapThenSumSet, Two!MapThenFoldSet

\* The last of them is the sum over the list.
LEMMA LoadIsSum ==
    ASSUME NEW txs, IsFiniteSet(DOMAIN txs)
    PROVE  /\ One!Total(txs) = Sum(Load(txs), DOMAIN txs)
           /\ Two!Total(txs) = Sum(Load(txs), DOMAIN txs)
<1> DEFINE w == Load(txs)
<1>1. PICK g : Sums(w, g, SUBSET DOMAIN txs)
    BY SumMeaning
<1>2. \A s \in SUBSET DOMAIN txs :
          s # {} => w[Some(s)] = txs[Some(s)].amount + txs[Some(s)].commission
    BY DEF Some, Load
<1>3. \A h : LoadTotals(txs, h) <=> Sums(w, h, SUBSET DOMAIN txs)
    BY <1>2 DEF LoadTotals, Sums, Added, Some
<1>4. PICK h : LoadTotals(txs, h) /\ h[DOMAIN txs] = One!Total(txs)
    BY <1>1, <1>3, LoadTotalsMeaning
<1>5. PICK h2 : LoadTotals(txs, h2) /\ h2[DOMAIN txs] = Two!Total(txs)
    BY <1>1, <1>3, LoadTotalsMeaning
<1> QED
    BY <1>3, <1>4, <1>5, SumMeaning

\* Order and numbers do not change the total.
LEMMA ReorderedTotal ==
    ASSUME NEW txs \in Seq(Transaction), NEW p \in Permutations(Len(txs))
    PROVE  One!Total(txs) = Two!Total(Reordered(txs, p))
<1> DEFINE u == Reordered(txs, p)
           D == DOMAIN txs
           v == Load(u)
           w == Load(txs)
<1>1. /\ IsFiniteSet(D)
      /\ \A k, l \in D : p[k] = p[l] => k = l
      /\ \A l \in D : \E k \in D : p[k] = l
    BY AllReordered
<1>2. /\ DOMAIN u = D
      /\ \A k \in D : /\ p[k] \in D /\ u[k].amount = txs[p[k]].amount
                      /\ u[k].commission = txs[p[k]].commission
    <2>1. DOMAIN u = D
        BY DEF Reordered
    <2> QED
        BY <2>1, ReorderedRows DEF KeySame
<1>3. \A k \in D : w[p[k]] \in Int /\ v[k] = w[p[k]]
    <2>1. \A k \in D : w[k] = txs[k].amount + txs[k].commission
        BY DEF Load
    <2>2. \A k \in D : v[k] = u[k].amount + u[k].commission
        BY <1>2 DEF Load
    <2>3. ASSUME NEW k \in D
          PROVE  txs[k].amount \in Int /\ txs[k].commission \in Int
        <3>1. txs[k] \in Transaction
            OBVIOUS
        <3> QED
            BY <3>1 DEF Transaction
    <2> HIDE DEF u, v, w, D
    <2> QED
        BY <1>2, <2>1, <2>2, <2>3
<1> HIDE DEF u, v, w, D
<1>4. {p[k] : k \in D} = D
    BY <1>1, <1>2
<1>5. Sum(v, D) = Sum(w, {p[k] : k \in D})
    BY <1>1, <1>3, SumImage
<1>6. One!Total(txs) = Sum(w, D) /\ Two!Total(u) = Sum(v, D)
    BY <1>1, <1>2, LoadIsSum DEF D, v, w
<1> QED
    BY <1>4, <1>5, <1>6 DEF u

\* One list is accepted if and only if the other is.
LEMMA AcceptedAlike ==
    ASSUME NEW txs \in Inputs, NEW p \in Permutations(Len(txs))
    PROVE  One!Acceptable(txs) <=> Two!Acceptable(Reordered(txs, p))
<1> DEFINE u == Reordered(txs, p)
<1>1. txs \in Seq(Transaction) /\ \A k, l \in DOMAIN txs : txs[k].id = txs[l].id => k = l
    BY LoadedAssumption
<1>2. /\ \A k, l \in DOMAIN txs : p[k] = p[l] => k = l
      /\ \A l \in DOMAIN txs : \E k \in DOMAIN txs : p[k] = l
    BY <1>1, AllReordered
<1>3. DOMAIN u = DOMAIN txs
    BY DEF Reordered
<1>4. \A k \in DOMAIN txs :
          /\ p[k] \in DOMAIN txs /\ u[k].id = k
          /\ KeySame(u[k], txs[p[k]])
          /\ u[k].currency = txs[p[k]].currency
          /\ u[k].commission = txs[p[k]].commission
    BY <1>1, ReorderedRows
<1> HIDE DEF u
<1>5. \A k \in DOMAIN txs : Two!ValidateMoney(u[k]) <=> One!ValidateMoney(txs[p[k]])
    BY <1>4 DEF One!ValidateMoney, Two!ValidateMoney, KeySame
<1>6. (\A k \in DOMAIN u : Two!ValidateMoney(u[k]))
          <=> \A k \in DOMAIN txs : One!ValidateMoney(txs[k])
    BY <1>2, <1>3, <1>4, <1>5
<1>7. \A k, l \in DOMAIN u : u[k].id = u[l].id => k = l
    BY <1>3, <1>4, SMTT(20)
<1>8. One!Total(txs) = Two!Total(u)
    BY <1>1, ReorderedTotal DEF u
<1>9. One!Acceptable(txs) <=> Two!Acceptable(u)
    BY <1>1, <1>6, <1>7, <1>8 DEF One!Acceptable, Two!Acceptable
<1> QED
    BY <1>9 DEF u

\* The book of a list of acceptable rows.
LEMMA CarriedBook ==
    ASSUME NEW txs \in Seq(Transaction),
           \A k, l \in DOMAIN txs : txs[k].id = txs[l].id => k = l,
           \A k \in DOMAIN txs : ValidateMoney(txs[k])
    PROVE  /\ GoodBook(Carried(txs))
           /\ DOMAIN Carried(txs) = {txs[k].id : k \in DOMAIN txs}
           /\ \A k \in DOMAIN txs : Carried(txs)[txs[k].id] = txs[k]
<1> DEFINE b == Carried(txs)
           id == [k \in DOMAIN txs |-> txs[k].id]
<1>1. IsFiniteSet(DOMAIN txs)
    <2>1. DOMAIN txs = 1..Len(txs) /\ Len(txs) \in Nat
        OBVIOUS
    <2> QED
        BY <2>1, FS_Interval
<1>2. DOMAIN b = {txs[k].id : k \in DOMAIN txs}
    BY DEF Carried
<1>3. id \in Surjection(DOMAIN txs, DOMAIN b)
    BY <1>2 DEF Surjection
<1>4. IsFiniteSet(DOMAIN b)
    BY <1>1, <1>3, FS_Surjection
<1>5. ASSUME NEW k \in DOMAIN txs PROVE b[txs[k].id] = txs[k]
    <2>1. \A n \in DOMAIN txs : txs[n].id = txs[k].id => n = k
        OBVIOUS
    <2>2. (CHOOSE n \in DOMAIN txs : txs[n].id = txs[k].id) = k
        BY <2>1
    <2>3. b[txs[k].id] = txs[CHOOSE n \in DOMAIN txs : txs[n].id = txs[k].id]
        BY DEF Carried
    <2> QED
        BY <2>2, <2>3
<1> HIDE DEF b
<1>6. ASSUME NEW i \in DOMAIN b
      PROVE  b[i] \in Transaction /\ b[i].id = i /\ ValidateMoney(b[i])
    <2>1. PICK k \in DOMAIN txs : i = txs[k].id
        BY <1>2
    <2>2. b[i] = txs[k] /\ txs[k] \in Transaction
        BY <1>5, <2>1
    <2> QED
        BY <2>1, <2>2
<1>7. GoodBook(b)
    BY <1>4, <1>6 DEF GoodBook
<1> QED
    BY <1>2, <1>5, <1>7 DEF b

\* Two orders of one list give books that are paired.
LEMMA BooksMade ==
    ASSUME NEW txs \in Inputs, NEW p \in Permutations(Len(txs)),
           One!Acceptable(txs), Two!Acceptable(Reordered(txs, p))
    PROVE  \E f : PairedBooks(f, Carried(txs), Carried(Reordered(txs, p)))
<1> DEFINE u == Reordered(txs, p)
           b == Carried(txs)
           c == Carried(u)
           n == Len(txs)
           g == [k \in DOMAIN txs |-> txs[p[k]].id]
<1>1. txs \in Seq(Transaction) /\ \A k, l \in DOMAIN txs : txs[k].id = txs[l].id => k = l
    BY LoadedAssumption
<1>2. /\ \A k, l \in DOMAIN txs : p[k] = p[l] => k = l
      /\ \A l \in DOMAIN txs : \E k \in DOMAIN txs : p[k] = l
    BY <1>1, AllReordered
<1>3. DOMAIN u = DOMAIN txs
    BY DEF Reordered
<1>4. \A k \in DOMAIN txs :
          /\ p[k] \in DOMAIN txs /\ u[k].id = k /\ u[k] \in Transaction
          /\ KeySame(u[k], txs[p[k]])
    BY <1>1, ReorderedRows
<1>5. \A t : (One!ValidateMoney(t) <=> ValidateMoney(t))
                 /\ (Two!ValidateMoney(t) <=> ValidateMoney(t))
    BY DEF One!ValidateMoney, Two!ValidateMoney, ValidateMoney
<1>6. u \in Seq(Transaction)
    <2>1. u = [k \in 1..n |-> u[k]] /\ n \in Nat /\ DOMAIN txs = 1..n
        BY <1>1 DEF Reordered
    <2> HIDE DEF u, n
    <2> QED
        BY <1>3, <1>4, <2>1
<1> HIDE DEF u
<1>7. /\ GoodBook(b) /\ DOMAIN b = {txs[k].id : k \in DOMAIN txs}
      /\ \A k \in DOMAIN txs : b[txs[k].id] = txs[k]
    <2>1. \A k \in DOMAIN txs : ValidateMoney(txs[k])
        BY <1>5 DEF One!Acceptable
    <2> QED
        BY <1>1, <2>1, CarriedBook
<1>8. /\ GoodBook(c) /\ DOMAIN c = {u[k].id : k \in DOMAIN u}
      /\ \A k \in DOMAIN u : c[u[k].id] = u[k]
    <2>1. \A k \in DOMAIN u : ValidateMoney(u[k])
        BY <1>5 DEF u, Two!Acceptable
    <2>2. \A k, l \in DOMAIN u : u[k].id = u[l].id => k = l
        BY <1>3, <1>4, SMTT(20)
    <2> QED
        BY <1>6, <2>1, <2>2, CarriedBook
<1>9. DOMAIN c = DOMAIN txs /\ \A k \in DOMAIN txs : c[k] = u[k]
    BY <1>3, <1>4, <1>8, ZenonT(40)
<1> HIDE DEF b, c
<1>10. \A k \in DOMAIN c : g[k] \in DOMAIN b /\ KeySame(c[k], b[g[k]])
    BY <1>4, <1>7, <1>9
<1>11. \A k, l \in DOMAIN c : g[k] = g[l] => k = l
    BY <1>1, <1>2, <1>4, <1>9, ZenonT(40)
<1>12. \A i \in DOMAIN b : \E k \in DOMAIN c : g[k] = i
    BY <1>2, <1>7, <1>9
<1> HIDE DEF g
<1>13. \E f : PairedBooks(f, b, c)
    BY <1>7, <1>8, <1>10, <1>11, <1>12, BooksPaired, ZenonT(40)
<1> QED
    BY <1>13 DEF b, c, u

-----------------------------------------------------------------------------
(* The runs in step *)

\* What a match over the rows R may be.
MatchesOf(R) == [kind : One!Kinds, score : Int, rows : SUBSET R]

\* The matches of the two runs correspond, one by one.
MatchTwins(f, m1, m2) ==
    /\ m1 \in Seq(MatchesOf(Rows1)) /\ m2 \in Seq(MatchesOf(Rows2))
    /\ Len(m1) = Len(m2)
    /\ \A n \in 1..Len(m1) : /\ m1[n].kind = m2[n].kind
                             /\ m1[n].score = m2[n].score
                             /\ Twins(f, m1[n].rows, m2[n].rows)

\* So do the discrepancies.
TypedTwins(f, d1, d2) ==
    /\ Twins(f, DOMAIN d1, DOMAIN d2)
    /\ \A i \in DOMAIN d1 : d2[f[i]] = d1[i]

\* Both runs are past validation, at the same place of the pipeline, and have
\* done the same to twins.
InStep(f) ==
    /\ Paired(f)
    /\ Twins(f, open1, open2)
    /\ Twins(f, walk1, walk2)
    /\ Twins(f, capped1, capped2)
    /\ Twins(f, unsure1, unsure2)
    /\ TwinPairs(f, edges1, edges2)
    /\ MatchTwins(f, matches1, matches2)
    /\ TypedTwins(f, typed1, typed2)
    /\ phase1 = phase2 /\ pass1 = pass2 /\ tier1 = tier2
    /\ phase1 # "validate"

\* The books stay as they were.
SameBooks == UNCHANGED <<book1, rank1, book2, rank2>>

\* Runs over the same books are in step when their parts correspond.
LEMMA StaysInStep ==
    ASSUME NEW f, Paired(f), SameBooks,
           Twins(f, open1', open2'), Twins(f, walk1', walk2'),
           Twins(f, capped1', capped2'), Twins(f, unsure1', unsure2'),
           TwinPairs(f, edges1', edges2'),
           MatchTwins(f, matches1', matches2'),
           TypedTwins(f, typed1', typed2'),
           phase1' = phase2', pass1' = pass2', tier1' = tier2',
           phase1' # "validate"
    PROVE  InStep(f)'
<1>1. Rows1' = Rows1 /\ Rows2' = Rows2
    BY DEF SameBooks, Rows1, Rows2
<1>2. Paired(f)'
    BY <1>1 DEF Paired, SameBooks
<1>3. /\ Twins(f, open1, open2)' /\ Twins(f, walk1, walk2)'
      /\ Twins(f, capped1, capped2)' /\ Twins(f, unsure1, unsure2)'
    BY <1>1 DEF Twins
<1>4. TwinPairs(f, edges1, edges2)'
    BY <1>1 DEF TwinPairs
<1>5. MatchTwins(f, matches1, matches2)'
    BY <1>1 DEF MatchTwins, Twins
<1>6. TypedTwins(f, typed1, typed2)'
    BY <1>1 DEF TypedTwins, Twins
<1> QED
    BY <1>2, <1>3, <1>4, <1>5, <1>6 DEF InStep

\* The first rows of corresponding sets are twins.
LEMMA FirstTwins ==
    ASSUME NEW f, Paired(f), NEW A, NEW B, Twins(f, A, B),
           NEW i, One!IsFirst(i, A), NEW k, Two!IsFirst(k, B)
    PROVE  i \in Rows1 /\ i \in A /\ k = f[i]
<1>1. i \in Rows1 /\ i \in A
    BY DEF One!IsFirst, Twins
<1>2. Two!IsFirst(f[i], B)
    BY <1>1, TwinsFirst
<1>3. /\ \A x \in A : x \in Rows1 /\ f[x] \in B
      /\ \A y \in B : \E x \in A : f[x] = y
    BY TwinsMade
<1>4. PICK j \in A : f[j] = k
    BY <1>3 DEF Two!IsFirst
<1>5. /\ rank2[f[i]] = rank1[i] /\ rank2[f[j]] = rank1[j]
      /\ rank1[i] \in Nat /\ rank1[j] \in Nat
    BY <1>1, <1>3, <1>4, Fields
<1>6. rank2[f[i]] <= rank2[f[j]] /\ rank2[f[j]] <= rank2[f[i]]
    BY <1>2, <1>4 DEF Two!IsFirst
<1>7. rank1[i] = rank1[j]
    BY <1>5, <1>6
<1>8. i = j
    BY <1>1, <1>3, <1>4, <1>7 DEF Paired
<1> QED
    BY <1>1, <1>4, <1>8

\* Two rows and their twins.
LEMMA TwinsTwo ==
    ASSUME NEW f, Paired(f), NEW i \in Rows1, NEW j \in Rows1
    PROVE  Twins(f, {i, j}, {f[i], f[j]})
BY DEF Paired, Twins

\* A match appended by both runs.
LEMMA MatchAppended ==
    ASSUME NEW f, NEW m1, NEW m2, MatchTwins(f, m1, m2),
           NEW kind \in One!Kinds, NEW score \in Int,
           NEW R, NEW S, Twins(f, R, S)
    PROVE  MatchTwins(f,
               Append(m1, [kind |-> kind, score |-> score, rows |-> R]),
               Append(m2, [kind |-> kind, score |-> score, rows |-> S]))
<1> DEFINE x == [kind |-> kind, score |-> score, rows |-> R]
           y == [kind |-> kind, score |-> score, rows |-> S]
           p == Append(m1, x)
           q == Append(m2, y)
<1>1. x \in MatchesOf(Rows1) /\ y \in MatchesOf(Rows2)
    BY DEF MatchesOf, Twins
<1>2. /\ x.kind = y.kind /\ x.score = y.score /\ Twins(f, x.rows, y.rows)
    OBVIOUS
<1> HIDE DEF x, y
<1>3. /\ m1 \in Seq(MatchesOf(Rows1)) /\ m2 \in Seq(MatchesOf(Rows2))
      /\ Len(m1) = Len(m2) /\ Len(m1) \in Nat
    BY DEF MatchTwins
<1>4. /\ p \in Seq(MatchesOf(Rows1)) /\ q \in Seq(MatchesOf(Rows2))
      /\ Len(p) = Len(m1) + 1 /\ Len(q) = Len(m2) + 1
      /\ \A n \in 1..Len(m1) : p[n] = m1[n]
      /\ \A n \in 1..Len(m2) : q[n] = m2[n]
      /\ p[Len(m1) + 1] = x /\ q[Len(m2) + 1] = y
    BY <1>1, <1>3
<1> HIDE DEF p, q
<1>5. ASSUME NEW n \in 1..Len(p)
      PROVE  /\ p[n].kind = q[n].kind
             /\ p[n].score = q[n].score
             /\ Twins(f, p[n].rows, q[n].rows)
    <2>1. CASE n \in 1..Len(m1)
        BY <1>3, <1>4, <2>1 DEF MatchTwins
    <2>2. CASE n = Len(m1) + 1
        BY <1>2, <1>3, <1>4, <2>2
    <2> QED
        BY <1>3, <1>4, <2>1, <2>2
<1>6. MatchTwins(f, p, q)
    BY <1>3, <1>4, <1>5 DEF MatchTwins
<1> QED
    BY <1>6 DEF p, q, x, y

\* The score of a pair is a number.
LEMMA ScoreNumber ==
    ASSUME NEW f, Paired(f), NEW e \in Rows1, NEW o \in Rows1
    PROVE  One!Score(e, o) \in Int
<1>1. /\ book1[e].amount \in Int /\ book1[o].amount \in Int
      /\ book1[e].day \in Int /\ book1[o].day \in Int
    BY Fields
<1>2. One!AmountDiff(e, o) \in Int /\ One!DayDiff(book1[e], book1[o]) \in Int
    BY <1>1 DEF One!AmountDiff, One!DayDiff, One!AbsDiff
<1>3. book1[e].amount > 0 =>
          One!BasisPoints(One!AmountDiff(e, o), book1[e].amount) \in Int
    BY <1>1, <1>2 DEF One!BasisPoints
<1> QED
    BY <1>2, <1>3 DEF One!Score, One!FullScore

\* Where the pipeline is decides what it may do next.
LEMMA OnePhases ==
    ASSUME One!Next
    PROVE  /\ phase1 = "validate" => One!Accept \/ One!Reject
           /\ phase1 = "exact" => One!ExactPair \/ One!ExactDone
           /\ phase1 = "split" => One!SplitMatch \/ One!SplitDone
           /\ phase1 = "tolerant" => One!TolerantPair \/ One!NextTier \/ One!TolerantDone
           /\ phase1 = "group" => \/ One!PayoutOverCap \/ One!PayoutUnexplained
                                  \/ One!PayoutAmbiguous \/ One!PayoutMatched
                                  \/ One!GroupsDone
           /\ phase1 = "classify" => One!Classify
           /\ phase1 = "check" => One!Finish
           /\ phase1 \in {"done", "failed"} => One!Returned
           /\ phase1 \in {"validate", "exact", "split", "tolerant", "group",
                          "classify", "check", "done", "failed"}
BY DEF One!Next, One!Accept, One!Reject, One!ExactPair, One!ExactDone,
       One!SplitMatch, One!SplitDone, One!TolerantPair, One!NextTier,
       One!TolerantDone, One!PayoutOverCap, One!PayoutUnexplained,
       One!PayoutAmbiguous, One!PayoutMatched, One!NextPayout, One!GroupsDone,
       One!Classify, One!Finish, One!Returned

\* The same of the second run.
LEMMA TwoPhases ==
    ASSUME Two!Next
    PROVE  /\ phase2 = "validate" => Two!Accept \/ Two!Reject
           /\ phase2 = "exact" => Two!ExactPair \/ Two!ExactDone
           /\ phase2 = "split" => Two!SplitMatch \/ Two!SplitDone
           /\ phase2 = "tolerant" => Two!TolerantPair \/ Two!NextTier \/ Two!TolerantDone
           /\ phase2 = "group" => \/ Two!PayoutOverCap \/ Two!PayoutUnexplained
                                  \/ Two!PayoutAmbiguous \/ Two!PayoutMatched
                                  \/ Two!GroupsDone
           /\ phase2 = "classify" => Two!Classify
           /\ phase2 = "check" => Two!Finish
           /\ phase2 \in {"done", "failed"} => Two!Returned
BY DEF Two!Next, Two!Accept, Two!Reject, Two!ExactPair, Two!ExactDone,
       Two!SplitMatch, Two!SplitDone, Two!TolerantPair, Two!NextTier,
       Two!TolerantDone, Two!PayoutOverCap, Two!PayoutUnexplained,
       Two!PayoutAmbiguous, Two!PayoutMatched, Two!NextPayout, Two!GroupsDone,
       Two!Classify, Two!Finish, Two!Returned

\* The exact pass takes twins.
LEMMA ExactInStep ==
    ASSUME NEW f, InStep(f), phase1 = "exact", One!Next, Two!Next
    PROVE  InStep(f)'
<1> USE DEF One!poolVars, Two!poolVars, One!groupVars, Two!groupVars,
            One!reportVars, Two!reportVars
<1>1. /\ One!ExactPair \/ One!ExactDone
      /\ Two!ExactPair \/ Two!ExactDone
    BY OnePhases, TwoPhases DEF InStep
<1>2. /\ Paired(f) /\ InPool(f)
      /\ Twins(f, open1, open2)
      /\ MatchTwins(f, matches1, matches2)
    BY DEF InStep, InPool
<1>3. Twins(f, One!ExactRows, Two!ExactRows)
    BY <1>2, TwinExactRows
<1>4. One!ExactRows = {} <=> Two!ExactRows = {}
    BY <1>2, <1>3, TwinsEmpty
<1>5. CASE One!ExactPair /\ Two!ExactPair
    <2>1. PICK e1 \in One!ExactRows :
              \E a1 \in One!ExactFits(e1) :
                  /\ One!IsFirst(e1, One!ExactRows)
                  /\ One!IsFirst(a1, One!ExactFits(e1))
                  /\ One!Take("exact", One!FullScore, {e1, a1})
        BY <1>5 DEF One!ExactPair
    <2>2. PICK e2 \in Two!ExactRows :
              \E a2 \in Two!ExactFits(e2) :
                  /\ Two!IsFirst(e2, Two!ExactRows)
                  /\ Two!IsFirst(a2, Two!ExactFits(e2))
                  /\ Two!Take("exact", Two!FullScore, {e2, a2})
        BY <1>5 DEF Two!ExactPair
    <2>3. PICK a1 \in One!ExactFits(e1) :
              /\ One!IsFirst(e1, One!ExactRows)
              /\ One!IsFirst(a1, One!ExactFits(e1))
              /\ One!Take("exact", One!FullScore, {e1, a1})
        BY <2>1
    <2>4. PICK a2 \in Two!ExactFits(e2) :
              /\ Two!IsFirst(e2, Two!ExactRows)
              /\ Two!IsFirst(a2, Two!ExactFits(e2))
              /\ Two!Take("exact", Two!FullScore, {e2, a2})
        BY <2>2
    <2>5. e1 \in Rows1 /\ e2 = f[e1]
        BY <1>2, <1>3, <2>3, <2>4, FirstTwins
    <2>6. Twins(f, One!ExactFits(e1), Two!ExactFits(e2))
        BY <1>2, <2>5, TwinFits
    <2>7. a1 \in Rows1 /\ a2 = f[a1]
        BY <1>2, <2>6, <2>3, <2>4, FirstTwins
    <2> DEFINE R == {e1, a1}
               S == {e2, a2}
    <2>8. Twins(f, R, S)
        BY <1>2, <2>5, <2>7, TwinsTwo
    <2>9. /\ One!Take("exact", 10000, R) /\ Two!Take("exact", 10000, S)
        BY <2>3, <2>4 DEF One!FullScore, Two!FullScore
    <2> HIDE DEF R, S
    <2>10. Twins(f, open1', open2')
        <3>1. Twins(f, open1 \ R, open2 \ S)
            BY <1>2, <2>8, TwinsLess
        <3> QED
            BY <2>9, <3>1 DEF One!Take, Two!Take
    <2>11. MatchTwins(f, matches1', matches2')
        <3>1. MatchTwins(f,
                  Append(matches1, [kind |-> "exact", score |-> 10000, rows |-> R]),
                  Append(matches2, [kind |-> "exact", score |-> 10000, rows |-> S]))
            <4>1. "exact" \in One!Kinds /\ 10000 \in Int
                BY DEF One!Kinds
            <4> QED
                BY <1>2, <2>8, <4>1, MatchAppended
        <3> QED
            BY <2>9, <3>1 DEF One!Take, Two!Take
    <2>12. UNCHANGED <<book1, rank1, phase1, pass1, tier1, edges1, walk1, capped1,
                       unsure1, typed1, book2, rank2, phase2, pass2, tier2, edges2,
                       walk2, capped2, unsure2, typed2>>
        BY <1>5 DEF One!ExactPair, Two!ExactPair
    <2> QED
        BY <2>10, <2>11, <2>12, StaysInStep DEF InStep, SameBooks
<1>6. CASE One!ExactDone /\ Two!ExactDone
    <2>1. phase1' = "split" /\ phase2' = "split"
        BY <1>6 DEF One!ExactDone, Two!ExactDone
    <2>2. UNCHANGED <<book1, rank1, open1, pass1, tier1, edges1, walk1, matches1,
                      capped1, unsure1, typed1, book2, rank2, open2, pass2, tier2,
                      edges2, walk2, matches2, capped2, unsure2, typed2>>
        BY <1>6 DEF One!ExactDone, Two!ExactDone
    <2> QED
        BY <2>1, <2>2, StaysInStep DEF InStep, SameBooks
<1>7. ASSUME One!ExactPair, Two!ExactDone PROVE FALSE
    BY <1>4, <1>7 DEF One!ExactPair, Two!ExactDone
<1>8. ASSUME One!ExactDone, Two!ExactPair PROVE FALSE
    BY <1>4, <1>8 DEF One!ExactDone, Two!ExactPair
<1> QED
    BY <1>1, <1>5, <1>6, <1>7, <1>8

\* The split pass takes twins.
LEMMA SplitInStep ==
    ASSUME NEW f, InStep(f), phase1 = "split", One!Next, Two!Next
    PROVE  InStep(f)'
<1> USE DEF One!poolVars, Two!poolVars, One!groupVars, Two!groupVars,
            One!reportVars, Two!reportVars
<1>1. /\ One!SplitMatch \/ One!SplitDone
      /\ Two!SplitMatch \/ Two!SplitDone
    BY OnePhases, TwoPhases DEF InStep
<1>2. /\ Paired(f) /\ InPool(f)
      /\ Twins(f, open1, open2)
      /\ MatchTwins(f, matches1, matches2)
    BY DEF InStep, InPool
<1>3. Twins(f, One!SplitRows, Two!SplitRows)
    BY <1>2, TwinSplitRows
<1>4. One!SplitRows = {} <=> Two!SplitRows = {}
    BY <1>2, <1>3, TwinsEmpty
<1>5. CASE One!SplitMatch /\ Two!SplitMatch
    <2>1. PICK e1 \in One!SplitRows :
              /\ One!IsFirst(e1, One!SplitRows)
              /\ One!Take("split", One!FullScore, {e1} \cup One!SplitParts(e1))
        BY <1>5 DEF One!SplitMatch
    <2>2. PICK e2 \in Two!SplitRows :
              /\ Two!IsFirst(e2, Two!SplitRows)
              /\ Two!Take("split", Two!FullScore, {e2} \cup Two!SplitParts(e2))
        BY <1>5 DEF Two!SplitMatch
    <2>3. e1 \in Rows1 /\ e2 = f[e1]
        BY <1>2, <1>3, <2>1, <2>2, FirstTwins
    <2> DEFINE R == {e1} \cup One!SplitParts(e1)
               S == {e2} \cup Two!SplitParts(e2)
    <2>6. Twins(f, R, S)
        <3>1. Twins(f, {e1}, {e2})
            BY <1>2, <2>3, TwinsOne
        <3>2. Twins(f, One!SplitParts(e1), Two!SplitParts(e2))
            BY <1>2, <2>3, TwinParts
        <3> QED
            BY <3>1, <3>2, TwinsJoin
    <2>7. /\ One!Take("split", 10000, R) /\ Two!Take("split", 10000, S)
        BY <2>1, <2>2 DEF One!FullScore, Two!FullScore
    <2> HIDE DEF R, S
    <2>8. Twins(f, open1', open2')
        <3>1. Twins(f, open1 \ R, open2 \ S)
            BY <1>2, <2>6, TwinsLess
        <3> QED
            BY <2>7, <3>1 DEF One!Take, Two!Take
    <2>9. MatchTwins(f, matches1', matches2')
        <3>1. MatchTwins(f,
                  Append(matches1, [kind |-> "split", score |-> 10000, rows |-> R]),
                  Append(matches2, [kind |-> "split", score |-> 10000, rows |-> S]))
            <4>1. "split" \in One!Kinds /\ 10000 \in Int
                BY DEF One!Kinds
            <4> QED
                BY <1>2, <2>6, <4>1, MatchAppended
        <3> QED
            BY <2>7, <3>1 DEF One!Take, Two!Take
    <2>10. UNCHANGED <<book1, rank1, phase1, pass1, tier1, edges1, walk1, capped1,
                       unsure1, typed1, book2, rank2, phase2, pass2, tier2, edges2,
                       walk2, capped2, unsure2, typed2>>
        BY <1>5 DEF One!SplitMatch, Two!SplitMatch
    <2> QED
        BY <2>8, <2>9, <2>10, StaysInStep DEF InStep, SameBooks
<1>6. CASE One!SplitDone /\ Two!SplitDone
    <2>1. /\ phase1' = "tolerant" /\ phase2' = "tolerant"
          /\ pass1' = 1 /\ pass2' = 1
          /\ One!BeginTier(0) /\ Two!BeginTier(0)
        BY <1>6 DEF One!SplitDone, Two!SplitDone, One!TierRef, Two!TierRef
    <2>2. UNCHANGED <<book1, rank1, open1, matches1, capped1, unsure1, typed1,
                      book2, rank2, open2, matches2, capped2, unsure2, typed2>>
        BY <1>6 DEF One!SplitDone, Two!SplitDone
    <2>3. /\ TwinPairs(f, edges1', edges2') /\ Twins(f, walk1', walk2')
          /\ tier1' = tier2'
        BY <1>2, <2>1, TwinEdges, TwinPools DEF One!BeginTier, Two!BeginTier
    <2> QED
        BY <2>1, <2>2, <2>3, StaysInStep DEF InStep, SameBooks
<1>7. ASSUME One!SplitMatch, Two!SplitDone PROVE FALSE
    BY <1>4, <1>7 DEF One!SplitMatch, Two!SplitDone
<1>8. ASSUME One!SplitDone, Two!SplitMatch PROVE FALSE
    BY <1>4, <1>8 DEF One!SplitDone, Two!SplitMatch
<1> QED
    BY <1>1, <1>5, <1>6, <1>7, <1>8

\* The tolerant pass takes twins.
LEMMA TolerantInStep ==
    ASSUME NEW f, InStep(f), phase1 = "tolerant", One!Next, Two!Next
    PROVE  InStep(f)'
<1> USE DEF One!poolVars, Two!poolVars, One!groupVars, Two!groupVars,
            One!reportVars, Two!reportVars
<1>1. /\ One!TolerantPair \/ One!NextTier \/ One!TolerantDone
      /\ Two!TolerantPair \/ Two!NextTier \/ Two!TolerantDone
    BY OnePhases, TwoPhases DEF InStep
<1>2. /\ Paired(f) /\ InPool(f)
      /\ Twins(f, open1, open2)
      /\ Twins(f, walk1, walk2)
      /\ TwinPairs(f, edges1, edges2)
      /\ MatchTwins(f, matches1, matches2)
      /\ tier1 = tier2
    BY DEF InStep, InPool
<1>3. Twins(f, One!PairRows, Two!PairRows)
    BY <1>2, TwinPairRows
<1>4. One!PairRows = {} <=> Two!PairRows = {}
    BY <1>2, <1>3, TwinsEmpty
<1>5. CASE One!TolerantPair /\ Two!TolerantPair
    <2>1. PICK e1 \in One!PairRows :
              \E o1 \in One!Pairs(e1) :
                  /\ One!IsFirst(e1, One!PairRows)
                  /\ One!Take(One!PairKind(o1), One!Score(e1, o1), {e1, o1})
                  /\ walk1' = One!After(walk1, e1)
        BY <1>5 DEF One!TolerantPair
    <2>2. PICK e2 \in Two!PairRows :
              \E o2 \in Two!Pairs(e2) :
                  /\ Two!IsFirst(e2, Two!PairRows)
                  /\ Two!Take(Two!PairKind(o2), Two!Score(e2, o2), {e2, o2})
                  /\ walk2' = Two!After(walk2, e2)
        BY <1>5 DEF Two!TolerantPair
    <2>3. PICK o1 \in One!Pairs(e1) :
              /\ One!IsFirst(e1, One!PairRows)
              /\ One!Take(One!PairKind(o1), One!Score(e1, o1), {e1, o1})
              /\ walk1' = One!After(walk1, e1)
        BY <2>1
    <2>4. PICK o2 \in Two!Pairs(e2) :
              /\ Two!IsFirst(e2, Two!PairRows)
              /\ Two!Take(Two!PairKind(o2), Two!Score(e2, o2), {e2, o2})
              /\ walk2' = Two!After(walk2, e2)
        BY <2>2
    <2>5. e1 \in Rows1 /\ e2 = f[e1]
        BY <1>2, <1>3, <2>3, <2>4, FirstTwins
    <2>6. Twins(f, One!Pairs(e1), Two!Pairs(e2))
        BY <1>2, <2>5, TwinPartners
    <2>7. o1 \in Rows1 /\ o2 = f[o1]
        <3>1. o1 \in Rows1
            BY <2>3, <2>6 DEF Twins
        <3>2. PICK x \in One!Pairs(e1) : f[x] = o2
            BY <1>2, <2>4, <2>6, TwinsMade
        <3>3. x \in Rows1
            BY <2>6 DEF Twins
        <3>4. /\ <<e1, o1>> \in edges1 /\ <<e1, x>> \in edges1
              /\ One!Degree(edges1, e1) = 1
            BY <2>3 DEF One!Pairs, One!Accepts
        <3>5. o1 = x
            <4> DEFINE D == {p \in edges1 : e1 \in {p[1], p[2]}}
            <4>1. Cardinality(D) = 1
                BY <3>4, CountOneTwo DEF One!Degree
            <4>2. <<e1, o1>> \in D /\ <<e1, x>> \in D
                BY <3>4
            <4>3. IsFiniteSet(D)
                <5>1. edges1 \subseteq Rows1 \X Rows1
                    BY <1>2 DEF TwinPairs
                <5>2. IsFiniteSet(Rows1 \X Rows1)
                    BY <1>2, FS_Product DEF Paired
                <5>3. D \in SUBSET (Rows1 \X Rows1)
                    BY <5>1
                <5> HIDE DEF D
                <5> QED
                    BY <5>2, <5>3, FS_Subset
            <4> HIDE DEF D
            <4>4. PICK p : D = {p}
                BY <4>1, <4>3, FS_Singleton
            <4>5. <<e1, o1>> = <<e1, x>>
                BY <4>2, <4>4
            <4> QED
                BY <4>5
        <3> QED
            BY <3>1, <3>2, <3>5
    <2> DEFINE R == {e1, o1}
               S == {e2, o2}
               kind == One!PairKind(o1)
               score == One!Score(e1, o1)
    <2>8. Twins(f, R, S)
        BY <1>2, <2>5, <2>7, TwinsTwo
    <2>9. kind = Two!PairKind(o2) /\ kind \in One!Kinds
        <3>1. o1 \in One!Expected <=> o2 \in Two!Expected
            BY <1>2, <2>7, TwinSides DEF Twins
        <3> QED
            BY <3>1 DEF One!PairKind, Two!PairKind, One!Kinds
    <2>10. score = Two!Score(e2, o2) /\ score \in Int
        BY <1>2, <2>5, <2>7, TwinScores, ScoreNumber
    <2>11. /\ open1' = open1 \ R /\ open2' = open2 \ S
           /\ matches1' = Append(matches1, [kind |-> kind, score |-> score, rows |-> R])
           /\ matches2' = Append(matches2, [kind |-> kind, score |-> score, rows |-> S])
        <3>1. /\ One!Take(kind, score, R)
              /\ Two!Take(Two!PairKind(o2), Two!Score(e2, o2), S)
            BY <2>3, <2>4
        <3> HIDE DEF R, S, kind, score
        <3> QED
            BY <2>9, <2>10, <3>1 DEF One!Take, Two!Take
    <2> HIDE DEF R, S, kind, score
    <2>12. Twins(f, open1', open2')
        <3>1. Twins(f, open1 \ R, open2 \ S)
            BY <1>2, <2>8, TwinsLess
        <3> QED
            BY <2>11, <3>1
    <2>13. MatchTwins(f, matches1', matches2')
        <3>1. MatchTwins(f,
                  Append(matches1, [kind |-> kind, score |-> score, rows |-> R]),
                  Append(matches2, [kind |-> kind, score |-> score, rows |-> S]))
            BY <1>2, <2>8, <2>9, <2>10, MatchAppended
        <3> QED
            BY <2>11, <3>1
    <2>14. Twins(f, walk1', walk2')
        <3>1. Twins(f, One!After(walk1, e1), Two!After(walk2, e2))
            BY <1>2, <2>5, TwinsFirst
        <3> QED
            BY <2>3, <2>4, <3>1
    <2>15. UNCHANGED <<book1, rank1, phase1, pass1, tier1, edges1, capped1,
                       unsure1, typed1, book2, rank2, phase2, pass2, tier2, edges2,
                       capped2, unsure2, typed2>>
        BY <1>5 DEF One!TolerantPair, Two!TolerantPair
    <2> QED
        BY <2>12, <2>13, <2>14, <2>15, StaysInStep DEF InStep, SameBooks
<1>6. CASE One!NextTier /\ Two!NextTier
    <2>1. One!BeginTier(1) /\ Two!BeginTier(1)
        BY <1>6 DEF One!NextTier, Two!NextTier, One!TierAmount, Two!TierAmount
    <2>2. UNCHANGED <<book1, rank1, open1, phase1, pass1, matches1, capped1, unsure1,
                      typed1, book2, rank2, open2, phase2, pass2, matches2, capped2,
                      unsure2, typed2>>
        BY <1>6 DEF One!NextTier, Two!NextTier
    <2>3. /\ TwinPairs(f, edges1', edges2') /\ Twins(f, walk1', walk2')
          /\ tier1' = tier2'
        BY <1>2, <2>1, TwinEdges, TwinPools DEF One!BeginTier, Two!BeginTier
    <2> QED
        BY <2>2, <2>3, StaysInStep DEF InStep, SameBooks
<1>7. CASE One!TolerantDone /\ Two!TolerantDone
    <2>1. Twins(f, One!Payouts, Two!Payouts) /\ Twins(f, {}, {})
        BY <1>2, TwinPayouts DEF Twins
    <2>2. /\ phase1' = phase2' /\ phase1' # "validate"
          /\ Twins(f, walk1', walk2')
        BY <1>7, <2>1 DEF One!TolerantDone, Two!TolerantDone, InStep
    <2>3. UNCHANGED <<book1, rank1, open1, pass1, tier1, edges1, matches1, capped1,
                      unsure1, typed1, book2, rank2, open2, pass2, tier2, edges2,
                      matches2, capped2, unsure2, typed2>>
        BY <1>7 DEF One!TolerantDone, Two!TolerantDone
    <2> QED
        BY <2>2, <2>3, StaysInStep DEF InStep, SameBooks
<1>8. ASSUME One!TolerantPair, Two!NextTier \/ Two!TolerantDone PROVE FALSE
    BY <1>4, <1>8 DEF One!TolerantPair, Two!NextTier, Two!TolerantDone
<1>9. ASSUME One!NextTier \/ One!TolerantDone, Two!TolerantPair PROVE FALSE
    BY <1>4, <1>9 DEF Two!TolerantPair, One!NextTier, One!TolerantDone
<1>10. ASSUME One!NextTier, Two!TolerantDone PROVE FALSE
    <2>1. tier1 = 0 /\ tier2 = 1
        BY <1>10 DEF One!NextTier, Two!TolerantDone, One!TierRef, Two!TierAmount
    <2>2. tier1 = tier2
        BY <1>2
    <2> QED
        BY <2>1, <2>2
<1>11. ASSUME One!TolerantDone, Two!NextTier PROVE FALSE
    <2>1. tier1 = 1 /\ tier2 = 0
        BY <1>11 DEF One!TolerantDone, Two!NextTier, One!TierAmount, Two!TierRef
    <2>2. tier1 = tier2
        BY <1>2
    <2> QED
        BY <2>1, <2>2
<1> QED
    BY <1>1, <1>5, <1>6, <1>7, <1>8, <1>9, <1>10, <1>11

\* The group pass decides alike about the payout it visits.
LEMMA GroupInStep ==
    ASSUME NEW f, InStep(f), phase1 = "group", One!Next, Two!Next
    PROVE  InStep(f)'
<1> USE DEF One!poolVars, Two!poolVars, One!groupVars, Two!groupVars,
            One!reportVars, Two!reportVars
<1>1. /\ \/ One!PayoutOverCap \/ One!PayoutUnexplained
         \/ One!PayoutAmbiguous \/ One!PayoutMatched \/ One!GroupsDone
      /\ \/ Two!PayoutOverCap \/ Two!PayoutUnexplained
         \/ Two!PayoutAmbiguous \/ Two!PayoutMatched \/ Two!GroupsDone
    BY OnePhases, TwoPhases DEF InStep
<1>2. /\ Paired(f) /\ InPool(f)
      /\ Twins(f, open1, open2)
      /\ Twins(f, walk1, walk2)
      /\ Twins(f, capped1, capped2)
      /\ Twins(f, unsure1, unsure2)
      /\ MatchTwins(f, matches1, matches2)
    BY DEF InStep, InPool
<1>3. walk1 = {} <=> walk2 = {}
    BY <1>2, TwinsEmpty
<1>4. CASE One!GroupsDone /\ Two!GroupsDone
    <2>1. /\ phase1' = "tolerant" /\ phase2' = "tolerant"
          /\ pass1' = 2 /\ pass2' = 2
          /\ One!BeginTier(0) /\ Two!BeginTier(0)
        BY <1>4 DEF One!GroupsDone, Two!GroupsDone, One!TierRef, Two!TierRef
    <2>2. UNCHANGED <<book1, rank1, open1, matches1, capped1, unsure1, typed1,
                      book2, rank2, open2, matches2, capped2, unsure2, typed2>>
        BY <1>4 DEF One!GroupsDone, Two!GroupsDone
    <2>3. /\ TwinPairs(f, edges1', edges2') /\ Twins(f, walk1', walk2')
          /\ tier1' = tier2'
        BY <1>2, <2>1, TwinEdges, TwinPools DEF One!BeginTier, Two!BeginTier
    <2> QED
        BY <2>1, <2>2, <2>3, StaysInStep DEF InStep, SameBooks
<1>5. CASE ~One!GroupsDone /\ ~Two!GroupsDone
    <2>1. PICK p1 \in walk1 :
              /\ One!IsFirst(p1, walk1) /\ walk1' = walk1 \ {p1}
              /\ \/ /\ Cardinality(One!Orders(p1)) > GroupMemberCap
                    /\ capped1' = capped1 \cup {p1} /\ open1' = open1 \ {p1}
                    /\ UNCHANGED <<matches1, unsure1>>
                 \/ /\ Cardinality(One!Orders(p1)) <= GroupMemberCap
                    /\ One!OrderSets(p1) = {}
                    /\ UNCHANGED <<open1, matches1, capped1, unsure1>>
                 \/ /\ Cardinality(One!Orders(p1)) <= GroupMemberCap
                    /\ One!OrderSets(p1) # {} /\ One!Refused(p1)
                    /\ unsure1' = unsure1 \cup {p1}
                                      \cup One!FirstTwo(One!OrderSets(p1))
                    /\ UNCHANGED <<open1, matches1, capped1>>
                 \/ /\ Cardinality(One!Orders(p1)) <= GroupMemberCap
                    /\ One!OrderSets(p1) # {} /\ ~One!Refused(p1)
                    /\ One!Take("group", One!FullScore,
                                {p1} \cup One!FirstFound(One!OrderSets(p1)))
                    /\ UNCHANGED <<capped1, unsure1>>
        <3>1. \A p : One!Cardinality(One!Orders(p)) = Cardinality(One!Orders(p))
            BY CountOneTwo
        <3>2. CASE One!PayoutOverCap
            BY <3>1, <3>2 DEF One!PayoutOverCap, One!NextPayout
        <3>3. CASE One!PayoutUnexplained
            BY <3>1, <3>3 DEF One!PayoutUnexplained, One!NextPayout
        <3>4. CASE One!PayoutAmbiguous
            BY <3>1, <3>4 DEF One!PayoutAmbiguous, One!NextPayout
        <3>5. CASE One!PayoutMatched
            BY <3>1, <3>5 DEF One!PayoutMatched, One!NextPayout
        <3> QED
            BY <1>1, <1>5, <3>2, <3>3, <3>4, <3>5
    <2>2. PICK p2 \in walk2 :
              /\ Two!IsFirst(p2, walk2) /\ walk2' = walk2 \ {p2}
              /\ \/ /\ Cardinality(Two!Orders(p2)) > GroupMemberCap
                    /\ capped2' = capped2 \cup {p2} /\ open2' = open2 \ {p2}
                    /\ UNCHANGED <<matches2, unsure2>>
                 \/ /\ Cardinality(Two!Orders(p2)) <= GroupMemberCap
                    /\ Two!OrderSets(p2) = {}
                    /\ UNCHANGED <<open2, matches2, capped2, unsure2>>
                 \/ /\ Cardinality(Two!Orders(p2)) <= GroupMemberCap
                    /\ Two!OrderSets(p2) # {} /\ Two!Refused(p2)
                    /\ unsure2' = unsure2 \cup {p2}
                                      \cup Two!FirstTwo(Two!OrderSets(p2))
                    /\ UNCHANGED <<open2, matches2, capped2>>
                 \/ /\ Cardinality(Two!Orders(p2)) <= GroupMemberCap
                    /\ Two!OrderSets(p2) # {} /\ ~Two!Refused(p2)
                    /\ Two!Take("group", Two!FullScore,
                                {p2} \cup Two!FirstFound(Two!OrderSets(p2)))
                    /\ UNCHANGED <<capped2, unsure2>>
        <3>1. \A p : Two!Cardinality(Two!Orders(p)) = Cardinality(Two!Orders(p))
            BY CountOneTwo
        <3>2. CASE Two!PayoutOverCap
            BY <3>1, <3>2 DEF Two!PayoutOverCap, Two!NextPayout
        <3>3. CASE Two!PayoutUnexplained
            BY <3>1, <3>3 DEF Two!PayoutUnexplained, Two!NextPayout
        <3>4. CASE Two!PayoutAmbiguous
            BY <3>1, <3>4 DEF Two!PayoutAmbiguous, Two!NextPayout
        <3>5. CASE Two!PayoutMatched
            BY <3>1, <3>5 DEF Two!PayoutMatched, Two!NextPayout
        <3> QED
            BY <1>1, <1>5, <3>2, <3>3, <3>4, <3>5
    <2>3. UNCHANGED <<book1, rank1, phase1, pass1, tier1, edges1, typed1,
                      book2, rank2, phase2, pass2, tier2, edges2, typed2>>
        <3>1. UNCHANGED <<book1, rank1, phase1, pass1, tier1, edges1, typed1>>
            BY <1>1, <1>5 DEF One!PayoutOverCap, One!PayoutUnexplained,
                              One!PayoutAmbiguous, One!PayoutMatched
        <3>2. UNCHANGED <<book2, rank2, phase2, pass2, tier2, edges2, typed2>>
            BY <1>1, <1>5 DEF Two!PayoutOverCap, Two!PayoutUnexplained,
                              Two!PayoutAmbiguous, Two!PayoutMatched
        <3> QED
            BY <3>1, <3>2
    <2>4. p1 \in Rows1 /\ p2 = f[p1]
        BY <1>2, <2>1, <2>2, FirstTwins
    <2> DEFINE F == One!OrderSets(p1)
               G == Two!OrderSets(p2)
               N == Cardinality(One!Orders(p1))
               A == One!FirstTwo(F)
               B == Two!FirstTwo(G)
               R == {p1} \cup One!FirstFound(F)
               S == {p2} \cup Two!FirstFound(G)
    <2>5. N = Cardinality(Two!Orders(p2))
        BY <1>2, <2>4, TwinOrders, CountOneTwo
    <2>6. /\ F = {} <=> G = {}
          /\ One!Refused(p1) <=> Two!Refused(p2)
          /\ Twins(f, One!FirstFound(F), Two!FirstFound(G))
          /\ Twins(f, A, B)
        BY <1>2, <2>4, TwinRefusals
    <2>7. Twins(f, {p1}, {p2})
        BY <1>2, <2>4, TwinsOne
    <2>8. Twins(f, R, S)
        BY <2>6, <2>7, TwinsJoin
    <2>9. N \in Nat
        BY <1>2, <2>4, TwinOrders, TwinsCount, FS_CardinalityType
    <2>10. Twins(f, walk1', walk2')
        <3>1. Twins(f, walk1 \ {p1}, walk2 \ {p2})
            BY <1>2, <2>7, TwinsLess
        <3> QED
            BY <2>1, <2>2, <3>1
    <2>11. \/ /\ N > GroupMemberCap
              /\ capped1' = capped1 \cup {p1} /\ open1' = open1 \ {p1}
              /\ capped2' = capped2 \cup {p2} /\ open2' = open2 \ {p2}
              /\ UNCHANGED <<matches1, unsure1, matches2, unsure2>>
           \/ /\ N <= GroupMemberCap
              /\ UNCHANGED <<open1, matches1, capped1, unsure1,
                             open2, matches2, capped2, unsure2>>
           \/ /\ N <= GroupMemberCap
              /\ unsure1' = unsure1 \cup {p1} \cup A
              /\ unsure2' = unsure2 \cup {p2} \cup B
              /\ UNCHANGED <<open1, matches1, capped1, open2, matches2, capped2>>
           \/ /\ N <= GroupMemberCap
              /\ One!Take("group", One!FullScore, R)
              /\ Two!Take("group", Two!FullScore, S)
              /\ UNCHANGED <<capped1, unsure1, capped2, unsure2>>
        <3>1. GroupMemberCap \in Nat
            BY LimitsAssumption
        <3>2. \/ /\ N > GroupMemberCap
                 /\ capped1' = capped1 \cup {p1} /\ open1' = open1 \ {p1}
                 /\ UNCHANGED <<matches1, unsure1>>
              \/ /\ N <= GroupMemberCap
                 /\ F = {}
                 /\ UNCHANGED <<open1, matches1, capped1, unsure1>>
              \/ /\ N <= GroupMemberCap
                 /\ F # {} /\ One!Refused(p1)
                 /\ unsure1' = unsure1 \cup {p1} \cup A
                 /\ UNCHANGED <<open1, matches1, capped1>>
              \/ /\ N <= GroupMemberCap
                 /\ F # {} /\ ~One!Refused(p1)
                 /\ One!Take("group", One!FullScore, R)
                 /\ UNCHANGED <<capped1, unsure1>>
            BY <2>1
        <3>3. \/ /\ N > GroupMemberCap
                 /\ capped2' = capped2 \cup {p2} /\ open2' = open2 \ {p2}
                 /\ UNCHANGED <<matches2, unsure2>>
              \/ /\ N <= GroupMemberCap
                 /\ G = {}
                 /\ UNCHANGED <<open2, matches2, capped2, unsure2>>
              \/ /\ N <= GroupMemberCap
                 /\ G # {} /\ Two!Refused(p2)
                 /\ unsure2' = unsure2 \cup {p2} \cup B
                 /\ UNCHANGED <<open2, matches2, capped2>>
              \/ /\ N <= GroupMemberCap
                 /\ G # {} /\ ~Two!Refused(p2)
                 /\ Two!Take("group", Two!FullScore, S)
                 /\ UNCHANGED <<capped2, unsure2>>
            BY <2>2, <2>5
        <3> HIDE DEF F, G, N, A, B, R, S
        <3> QED
            BY <2>6, <2>9, <3>1, <3>2, <3>3
    <2> HIDE DEF F, G, N, A, B, R, S
    <2>12. /\ Twins(f, open1 \ {p1}, open2 \ {p2})
           /\ Twins(f, capped1 \cup {p1}, capped2 \cup {p2})
           /\ Twins(f, unsure1 \cup {p1} \cup A, unsure2 \cup {p2} \cup B)
           /\ Twins(f, open1 \ R, open2 \ S)
        <3>1. Twins(f, unsure1 \cup {p1}, unsure2 \cup {p2})
            BY <1>2, <2>7, TwinsJoin
        <3> QED
            BY <1>2, <2>6, <2>7, <2>8, <3>1, TwinsLess, TwinsJoin
    <2>13. MatchTwins(f,
               Append(matches1, [kind |-> "group", score |-> 10000, rows |-> R]),
               Append(matches2, [kind |-> "group", score |-> 10000, rows |-> S]))
        <3>1. "group" \in One!Kinds /\ 10000 \in Int
            BY DEF One!Kinds
        <3> QED
            BY <1>2, <2>8, <3>1, MatchAppended
    <2>14. /\ Twins(f, open1', open2') /\ Twins(f, capped1', capped2')
           /\ Twins(f, unsure1', unsure2') /\ MatchTwins(f, matches1', matches2')
        <3>1. CASE capped1' = capped1 \cup {p1} /\ open1' = open1 \ {p1}
                   /\ capped2' = capped2 \cup {p2} /\ open2' = open2 \ {p2}
                   /\ UNCHANGED <<matches1, unsure1, matches2, unsure2>>
            BY <1>2, <2>12, <3>1
        <3>2. CASE UNCHANGED <<open1, matches1, capped1, unsure1,
                               open2, matches2, capped2, unsure2>>
            BY <1>2, <3>2
        <3>3. CASE unsure1' = unsure1 \cup {p1} \cup A
                   /\ unsure2' = unsure2 \cup {p2} \cup B
                   /\ UNCHANGED <<open1, matches1, capped1, open2, matches2, capped2>>
            BY <1>2, <2>12, <3>3
        <3>4. CASE One!Take("group", One!FullScore, R)
                   /\ Two!Take("group", Two!FullScore, S)
                   /\ UNCHANGED <<capped1, unsure1, capped2, unsure2>>
            <4>1. /\ open1' = open1 \ R /\ open2' = open2 \ S
                  /\ matches1' = Append(matches1,
                         [kind |-> "group", score |-> 10000, rows |-> R])
                  /\ matches2' = Append(matches2,
                         [kind |-> "group", score |-> 10000, rows |-> S])
                BY <3>4 DEF One!Take, Two!Take, One!FullScore, Two!FullScore
            <4> QED
                BY <1>2, <2>12, <2>13, <3>4, <4>1
        <3> QED
            BY <2>11, <3>1, <3>2, <3>3, <3>4
    <2> QED
        BY <2>3, <2>10, <2>14, StaysInStep DEF InStep, SameBooks
<1>6. ASSUME One!GroupsDone, ~Two!GroupsDone PROVE FALSE
    <2>1. walk1 = {} /\ walk2 # {}
        BY <1>1, <1>6 DEF One!GroupsDone, Two!PayoutOverCap, Two!PayoutUnexplained,
                          Two!PayoutAmbiguous, Two!PayoutMatched
    <2> QED
        BY <1>3, <2>1
<1>7. ASSUME ~One!GroupsDone, Two!GroupsDone PROVE FALSE
    <2>1. walk2 = {} /\ walk1 # {}
        BY <1>1, <1>7 DEF Two!GroupsDone, One!PayoutOverCap, One!PayoutUnexplained,
                          One!PayoutAmbiguous, One!PayoutMatched
    <2> QED
        BY <1>3, <2>1
<1> QED
    BY <1>4, <1>5, <1>6, <1>7

\* Classification gives twins the same discrepancy.
LEMMA ClassifyInStep ==
    ASSUME NEW f, InStep(f), phase1 = "classify", One!Next, Two!Next
    PROVE  InStep(f)'
<1> USE DEF One!poolVars, Two!poolVars, One!groupVars, Two!groupVars
<1>1. One!Classify /\ Two!Classify
    BY OnePhases, TwoPhases DEF InStep
<1>2. /\ Paired(f) /\ InPool(f)
      /\ Twins(f, open1, open2)
      /\ Twins(f, unsure1, unsure2)
    BY DEF InStep, InPool
<1>3. Twins(f, One!Ambiguous, Two!Ambiguous)
    <2>1. TwinPairs(f, One!Edges(2), Two!Edges(2))
        BY <1>2, TwinEdges
    <2>2. Twins(f, One!Contested, Two!Contested)
        BY <1>2, <2>1, TwinRowsOn DEF One!Contested, Two!Contested,
                                      One!TierTolerance, Two!TierTolerance
    <2>3. Twins(f, unsure1 \cup One!Contested, unsure2 \cup Two!Contested)
        BY <1>2, <2>2, TwinsJoin
    <2> QED
        BY <1>2, <2>3, TwinsMeet DEF One!Ambiguous, Two!Ambiguous
<1> DEFINE A == One!Ambiguous
           B == Two!Ambiguous
<1>4. /\ typed1' = [i \in open1 |-> One!Verdict(i, A)]
      /\ typed2' = [i \in open2 |-> Two!Verdict(i, B)]
    BY <1>1 DEF One!Classify, Two!Classify
<1> HIDE DEF A, B
<1>5. \A i \in Rows1 : One!Verdict(i, A) = Two!Verdict(f[i], B)
    BY <1>2, <1>3, TwinVerdicts DEF A, B
<1>6. TypedTwins(f, typed1', typed2')
    <2>1. DOMAIN typed1' = open1 /\ DOMAIN typed2' = open2
        BY <1>4
    <2>2. ASSUME NEW i \in open1 PROVE typed2'[f[i]] = typed1'[i]
        <3>1. i \in Rows1 /\ f[i] \in open2
            BY <1>2 DEF Twins
        <3> QED
            BY <1>4, <1>5, <3>1
    <2> QED
        BY <1>2, <2>1, <2>2 DEF TypedTwins
<1>7. phase1' = "check" /\ phase2' = "check"
    BY <1>1 DEF One!Classify, Two!Classify
<1>8. UNCHANGED <<book1, rank1, open1, pass1, tier1, edges1, walk1, matches1,
                  capped1, unsure1, book2, rank2, open2, pass2, tier2, edges2,
                  walk2, matches2, capped2, unsure2>>
    BY <1>1 DEF One!Classify, Two!Classify
<1> QED
    BY <1>6, <1>7, <1>8, StaysInStep DEF InStep, SameBooks

\* The rows of the matches.
LEMMA TwinMatched ==
    ASSUME NEW f, InStep(f)
    PROVE  /\ Twins(f, One!Matched, Two!Matched)
           /\ DOMAIN matches1 = DOMAIN matches2
           /\ \A n \in DOMAIN matches1 : Twins(f, matches1[n].rows, matches2[n].rows)
<1>1. DOMAIN matches1 = 1..Len(matches1) /\ DOMAIN matches2 = 1..Len(matches1)
    BY DEF InStep, MatchTwins
<1>2. \A n \in DOMAIN matches1 : Twins(f, matches1[n].rows, matches2[n].rows)
    BY <1>1 DEF InStep, MatchTwins
<1>3. /\ \A i : i \in One!Matched <=> \E n \in DOMAIN matches1 : i \in matches1[n].rows
      /\ \A i : i \in Two!Matched <=> \E n \in DOMAIN matches2 : i \in matches2[n].rows
    BY DEF One!Matched, Two!Matched
<1>4. Twins(f, One!Matched, Two!Matched)
    BY <1>1, <1>2, <1>3 DEF Twins
<1> QED
    BY <1>1, <1>2, <1>4

\* What the report says of a row.
LEMMA TwinDiscrepancies ==
    ASSUME NEW f, InStep(f), NEW i \in Rows1
    PROVE  One!DiscrepanciesOf(i) = Two!DiscrepanciesOf(f[i])
<1>1. Paired(f) /\ Twins(f, capped1, capped2) /\ TypedTwins(f, typed1, typed2)
    BY DEF InStep
<1>2. book2[f[i]].amount = book1[i].amount
    BY <1>1, Fields
<1>3. i \in capped1 <=> f[i] \in capped2
    BY <1>1 DEF Twins
<1>4. i \in DOMAIN typed1 <=> f[i] \in DOMAIN typed2
    BY <1>1 DEF TypedTwins, Twins
<1>5. i \in DOMAIN typed1 => typed2[f[i]] = typed1[i]
    BY <1>1 DEF TypedTwins
<1>6. One!Whole("unknown", i) = Two!Whole("unknown", f[i])
    BY <1>2 DEF One!Whole, Two!Whole
<1> QED
    BY <1>3, <1>4, <1>5, <1>6 DEF One!DiscrepanciesOf, Two!DiscrepanciesOf

\* The invariant check passes for one run if and only if it does for the other.
LEMMA CheckedAlike ==
    ASSUME NEW f, InStep(f)
    PROVE  One!Check <=> Two!Check
<1>1. /\ Paired(f)
      /\ Twins(f, One!Matched, Two!Matched)
      /\ DOMAIN matches1 = DOMAIN matches2
      /\ \A n \in DOMAIN matches1 : Twins(f, matches1[n].rows, matches2[n].rows)
    BY TwinMatched DEF InStep
<1> DEFINE A == One!Ids \ One!Matched
           B == Two!Ids \ Two!Matched
           ok1(i) == /\ One!DiscrepanciesOf(i) # {}
                     /\ \A d \in One!DiscrepanciesOf(i) :
                            One!DeltaFits(d, book1[i].amount)
           ok2(i) == /\ Two!DiscrepanciesOf(i) # {}
                     /\ \A d \in Two!DiscrepanciesOf(i) :
                            Two!DeltaFits(d, book2[i].amount)
           apart1 == \A m, n \in DOMAIN matches1 :
                         m # n => matches1[m].rows \cap matches1[n].rows = {}
           apart2 == \A m, n \in DOMAIN matches2 :
                         m # n => matches2[m].rows \cap matches2[n].rows = {}
<1>2. Twins(f, A, B)
    BY <1>1, TwinSides, TwinsLess
<1>3. \A i \in Rows1 : ok1(i) <=> ok2(f[i])
    <2>1. \A d, x : One!DeltaFits(d, x) <=> Two!DeltaFits(d, x)
        BY DEF One!DeltaFits, Two!DeltaFits, One!DiscrepancyTypes, Two!DiscrepancyTypes
    <2>2. \A i \in Rows1 : /\ One!DiscrepanciesOf(i) = Two!DiscrepanciesOf(f[i])
                           /\ book2[f[i]].amount = book1[i].amount
        BY <1>1, TwinDiscrepancies, Fields
    <2> QED
        BY <2>1, <2>2
<1>4. apart1 <=> apart2
    <2>1. \A m, n \in DOMAIN matches1 :
              Twins(f, matches1[m].rows \cap matches1[n].rows,
                       matches2[m].rows \cap matches2[n].rows)
        BY <1>1, TwinsMeet
    <2>2. ASSUME NEW m \in DOMAIN matches1, NEW n \in DOMAIN matches1
          PROVE  matches1[m].rows \cap matches1[n].rows = {}
                     <=> matches2[m].rows \cap matches2[n].rows = {}
        <3> DEFINE X == matches1[m].rows \cap matches1[n].rows
                   Y == matches2[m].rows \cap matches2[n].rows
        <3>1. Twins(f, X, Y)
            BY <2>1
        <3> HIDE DEF X, Y
        <3>2. X = {} <=> Y = {}
            BY <1>1, <3>1, TwinsEmpty
        <3> QED
            BY <3>2 DEF X, Y
    <2> QED
        BY <1>1, <2>2
<1>5. /\ One!Check <=> apart1 /\ \A i \in A : ok1(i)
      /\ Two!Check <=> apart2 /\ \A i \in B : ok2(i)
    BY DEF One!Check, Two!Check
<1> HIDE DEF A, B, ok1, ok2, apart1, apart2
<1>6. (\A i \in A : ok1(i)) <=> \A i \in B : ok2(i)
    <2>1. /\ \A i \in A : i \in Rows1 /\ f[i] \in B
          /\ \A k \in B : \E i \in A : f[i] = k
        BY <1>1, <1>2, TwinsMade
    <2> QED
        BY <1>3, <2>1
<1> QED
    BY <1>4, <1>5, <1>6

\* Both runs return together.
LEMMA FinishInStep ==
    ASSUME NEW f, InStep(f), phase1 \in {"check", "done", "failed"},
           One!Next, Two!Next
    PROVE  InStep(f)'
<1> USE DEF One!poolVars, Two!poolVars, One!groupVars, Two!groupVars,
            One!reportVars, Two!reportVars
<1>1. CASE phase1 = "check"
    <2>1. One!Finish /\ Two!Finish
        BY <1>1, OnePhases, TwoPhases DEF InStep
    <2>2. phase1' = phase2' /\ phase1' # "validate"
        BY <2>1, CheckedAlike DEF One!Finish, Two!Finish
    <2>3. UNCHANGED <<book1, rank1, open1, pass1, tier1, edges1, walk1, matches1,
                      capped1, unsure1, typed1, book2, rank2, open2, pass2, tier2,
                      edges2, walk2, matches2, capped2, unsure2, typed2>>
        BY <2>1 DEF One!Finish, Two!Finish
    <2> QED
        BY <2>2, <2>3, StaysInStep DEF InStep, SameBooks
<1>2. CASE phase1 \in {"done", "failed"}
    <2>1. One!Returned /\ Two!Returned
        BY <1>2, OnePhases, TwoPhases DEF InStep
    <2>2. UNCHANGED <<book1, rank1, open1, phase1, pass1, tier1, edges1, walk1,
                      matches1, capped1, unsure1, typed1, book2, rank2, open2,
                      phase2, pass2, tier2, edges2, walk2, matches2, capped2,
                      unsure2, typed2>>
        BY <2>1 DEF One!Returned, Two!Returned, One!vars, Two!vars
    <2> QED
        BY <2>2, StaysInStep DEF InStep, SameBooks
<1> QED
    BY <1>1, <1>2

\* Validation lets both runs in, with paired books, or neither.
LEMMA ValidatedInStep ==
    ASSUME Init, One!Next, Two!Next
    PROVE  \E f : InStep(f)'
<1> USE DEF One!poolVars, Two!poolVars, One!groupVars, Two!groupVars,
            One!reportVars, Two!reportVars
<1>1. /\ all1 \in Inputs /\ One!Start /\ Two!Start
      /\ phase1 = "validate" /\ phase2 = "validate"
    BY DEF Init, One!Init, One!Start, Two!Start
<1>2. PICK p \in Permutations(Len(all1)) : all2 = Reordered(all1, p)
    BY DEF Init
<1>3. One!Acceptable(all1) <=> Two!Acceptable(all2)
    BY <1>1, <1>2, AcceptedAlike
<1>4. /\ One!Accept \/ One!Reject
      /\ Two!Accept \/ Two!Reject
    BY <1>1, OnePhases, TwoPhases
<1>5. ASSUME NEW f, Twins(f, {}, {})'
      PROVE  MatchTwins(f, <<>>, <<>>)' /\ TypedTwins(f, One!EmptyMap, Two!EmptyMap)'
    BY <1>5 DEF MatchTwins, TypedTwins, One!EmptyMap, Two!EmptyMap
<1>6. /\ walk1 = {} /\ edges1 = {} /\ capped1 = {} /\ unsure1 = {}
      /\ matches1 = <<>> /\ typed1 = One!EmptyMap
      /\ walk2 = {} /\ edges2 = {} /\ capped2 = {} /\ unsure2 = {}
      /\ matches2 = <<>> /\ typed2 = Two!EmptyMap
      /\ pass1 = pass2 /\ tier1 = tier2
      /\ book1 = One!EmptyMap /\ book2 = Two!EmptyMap /\ open1 = {} /\ open2 = {}
    BY <1>1 DEF One!Start, Two!Start, One!TierRef, Two!TierRef
<1>7. UNCHANGED <<walk1, edges1, capped1, unsure1, matches1, typed1, pass1, tier1,
                  walk2, edges2, capped2, unsure2, matches2, typed2, pass2, tier2>>
    BY <1>4 DEF One!Accept, One!Reject, Two!Accept, Two!Reject
<1>8. ASSUME NEW f, Paired(f)', Twins(f, open1, open2)', phase1' = phase2',
             phase1' # "validate"
      PROVE  InStep(f)'
    <2>1. Twins(f, {}, {})' /\ TwinPairs(f, {}, {})'
        BY DEF Twins, TwinPairs
    <2>2. MatchTwins(f, <<>>, <<>>)' /\ TypedTwins(f, One!EmptyMap, Two!EmptyMap)'
        BY <1>5, <2>1
    <2> QED
        BY <1>6, <1>7, <1>8, <2>1, <2>2 DEF InStep
<1>9. CASE One!Accept /\ Two!Accept
    <2>1. /\ One!Acceptable(all1) /\ Two!Acceptable(all2)
          /\ book1' = Carried(all1) /\ book2' = Carried(all2)
          /\ rank1' = [i \in DOMAIN book1' |-> Place(book1', i)]
          /\ rank2' = [i \in DOMAIN book2' |-> Place(book2', i)]
          /\ open1' = DOMAIN book1' /\ open2' = DOMAIN book2'
          /\ phase1' = "exact" /\ phase2' = "exact"
        BY <1>9, BooksOneTwo DEF One!Accept, Two!Accept
    <2>2. PICK f : PairedBooks(f, Carried(all1), Carried(all2))
        BY <1>1, <1>2, <2>1, BooksMade
    <2>3. PairedBooks(f, book1', book2')
        BY <2>1, <2>2
    <2>4. Paired(f)'
        BY <2>1, <2>3 DEF PairedBooks, Paired, Rows1, Rows2
    <2>5. Twins(f, open1, open2)'
        BY <2>1, <2>4 DEF Twins, Paired, Rows1, Rows2
    <2> QED
        BY <1>8, <2>1, <2>4, <2>5
<1>10. CASE One!Reject /\ Two!Reject
    <2>1. /\ phase1' = "failed" /\ phase2' = "failed"
          /\ UNCHANGED <<book1, rank1, open1, book2, rank2, open2>>
        BY <1>10 DEF One!Reject, Two!Reject
    <2> DEFINE f == One!EmptyMap
    <2>2. Rows1' = {} /\ Rows2' = {}
        BY <1>6, <2>1 DEF Rows1, Rows2, One!EmptyMap, Two!EmptyMap
    <2> HIDE DEF f
    <2>3. Paired(f)' /\ Twins(f, open1, open2)'
        BY <1>6, <2>1, <2>2, FS_EmptySet DEF Paired, Twins
    <2> QED
        BY <1>8, <2>1, <2>3
<1>11. ~(One!Accept /\ Two!Reject) /\ ~(One!Reject /\ Two!Accept)
    BY <1>3 DEF One!Accept, One!Reject, Two!Accept, Two!Reject
<1> QED
    BY <1>4, <1>9, <1>10, <1>11

-----------------------------------------------------------------------------
(* The outcome *)

\* Before validation nothing has been compared; after it the runs are in step.
InSim == Init \/ \E f : InStep(f)

\* Every step of the two runs keeps them in step.
LEMMA StepInStep ==
    ASSUME NEW f, InStep(f), One!Next, Two!Next
    PROVE  InStep(f)'
<1>1. phase1 # "validate"
    BY DEF InStep
<1>2. phase1 \in {"exact", "split", "tolerant", "group", "classify", "check",
                  "done", "failed"}
    BY <1>1, OnePhases
<1> QED
    BY <1>2, ExactInStep, SplitInStep, TolerantInStep, GroupInStep,
       ClassifyInStep, FinishInStep

\* Nor does standing still.
LEMMA StutterInStep ==
    ASSUME NEW f, InStep(f), UNCHANGED vars
    PROVE  InStep(f)'
<1>1. UNCHANGED <<book1, rank1, open1, phase1, pass1, tier1, edges1, walk1,
                  matches1, capped1, unsure1, typed1, book2, rank2, open2,
                  phase2, pass2, tier2, edges2, walk2, matches2, capped2,
                  unsure2, typed2>>
    BY DEF vars, vars1, vars2
<1> QED
    BY <1>1, StaysInStep DEF InStep, SameBooks

\* So the runs are in step after every step of the specification.
LEMMA SimKept ==
    ASSUME InSim, [Next]_vars
    PROVE  InSim'
<1>1. CASE Next
    <2>1. One!Next /\ Two!Next
        BY <1>1 DEF Next
    <2>2. CASE Init
        BY <2>1, <2>2, ValidatedInStep DEF InSim
    <2>3. CASE \E f : InStep(f)
        <3>1. PICK f : InStep(f)
            BY <2>3
        <3>2. InStep(f)'
            BY <2>1, <3>1, StepInStep
        <3> QED
            BY <3>2 DEF InSim
    <2> QED
        BY <2>2, <2>3 DEF InSim
<1>2. CASE UNCHANGED vars
    <2>1. CASE Init
        <3>1. Init'
            BY <1>2, <2>1 DEF vars, vars1, vars2, Init, One!Init, One!Start,
                              Two!Start
        <3> QED
            BY <3>1 DEF InSim
    <2>2. CASE \E f : InStep(f)
        <3>1. PICK f : InStep(f)
            BY <2>2
        <3>2. InStep(f)'
            BY <1>2, <3>1, StutterInStep
        <3> QED
            BY <3>2 DEF InSim
    <2> QED
        BY <2>1, <2>2 DEF InSim
<1> QED
    BY <1>1, <1>2

\* The contents of corresponding sets of rows are the same.
LEMMA TwinContents ==
    ASSUME NEW f, Paired(f), NEW A, NEW B, Twins(f, A, B)
    PROVE  {Content(book1[j]) : j \in A} = {Content(book2[k]) : k \in B}
<1>1. /\ \A i \in A : i \in Rows1 /\ f[i] \in B
      /\ \A k \in B : \E i \in A : f[i] = k
    BY TwinsMade
<1>2. \A i \in A : Content(book2[f[i]]) = Content(book1[i])
    BY <1>1 DEF Paired, Same
<1> QED
    BY <1>1, <1>2

\* Twins share one fate.
LEMMA TwinFates ==
    ASSUME NEW f, InStep(f), NEW i \in Rows1
    PROVE  Fate(book1, matches1, capped1, typed1, i)
               = Fate(book2, matches2, capped2, typed2, f[i])
<1>1. /\ Paired(f)
      /\ DOMAIN matches1 = DOMAIN matches2
      /\ \A n \in DOMAIN matches1 : Twins(f, matches1[n].rows, matches2[n].rows)
    BY TwinMatched DEF InStep
<1>2. \A n \in DOMAIN matches1 : /\ matches1[n].kind = matches2[n].kind
                                 /\ matches1[n].score = matches2[n].score
    BY DEF InStep, MatchTwins
<1>3. \A n \in DOMAIN matches1 : i \in matches1[n].rows <=> f[i] \in matches2[n].rows
    BY <1>1 DEF Twins
<1> DEFINE mine1 == {n \in DOMAIN matches1 : i \in matches1[n].rows}
           mine2 == {n \in DOMAIN matches2 : f[i] \in matches2[n].rows}
           with1(n) == {Content(book1[j]) : j \in matches1[n].rows \ {i}}
           with2(n) == {Content(book2[j]) : j \in matches2[n].rows \ {f[i]}}
<1>4. mine1 = mine2
    BY <1>1, <1>3
<1>5. ASSUME NEW n \in DOMAIN matches1
      PROVE  with1(n) = with2(n)
    <2>1. Twins(f, {i}, {f[i]})
        BY <1>1, TwinsOne
    <2> DEFINE A == matches1[n].rows \ {i}
               B == matches2[n].rows \ {f[i]}
    <2>2. Twins(f, A, B)
        BY <1>1, <2>1, TwinsLess
    <2> HIDE DEF A, B
    <2>3. {Content(book1[j]) : j \in A} = {Content(book2[k]) : k \in B}
        BY <1>1, <2>2, TwinContents
    <2> QED
        BY <2>3 DEF A, B
<1> DEFINE row1(n) == [kind |-> matches1[n].kind, score |-> matches1[n].score,
                       partners |-> with1(n)]
           row2(n) == [kind |-> matches2[n].kind, score |-> matches2[n].score,
                       partners |-> with2(n)]
<1>6. \A n \in mine1 : row1(n) = row2(n)
    BY <1>2, <1>5
<1>7. {row1(n) : n \in mine1} = {row2(n) : n \in mine2}
    <2> HIDE DEF row1, row2, mine1, mine2
    <2> QED
        BY <1>4, <1>6
<1>8. /\ Twins(f, capped1, capped2)
      /\ Twins(f, DOMAIN typed1, DOMAIN typed2)
      /\ \A j \in DOMAIN typed1 : typed2[f[j]] = typed1[j]
    BY DEF InStep, TypedTwins
<1>9. (i \in capped1) = (f[i] \in capped2)
    BY <1>8 DEF Twins
<1>10. (IF i \in DOMAIN typed1 THEN {typed1[i]} ELSE {})
           = IF f[i] \in DOMAIN typed2 THEN {typed2[f[i]]} ELSE {}
    BY <1>8 DEF Twins
<1> QED
    BY <1>7, <1>9, <1>10 DEF Fate

\* So the runs have one outcome.
LEMMA OneOutcome ==
    ASSUME NEW f, InStep(f)
    PROVE  Outcome(book1, matches1, capped1, typed1)
               = Outcome(book2, matches2, capped2, typed2)
<1> DEFINE x1(i) == <<Content(book1[i]), Fate(book1, matches1, capped1, typed1, i)>>
           x2(i) == <<Content(book2[i]), Fate(book2, matches2, capped2, typed2, i)>>
           f1 == [i \in Rows1 |-> x1(i)]
           f2 == [i \in Rows2 |-> x2(i)]
           S1 == {f1[i] : i \in Rows1}
           S2 == {f2[i] : i \in Rows2}
           C1(v) == {i \in Rows1 : f1[i] = v}
           C2(v) == {i \in Rows2 : f2[i] = v}
<1>1. Paired(f)
    BY DEF InStep
<1>2. \A i \in Rows1 : x2(f[i]) = x1(i)
    BY <1>1, TwinFates DEF Paired, Same
<1>3. \A i \in Rows1 : f2[f[i]] = f1[i]
    <2> HIDE DEF x1, x2
    <2> QED
        BY <1>1, <1>2 DEF Paired
<1> HIDE DEF f1, f2
<1>4. S1 = S2
    <2>1. \A i \in Rows1 : f[i] \in Rows2
        BY <1>1 DEF Paired
    <2>2. \A k \in Rows2 : \E i \in Rows1 : f[i] = k
        BY <1>1 DEF Paired
    <2> QED
        BY <1>3, <2>1, <2>2
<1>5. ASSUME NEW v
      PROVE  Cardinality(C1(v)) = Cardinality(C2(v))
    <2> DEFINE A == C1(v)
               B == C2(v)
    <2>1. Twins(f, A, B)
        BY <1>1, <1>3 DEF Twins, Paired
    <2> HIDE DEF A, B
    <2>2. Cardinality(A) = Cardinality(B)
        BY <1>1, <2>1, TwinsCount
    <2> QED
        BY <2>2 DEF A, B
<1> HIDE DEF S1, S2, C1, C2
<1>6. [v \in S1 |-> Cardinality(C1(v))] = [v \in S2 |-> Cardinality(C2(v))]
    BY <1>4, <1>5
<1>7. /\ Outcome(book1, matches1, capped1, typed1)
             = [v \in S1 |-> Cardinality(C1(v))]
      /\ Outcome(book2, matches2, capped2, typed2)
             = [v \in S2 |-> Cardinality(C2(v))]
    BY DEF Outcome, S1, S2, C1, C2, f1, f2, Rows1, Rows2
<1> QED
    BY <1>6, <1>7

\* Two runs of the engine over one book, loaded in any two orders and numbered
\* accordingly, are both accepted or both refused, and give rows of one content
\* the same fates as often, for every book and every tolerance: what the
\* package comment of internal/matching says of load order.
THEOREM LoadOrderDoesNotMatter == Spec => []ContentDecides
<1>1. Init => InSim
    BY DEF InSim
<1>2. InSim /\ [Next]_vars => InSim'
    BY SimKept
<1>3. InSim => ContentDecides
    <2>1. ASSUME Init PROVE ContentDecides
        BY <2>1 DEF Init, One!Init, One!Start, ContentDecides
    <2>2. ASSUME NEW f, InStep(f) PROVE ContentDecides
        <3>1. phase1 = phase2
            BY <2>2 DEF InStep
        <3> QED
            BY <2>2, <3>1, OneOutcome DEF ContentDecides
    <2> QED
        BY <2>1, <2>2 DEF InSim
<1> QED
    BY <1>1, <1>2, <1>3, PTL DEF Spec

=============================================================================
