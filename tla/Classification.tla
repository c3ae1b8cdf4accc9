--------------------------- MODULE Classification ---------------------------
(***************************************************************************)
(* internal/classification: the discrepancy of a row no pass placed.  The  *)
(* rules look the row up in the whole book, matched rows included, and the *)
(* first rule that applies wins.                                           *)
(***************************************************************************)
EXTENDS Pool

commissionMinBP == 800
commissionMaxBP == 2500

DiscrepancyTypes ==
    {"commission", "refund", "partial", "timing", "duplicate", "missing",
     "ambiguous", "unknown"}

Discrepancy == [type : DiscrepancyTypes, delta : Int]

\* byCpAmount of the row's own counterparty, amount and direction.
SameAmount(i) ==
    {j \in Ids : /\ book[j].cp = book[i].cp
                 /\ book[j].amount = book[i].amount
                 /\ book[j].dir = book[i].dir}

\* Actual row a is the same money as expected row e, outside the window.
Late(e, a) ==
    /\ ~RefConflict(e, a)
    /\ DayDiff(book[a], book[e]) > MatchWindowDays
    /\ \/ RefsAgree(book[e], book[a])
       \/ DayDiff(book[a], book[e]) <= AmountHorizonDays

-----------------------------------------------------------------------------
\* The bank parts a split settlement of expected row e would have.
PartsOf(e) ==
    {a \in SameRecord(e) : /\ book[a].source = "bank"
                           /\ book[a].dir = book[e].dir}

\* Row i belongs to a split settlement whose parts add up to the one expected
\* row of that reference, some of them outside the window.
LateSplit(i) ==
    \E e \in SameRecord(i) \cap Expected :
        /\ SameRecord(i) \cap Expected = {e}
        /\ i \in PartsOf(e) \cup {e}
        /\ Cardinality(PartsOf(e)) >= 2
        /\ \E a \in PartsOf(e) : DayDiff(book[a], book[e]) > MatchWindowDays
        /\ SumAmounts(PartsOf(e)) = book[e].amount

\* Mutant: earlier by ID.
DuplicateById(i) ==
    \E j \in SameRecord(i) : /\ j < i
                             /\ book[j].source = book[i].source
                             /\ book[j].dir = book[i].dir
                             /\ book[j].amount = book[i].amount

\* An earlier row of the sorted book on the same side carries the same
\* reference, amount and direction.
Duplicate(i) ==
    \E j \in SameRecord(i) : /\ rank[j] < rank[i]
                             /\ book[j].source = book[i].source
                             /\ book[j].dir = book[i].dir
                             /\ book[j].amount = book[i].amount

Refund(i) == /\ i \in Actual
             /\ book[i].dir = "debit"
             /\ Cardinality(SameRecord(i)) > 1

\* The larger expected rows an actual credit falls short of, and the smaller
\* actual rows that fall short of an expected row.
Larger(i) ==
    {j \in SameRecord(i) \cap Expected :
        /\ book[j].dir = book[i].dir
        /\ 0 < book[i].amount /\ book[i].amount < book[j].amount}

\* Mutant: a line of zero counts as a part payment.
SmallerOrZero(i) ==
    {j \in SameRecord(i) \cap Actual :
        /\ book[j].dir = book[i].dir
        /\ book[j].amount < book[i].amount}

Smaller(i) ==
    {j \in SameRecord(i) \cap Actual :
        /\ book[j].dir = book[i].dir
        /\ 0 < book[j].amount /\ book[j].amount < book[i].amount}

\* Something on the actual side resembles expected row i.
Resembled(i) ==
    \/ \E j \in SameRecord(i) \cap Actual : book[j].dir = book[i].dir
    \/ \E j \in SameAmount(i) \cap Actual :
           /\ ~RefConflict(i, j)
           /\ \/ RefsAgree(book[i], book[j])
              \/ DayDiff(book[j], book[i]) <= AmountHorizonDays

-----------------------------------------------------------------------------
\* Mutant: a type the schema does not know.
LateType == [type |-> "late", delta |-> 0]

Timing == [type |-> "timing", delta |-> 0]

Whole(type, i) == [type |-> type, delta |-> book[i].amount]

Shortfall(expected, actual, delta) ==
    LET bp == BasisPoints(expected - actual, expected)
    IN  [type |-> IF bp >= commissionMinBP /\ bp <= commissionMaxBP
                  THEN "commission" ELSE "partial",
         delta |-> delta]

\* The actual side of a partial, fee or timing pair: the shortfall is booked
\* on the expected side, so the mirror has delta 0.
ActualVerdict(i) ==
    IF book[i].dir = "credit" /\ Larger(i) # {}
    THEN Shortfall(book[First(Larger(i))].amount, book[i].amount, 0)
    ELSE IF /\ book[i].dir = "credit"
            /\ \E e \in SameAmount(i) \cap Expected : Late(e, i)
    THEN Timing
    ELSE Whole("unknown", i)

ExpectedVerdict(i) ==
    IF Smaller(i) # {}
    THEN LET paid == book[First(Smaller(i))].amount
         IN  Shortfall(book[i].amount, paid, book[i].amount - paid)
    ELSE IF \E a \in SameAmount(i) \cap Actual : Late(i, a)
    THEN Timing
    ELSE Whole(IF Resembled(i) THEN "unknown" ELSE "missing", i)

\* Mutant: duplicates are looked for before late splits.
DuplicateFirst(i, ambiguous) ==
    IF Duplicate(i) THEN Whole("duplicate", i)
    ELSE IF LateSplit(i) THEN Timing
    ELSE IF i \in ambiguous THEN Whole("ambiguous", i)
    ELSE IF Refund(i) THEN [type |-> "refund", delta |-> -book[i].amount]
    ELSE IF i \in Expected THEN ExpectedVerdict(i)
    ELSE ActualVerdict(i)

\* classifyOne, for the rows the passes left ambiguous.
Verdict(i, ambiguous) ==
    IF LateSplit(i) THEN Timing
    ELSE IF Duplicate(i) THEN Whole("duplicate", i)
    ELSE IF i \in ambiguous THEN Whole("ambiguous", i)
    ELSE IF Refund(i) THEN [type |-> "refund", delta |-> -book[i].amount]
    ELSE IF i \in Expected THEN ExpectedVerdict(i)
    ELSE ActualVerdict(i)

(***************************************************************************)
(* invariants.Check, invariant 3: what a delta of each type may be for an  *)
(* unmatched row of that amount.                                           *)
(***************************************************************************)
DeltaFits(d, amount) ==
    /\ d.type \in DiscrepancyTypes
    /\ d.type = "timing" => d.delta = 0
    /\ d.type \in {"partial", "commission"} => 0 <= d.delta /\ d.delta < amount
    /\ d.type = "refund" => d.delta = -amount
    /\ d.type \in {"missing", "duplicate", "ambiguous", "unknown"} =>
           d.delta = amount
=============================================================================
