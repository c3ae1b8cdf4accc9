---------------------------- MODULE EngineProofs ----------------------------
(***************************************************************************)
(* Theorems about one run of the engine, for every set of inputs, every    *)
(* size of book and every value of the limits.  First, what the rules of   *)
(* internal/classification give every row of a book that obeys the money   *)
(* contract, whichever rows the passes took: a discrepancy of the schema's *)
(* eight types whose delta invariants.Check accepts.  Then where each row  *)
(* ends up.  Then what the passes may pair (ADR 0006): the evidence rule,  *)
(* the order of the passes, and the review of what is left.  These rest on *)
(* the same two facts: the book never changes after validation, and the    *)
(* pool only shrinks.                                                      *)
(***************************************************************************)
EXTENDS Guarantees, MatchingProofs

-----------------------------------------------------------------------------
(* Classification *)

\* The book the rules may look into.
SoundBook == \A i \in Ids : book[i] \in Transaction /\ ValidateMoney(book[i])

\* Every set of rows has a first row in pool order, so that First names one
\* of them (the sorted slices of Classify have a first element).
LEMMA FirstRow ==
    ASSUME rank \in [Ids -> Nat], NEW S, S \subseteq Ids, S # {}
    PROVE  First(S) \in S /\ \A j \in S : rank[First(S)] <= rank[j]
<1> DEFINE T == {rank[i] : i \in S}
<1>1. T \subseteq Nat /\ T # {}
    OBVIOUS
<1>2. PICK n \in T : \A m \in T : n <= m
    BY <1>1, LeastNatural
<1>3. PICK i \in S : rank[i] = n
    OBVIOUS
<1>4. \E r \in S : \A j \in S : rank[r] <= rank[j]
    BY <1>2, <1>3
<1> QED
    BY <1>4 DEF First

\* A row typed with its whole amount.
LEMMA WholeFits ==
    ASSUME SoundBook, NEW i \in Ids,
           NEW type \in {"duplicate", "missing", "ambiguous", "unknown"}
    PROVE  /\ Whole(type, i) \in Discrepancy
           /\ DeltaFits(Whole(type, i), book[i].amount)
BY DEF SoundBook, Whole, Discrepancy, DiscrepancyTypes, DeltaFits,
       Transaction

\* A late settlement has delta 0.
LEMMA TimingFits ==
    ASSUME NEW amount
    PROVE  Timing \in Discrepancy /\ DeltaFits(Timing, amount)
BY DEF Timing, Discrepancy, DiscrepancyTypes, DeltaFits

\* A shortfall is a partial payment or a fee; a delta below the amount fits.
LEMMA ShortfallFits ==
    ASSUME NEW expected, NEW actual, NEW amount \in Int, NEW delta \in Int,
           0 <= delta, delta < amount
    PROVE  /\ Shortfall(expected, actual, delta) \in Discrepancy
           /\ DeltaFits(Shortfall(expected, actual, delta), amount)
<1> DEFINE d == Shortfall(expected, actual, delta)
<1>1. d.type \in {"partial", "commission"} /\ d.delta = delta
    BY DEF Shortfall
<1>2. d \in Discrepancy
    BY DEF Shortfall, Discrepancy, DiscrepancyTypes
<1>3. DeltaFits(d, amount)
    <2> HIDE DEF d
    <2> QED
        BY <1>1 DEF DeltaFits, DiscrepancyTypes
<1> QED
    BY <1>2, <1>3

\* The rules of the expected side: the shortfall of a part payment is at least
\* 0 and below the amount, because the line found is itself above zero.
LEMMA ExpectedFits ==
    ASSUME SoundBook, rank \in [Ids -> Nat], NEW i \in Ids
    PROVE  /\ ExpectedVerdict(i) \in Discrepancy
           /\ DeltaFits(ExpectedVerdict(i), book[i].amount)
<1>1. CASE Smaller(i) # {}
    <2> DEFINE j == First(Smaller(i))
               delta == book[i].amount - book[j].amount
    <2>1. Smaller(i) \subseteq Ids
        BY DEF Smaller, SameRecord
    <2>2. j \in Smaller(i)
        BY <1>1, <2>1, FirstRow, SMTT(20)
    <2>3. /\ book[i].amount \in Int /\ book[j].amount \in Int
          /\ 0 < book[j].amount /\ book[j].amount < book[i].amount
        BY <2>1, <2>2 DEF Smaller, SoundBook, Transaction
    <2>4. delta \in Int /\ 0 <= delta /\ delta < book[i].amount
        BY <2>3
    <2>5. ExpectedVerdict(i) = Shortfall(book[i].amount, book[j].amount, delta)
        BY <1>1 DEF ExpectedVerdict
    <2> HIDE DEF delta, j
    <2> QED
        BY <2>3, <2>4, <2>5, ShortfallFits
<1>2. CASE Smaller(i) = {}
    BY <1>2, WholeFits, TimingFits DEF ExpectedVerdict
<1> QED
    BY <1>1, <1>2

\* The rules of the actual side: a credit that falls short of an expected row
\* is above zero, so delta 0 is below its amount.
LEMMA ActualFits ==
    ASSUME SoundBook, NEW i \in Ids
    PROVE  /\ ActualVerdict(i) \in Discrepancy
           /\ DeltaFits(ActualVerdict(i), book[i].amount)
<1>1. CASE book[i].dir = "credit" /\ Larger(i) # {}
    <2>1. 0 < book[i].amount /\ book[i].amount \in Int
        BY <1>1 DEF Larger, SoundBook, Transaction
    <2>2. ActualVerdict(i) =
              Shortfall(book[First(Larger(i))].amount, book[i].amount, 0)
        BY <1>1 DEF ActualVerdict
    <2> QED
        BY <2>1, <2>2, ShortfallFits
<1>2. CASE ~(book[i].dir = "credit" /\ Larger(i) # {})
    BY <1>2, WholeFits, TimingFits DEF ActualVerdict
<1> QED
    BY <1>1, <1>2

\* Whichever rule applies, and whichever rows count as ambiguous, the verdict
\* is a discrepancy whose delta the invariant check accepts.
THEOREM VerdictFits ==
    ASSUME SoundBook, rank \in [Ids -> Nat], NEW i \in Ids, NEW ambiguous
    PROVE  /\ Verdict(i, ambiguous) \in Discrepancy
           /\ DeltaFits(Verdict(i, ambiguous), book[i].amount)
<1> DEFINE refund == [type |-> "refund", delta |-> -book[i].amount]
<1>1. refund \in Discrepancy /\ DeltaFits(refund, book[i].amount)
    BY DEF SoundBook, Transaction, Discrepancy, DiscrepancyTypes, DeltaFits
<1>2. \/ Verdict(i, ambiguous) \in {Timing, refund, ExpectedVerdict(i),
                                    ActualVerdict(i)}
      \/ \E type \in {"duplicate", "ambiguous"} :
             Verdict(i, ambiguous) = Whole(type, i)
    BY DEF Verdict
<1> HIDE DEF refund
<1> QED
    BY <1>1, <1>2, TimingFits, WholeFits, ExpectedFits, ActualFits

-----------------------------------------------------------------------------
(* Validation *)

\* What the split of an accepted argument yields: a finite book of valid rows,
\* filed under their IDs, with a position for each.
LEMMA AcceptedBook ==
    ASSUME NEW txs \in Seq(Transaction), Acceptable(txs)
    PROVE  LET b == BookOf(txs)
           IN  /\ IsFiniteSet(DOMAIN b)
               /\ \A i \in DOMAIN b : /\ b[i] \in Transaction
                                      /\ b[i].id = i
                                      /\ ValidateMoney(b[i])
               /\ RankOf(b) \in [DOMAIN b -> Nat]
<1> DEFINE b == BookOf(txs)
           id == [k \in DOMAIN txs |-> txs[k].id]
<1>1. IsFiniteSet(DOMAIN txs)
    <2>1. DOMAIN txs = 1..Len(txs) /\ Len(txs) \in Nat
        OBVIOUS
    <2> QED
        BY <2>1, FS_Interval
<1>2. DOMAIN b = {txs[k].id : k \in DOMAIN txs}
    BY DEF BookOf
<1>3. id \in Surjection(DOMAIN txs, DOMAIN b)
    BY <1>2 DEF Surjection
<1>4. IsFiniteSet(DOMAIN b)
    BY <1>1, <1>3, FS_Surjection
<1>5. ASSUME NEW i \in DOMAIN b
      PROVE  b[i] \in Transaction /\ b[i].id = i /\ ValidateMoney(b[i])
    <2> DEFINE k == CHOOSE n \in DOMAIN txs : txs[n].id = i
    <2>1. \E n \in DOMAIN txs : txs[n].id = i
        BY <1>2, <1>5
    <2>2. k \in DOMAIN txs /\ txs[k].id = i
        BY <2>1
    <2>3. b[i] = txs[k]
        BY <1>2, <1>5 DEF BookOf
    <2>4. txs[k] \in Transaction
        BY <2>2
    <2> HIDE DEF k, b
    <2> QED
        BY <2>2, <2>3, <2>4 DEF Acceptable
<1>6. RankOf(b) \in [DOMAIN b -> Nat]
    <2>1. \A i \in DOMAIN b :
              Cardinality({j \in DOMAIN b : Precedes(b[j], b[i])}) \in Nat
        BY <1>4, FS_Subset, FS_CardinalityType
    <2> QED
        BY <2>1 DEF RankOf
<1> QED
    BY <1>4, <1>5, <1>6

-----------------------------------------------------------------------------
(* Types *)

\* The inductive form of TypeOK: the verdicts of Classify have their type
\* because every row of the book has passed validation, and nothing happens
\* before that.
TypeInv == TypeOK /\ SoundBook /\ (phase = "validate" => Start)

\* A score is a number for any two rows of the book.
LEMMA ScoreType ==
    ASSUME SoundBook, NEW e \in Ids, NEW o \in Ids
    PROVE  Score(e, o) \in Int
<1>1. /\ book[e].amount \in Int /\ book[o].amount \in Int
      /\ book[e].day \in Int /\ book[o].day \in Int
    BY DEF SoundBook, Transaction
<1>2. DayDiff(book[e], book[o]) \in Int /\ AmountDiff(e, o) \in Int
    BY <1>1 DEF DayDiff, AmountDiff, AbsDiff
<1>3. CASE book[e].amount > 0
    <2>1. (AmountDiff(e, o) * 10000) \div book[e].amount \in Int
        BY <1>1, <1>2, <1>3
    <2> QED
        BY <1>2, <1>3, <2>1 DEF Score, FullScore, BasisPoints
<1>4. CASE ~(book[e].amount > 0)
    BY <1>2, <1>4 DEF Score, FullScore
<1> QED
    BY <1>3, <1>4

\* Appending a match of rows of the book keeps the types.
LEMMA TakeType ==
    ASSUME TypeInv, UNCHANGED book, NEW kind \in Kinds, NEW score \in Int,
           NEW rows, rows \subseteq Ids, Take(kind, score, rows)
    PROVE  (matches \in Seq(Match) /\ open \subseteq Ids)'
<1>1. [kind |-> kind, score |-> score, rows |-> rows] \in Match
    BY DEF Match
<1>2. Match' = Match /\ Ids' = Ids
    BY DEF Match, Ids
<1>3. matches' \in Seq(Match)
    BY <1>1 DEF Take, TypeInv, TypeOK
<1> QED
    BY <1>2, <1>3 DEF Take, TypeInv, TypeOK

\* The candidate pairs and the rows still to visit are rows of the book.
LEMMA BeginTierType ==
    ASSUME TypeInv, UNCHANGED book, NEW t \in {TierRef, TierAmount}, BeginTier(t)
    PROVE  (/\ tier \in {TierRef, TierAmount}
            /\ edges \subseteq Ids \X Ids
            /\ walk \subseteq Ids)'
BY DEF TypeInv, TypeOK, BeginTier, Edges, OpenExpected, Expected, Ids

\* The orders the group pass takes or contests are rows of the book.
LEMMA FoundAreOrders ==
    ASSUME NEW n, NEW p
    PROVE  FoundFirst(n, OrderSets(p)) \subseteq OpenExpected
BY DEF FoundFirst, OrderSets, Orders

\* The fee of a matched payout is its commission.
LEMMA FeesType ==
    ASSUME TypeInv, Classify
    PROVE  fees' \in [DOMAIN fees' -> Int]
<1>1. ASSUME NEW n \in DOMAIN matches,
             \E i \in matches[n].rows : book[i].source = "marketplace"
      PROVE  book[CHOOSE i \in matches[n].rows :
                      book[i].source = "marketplace"].commission \in Int
    <2>1. matches[n].rows \subseteq Ids
        <3>1. matches \in Seq(Match) /\ DOMAIN matches = 1..Len(matches)
            BY DEF TypeInv, TypeOK
        <3>2. matches[n] \in Match
            BY <1>1, <3>1
        <3> QED
            BY <3>2 DEF Match
    <2>2. \A i \in Ids : book[i].commission \in Int
        BY DEF TypeInv, SoundBook, Transaction
    <2>3. PICK i \in matches[n].rows : book[i].source = "marketplace"
        BY <1>1
    <2>4. (CHOOSE r \in matches[n].rows : book[r].source = "marketplace")
              \in matches[n].rows
        BY <2>3
    <2> QED
        BY <2>1, <2>2, <2>4
<1> QED
    BY <1>1 DEF Classify

\* Nothing is in the book before validation.
LEMMA StartTypes ==
    ASSUME all \in Seq(Transaction), Start
    PROVE  TypeInv
<1>1. Ids = {} /\ rank \in [Ids -> Nat]
    BY DEF Start, EmptyMap, Ids
<1>2. fees \in [DOMAIN fees -> Int]
    BY DEF Start, EmptyMap
<1>3. typed \in [DOMAIN typed -> Discrepancy] /\ DOMAIN typed \subseteq Ids
    BY DEF Start, EmptyMap
<1> QED
    BY <1>1, <1>2, <1>3 DEF Start, TypeInv, TypeOK, SoundBook, Phases, TierRef

\* A run starts with one of the arguments the constants admit.
LEMMA InitTypes ==
    Init => TypeInv
BY InputsAssumption, StartTypes DEF Init

\* Every step of the pipeline keeps the types.
LEMMA StepTypes ==
    TypeInv /\ [Next]_vars => TypeInv'
<1> SUFFICES ASSUME TypeInv, [Next]_vars PROVE TypeInv'
    OBVIOUS
<1> USE DEF poolVars, groupVars, reportVars
<1>1. CASE Accept
    <2>1. all \in Seq(Transaction)
        BY DEF TypeInv, TypeOK
    <2>2. /\ \A i \in Ids' : /\ book'[i] \in Transaction
                             /\ book'[i].id = i
                             /\ ValidateMoney(book'[i])
          /\ rank' \in [Ids' -> Nat]
        BY <1>1, <2>1, AcceptedBook DEF Accept, Ids
    <2>3. open' \subseteq Ids' /\ phase' \in Phases
        BY <1>1 DEF Accept, Ids, Phases
    <2>4. /\ edges' = {} /\ walk' = {} /\ matches' = <<>>
          /\ capped' = {} /\ unsure' = {}
          /\ DOMAIN fees' = {} /\ DOMAIN typed' = {}
          /\ pass' \in 0..2 /\ tier' \in {TierRef, TierAmount}
          /\ fees' \in [DOMAIN fees' -> Int]
        BY <1>1 DEF Accept, TypeInv, TypeOK, Start, EmptyMap
    <2>5. typed' \in [DOMAIN typed' -> Discrepancy]
        BY <1>1 DEF Accept, TypeInv, TypeOK
    <2> QED
        BY <1>1, <2>1, <2>2, <2>3, <2>4, <2>5
        DEF Accept, TypeInv, TypeOK, SoundBook
<1>2. CASE Reject
    BY <1>2 DEF Reject, TypeInv, TypeOK, SoundBook, Ids, Match, Phases
<1>3. CASE ExactPair
    <2>1. PICK e \in ExactRows : \E a \in ExactFits(e) :
              Take("exact", FullScore, {e, a})
        BY <1>3, Zenon DEF ExactPair
    <2>a. PICK a \in ExactFits(e) : Take("exact", FullScore, {e, a})
        BY <2>1, Zenon
    <2>2. {e, a} \subseteq Ids
        BY DEF ExactRows, ExactFits, OpenExpected, OpenActual, Expected, Actual
    <2>3. (matches \in Seq(Match) /\ open \subseteq Ids)'
        BY <1>3, <2>a, <2>2, TakeType DEF ExactPair, Kinds, FullScore
    <2> QED
        BY <1>3, <2>3 DEF ExactPair, TypeInv, TypeOK, SoundBook, Ids
<1>4. CASE ExactDone
    BY <1>4 DEF ExactDone, TypeInv, TypeOK, SoundBook, Ids, Match, Phases
<1>5. CASE SplitMatch
    <2>1. PICK e \in SplitRows :
              Take("split", FullScore, {e} \cup SplitParts(e))
        BY <1>5, Zenon DEF SplitMatch
    <2>2. {e} \cup SplitParts(e) \subseteq Ids
        BY DEF SplitRows, SplitParts, OpenExpected, OpenActual, Expected, Actual
    <2>3. (matches \in Seq(Match) /\ open \subseteq Ids)'
        BY <1>5, <2>1, <2>2, TakeType DEF SplitMatch, Kinds, FullScore
    <2> QED
        BY <1>5, <2>3 DEF SplitMatch, TypeInv, TypeOK, SoundBook, Ids
<1>6. CASE SplitDone
    <2>1. (/\ tier \in {TierRef, TierAmount}
           /\ edges \subseteq Ids \X Ids
           /\ walk \subseteq Ids)'
        BY <1>6, BeginTierType DEF SplitDone
    <2> QED
        BY <1>6, <2>1
        DEF SplitDone, TypeInv, TypeOK, SoundBook, Ids, Match, Phases
<1>7. CASE TolerantPair
    <2>1. PICK e \in walk, o \in open :
              /\ Take(PairKind(o), Score(e, o), {e, o})
              /\ walk' = After(walk, e)
        BY <1>7 DEF TolerantPair, PairRows, Pairs
    <2>2. {e, o} \subseteq Ids
        BY DEF TypeInv, TypeOK
    <2>3. (matches \in Seq(Match) /\ open \subseteq Ids)'
        BY <1>7, <2>1, <2>2, TakeType, ScoreType
        DEF TolerantPair, Kinds, PairKind, TypeInv
    <2>4. walk' \subseteq walk
        BY <2>1 DEF After
    <2> QED
        BY <1>7, <2>3, <2>4 DEF TolerantPair, TypeInv, TypeOK, SoundBook, Ids
<1>8. CASE NextTier
    <2>1. (/\ tier \in {TierRef, TierAmount}
           /\ edges \subseteq Ids \X Ids
           /\ walk \subseteq Ids)'
        BY <1>8, BeginTierType DEF NextTier
    <2> QED
        BY <1>8, <2>1
        DEF NextTier, TypeInv, TypeOK, SoundBook, Ids, Match, Phases
<1>9. CASE TolerantDone
    <2>1. walk' \subseteq Ids /\ phase' \in Phases \ {"validate"}
        BY <1>9 DEF TolerantDone, Payouts, OpenActual, Actual, Phases
    <2> QED
        BY <1>9, <2>1 DEF TolerantDone, TypeInv, TypeOK, SoundBook, Ids, Match
<1>10. CASE PayoutOverCap
    <2>1. PICK p \in walk : /\ NextPayout(p)
                            /\ capped' = capped \cup {p}
                            /\ open' = open \ {p}
        BY <1>10 DEF PayoutOverCap, NextPayout, IsFirst
    <2>2. walk' \subseteq walk /\ phase = "group"
        BY <2>1 DEF NextPayout
    <2> QED
        BY <1>10, <2>1, <2>2
        DEF PayoutOverCap, TypeInv, TypeOK, SoundBook, Ids, Match
<1>11. CASE PayoutUnexplained
    <2>1. walk' \subseteq walk /\ phase = "group"
        BY <1>11 DEF PayoutUnexplained, NextPayout
    <2> QED
        BY <1>11, <2>1
        DEF PayoutUnexplained, TypeInv, TypeOK, SoundBook, Ids, Match
<1>12. CASE PayoutAmbiguous
    <2>1. PICK p \in walk :
              /\ NextPayout(p)
              /\ unsure' = unsure \cup {p} \cup FirstTwo(OrderSets(p))
        BY <1>12 DEF PayoutAmbiguous, NextPayout, IsFirst
    <2>2. walk' \subseteq walk /\ phase = "group"
        BY <2>1 DEF NextPayout
    <2>3. FirstTwo(OrderSets(p)) \subseteq Ids
        BY FoundAreOrders DEF FirstTwo, OpenExpected, Expected
    <2> QED
        BY <1>12, <2>1, <2>2, <2>3
        DEF PayoutAmbiguous, TypeInv, TypeOK, SoundBook, Ids, Match
<1>13. CASE PayoutMatched
    <2>1. PICK p \in walk :
              /\ NextPayout(p)
              /\ Take("group", FullScore, {p} \cup FirstFound(OrderSets(p)))
        BY <1>13, Zenon DEF PayoutMatched
    <2>2. walk' \subseteq walk /\ phase = "group"
        BY <2>1 DEF NextPayout
    <2>3. {p} \cup FirstFound(OrderSets(p)) \subseteq Ids
        BY FoundAreOrders
        DEF FirstFound, OpenExpected, Expected, TypeInv, TypeOK
    <2>4. (matches \in Seq(Match) /\ open \subseteq Ids)'
        BY <1>13, <2>1, <2>3, TakeType
        DEF PayoutMatched, Kinds, FullScore
    <2> QED
        BY <1>13, <2>2, <2>4
        DEF PayoutMatched, TypeInv, TypeOK, SoundBook, Ids
<1>14. CASE GroupsDone
    <2>1. (/\ tier \in {TierRef, TierAmount}
           /\ edges \subseteq Ids \X Ids
           /\ walk \subseteq Ids)'
        BY <1>14, BeginTierType DEF GroupsDone
    <2> QED
        BY <1>14, <2>1
        DEF GroupsDone, TypeInv, TypeOK, SoundBook, Ids, Match, Phases
<1>15. CASE Classify
    <2>1. \A i \in open : Verdict(i, Ambiguous) \in Discrepancy
        BY VerdictFits DEF TypeInv, TypeOK
    <2>2. /\ DOMAIN typed' \subseteq Ids
          /\ typed' \in [DOMAIN typed' -> Discrepancy]
        BY <1>15, <2>1 DEF Classify, TypeInv, TypeOK
    <2>3. fees' \in [DOMAIN fees' -> Int]
        BY <1>15, FeesType DEF Classify
    <2> QED
        BY <1>15, <2>2, <2>3
        DEF Classify, TypeInv, TypeOK, SoundBook, Ids, Match, Phases
<1>16. CASE Finish
    BY <1>16 DEF Finish, TypeInv, TypeOK, SoundBook, Ids, Match, Phases
<1>17. CASE UNCHANGED vars
    BY <1>17 DEF vars, TypeInv, TypeOK, SoundBook, Ids, Match, Start
<1> QED
    BY <1>1, <1>2, <1>3, <1>4, <1>5, <1>6, <1>7, <1>8, <1>9, <1>10, <1>11,
       <1>12, <1>13, <1>14, <1>15, <1>16, <1>17 DEF Next, Returned

\* The types, together with the shape of an accepted book, hold throughout a run.
THEOREM TypesHold == Spec => []TypeInv
BY InitTypes, StepTypes, PTL DEF Spec

\* Every variable always holds a value of its Go type: no row outside the book
\* appears anywhere, and every verdict has one of the schema's eight types.
THEOREM TypeCorrect == Spec => []TypeOK
<1>1. TypeInv => TypeOK
    BY DEF TypeInv
<1> QED
    BY <1>1, TypesHold, PTL

-----------------------------------------------------------------------------
(* A row is in one place *)

\* The group pass visits payouts that are still in the pool: a match takes
\* only orders and the payout visited.
PayoutsOpen == phase = "group" => walk \subseteq OpenActual

PlaceInv == TypeInv /\ Partition /\ PayoutsOpen

\* The rows of the n-th match.
LEMMA MatchedRows ==
    ASSUME TypeInv, NEW n \in DOMAIN matches
    PROVE  matches[n].rows \subseteq Ids
<1>1. matches \in Seq(Match) /\ DOMAIN matches = 1..Len(matches)
    BY DEF TypeInv, TypeOK
<1>2. matches[n] \in Match
    BY <1>1
<1> QED
    BY <1>2 DEF Match

\* A match of open rows goes behind the earlier matches and changes none.
LEMMA TakeAppends ==
    ASSUME TypeInv, NEW kind, NEW score, NEW rows, Take(kind, score, rows)
    PROVE  /\ DOMAIN matches' = DOMAIN matches \cup {Len(matches) + 1}
           /\ Len(matches) + 1 \notin DOMAIN matches
           /\ Len(matches') = Len(matches) + 1
           /\ \A n \in DOMAIN matches : matches'[n] = matches[n]
           /\ matches'[Len(matches) + 1] =
                  [kind |-> kind, score |-> score, rows |-> rows]
<1> DEFINE m == [kind |-> kind, score |-> score, rows |-> rows]
<1>1. /\ matches \in Seq(Match) /\ Len(matches) \in Nat
      /\ DOMAIN matches = 1..Len(matches)
    BY DEF TypeInv, TypeOK
<1>2. matches' = Append(matches, m)
    BY DEF Take
<1> HIDE DEF m
<1>3. /\ DOMAIN matches' = 1..(Len(matches) + 1)
      /\ Len(matches') = Len(matches) + 1
      /\ \A n \in DOMAIN matches : matches'[n] = matches[n]
      /\ matches'[Len(matches) + 1] = m
    BY <1>1, <1>2
<1> QED
    BY <1>1, <1>3 DEF m

\* Taking open rows of the book moves them from the pool to one match.
LEMMA TakePartition ==
    ASSUME TypeInv, Partition, UNCHANGED <<book, capped>>,
           NEW kind, NEW score, NEW rows, rows \subseteq open,
           Take(kind, score, rows)
    PROVE  Partition'
<1> DEFINE k == Len(matches) + 1
<1>1. /\ DOMAIN matches' = DOMAIN matches \cup {k}
      /\ \A n \in DOMAIN matches : matches'[n].rows = matches[n].rows
      /\ matches'[k].rows = rows
      /\ open' = open \ rows
    BY TakeAppends DEF Take
<1> HIDE DEF k
<1>2. Matched' = Matched \cup rows
    BY <1>1 DEF Matched
<1>3. \A n \in DOMAIN matches : matches[n].rows \cap rows = {}
    BY DEF Partition, Matched
<1>4. \A m, n \in DOMAIN matches' :
          m # n => matches'[m].rows \cap matches'[n].rows = {}
    BY <1>1, <1>3 DEF Partition
<1>5. Ids' = Ids
    BY DEF Ids
<1> QED
    BY <1>1, <1>2, <1>4, <1>5 DEF Partition

\* A step that moves no row keeps each in its place.
LEMMA StutterPartition ==
    ASSUME Partition, UNCHANGED <<book, open, matches, capped>>
    PROVE  Partition'
BY DEF Partition, Matched, Ids

\* The rows a group match takes were all open.
LEMMA GroupRows ==
    ASSUME PayoutsOpen, NEW p, NextPayout(p)
    PROVE  /\ p \in OpenActual
           /\ {p} \cup FirstFound(OrderSets(p)) \subseteq open
           /\ walk \cap FirstFound(OrderSets(p)) = {}
           /\ walk' \subseteq walk \ {p}
<1>1. p \in walk /\ walk' = walk \ {p} /\ walk \subseteq OpenActual
    BY DEF PayoutsOpen, NextPayout, IsFirst
<1>2. p \in OpenActual /\ FirstFound(OrderSets(p)) \subseteq OpenExpected
    BY <1>1, FoundAreOrders DEF FirstFound
<1> QED
    BY <1>1, <1>2 DEF OpenActual, OpenExpected, Actual

\* The step of every pass leaves each row in one place, and the payouts still
\* to visit in the pool.
LEMMA StepPlaces ==
    PlaceInv /\ [Next]_vars => PlaceInv'
<1> SUFFICES ASSUME PlaceInv, [Next]_vars PROVE PlaceInv'
    OBVIOUS
<1> USE DEF poolVars, groupVars, reportVars
<1>t. TypeInv /\ Partition /\ PayoutsOpen /\ TypeInv'
    BY StepTypes DEF PlaceInv
<1>1. CASE Accept
    <2>1. Matched' = {} /\ capped' = {} /\ open' = Ids' /\ DOMAIN matches' = {}
        BY <1>1, <1>t DEF Accept, TypeInv, Start, Matched, Ids
    <2>2. phase' = "exact"
        BY <1>1 DEF Accept
    <2> QED
        BY <1>t, <2>1, <2>2 DEF PlaceInv, Partition, PayoutsOpen
<1>2. CASE Reject
    BY <1>t, <1>2, StutterPartition DEF Reject, PlaceInv, PayoutsOpen
<1>3. CASE ExactPair
    <2>1. PICK e \in ExactRows : \E a \in ExactFits(e) :
              Take("exact", FullScore, {e, a})
        BY <1>3, Zenon DEF ExactPair
    <2>2. PICK a \in ExactFits(e) : Take("exact", FullScore, {e, a})
        BY <2>1, Zenon
    <2>3. {e, a} \subseteq open
        BY DEF ExactRows, ExactFits, OpenExpected, OpenActual
    <2>4. UNCHANGED <<book, capped>> /\ phase = "exact" /\ phase' = phase
        BY <1>3 DEF ExactPair
    <2>5. Partition'
        BY <1>t, <2>2, <2>3, <2>4, TakePartition
    <2> QED
        BY <1>t, <2>4, <2>5 DEF PlaceInv, PayoutsOpen
<1>4. CASE ExactDone
    BY <1>t, <1>4, StutterPartition DEF ExactDone, PlaceInv, PayoutsOpen
<1>5. CASE SplitMatch
    <2>1. PICK e \in SplitRows :
              Take("split", FullScore, {e} \cup SplitParts(e))
        BY <1>5, Zenon DEF SplitMatch
    <2>2. {e} \cup SplitParts(e) \subseteq open
        BY DEF SplitRows, SplitParts, OpenExpected, OpenActual
    <2>3. UNCHANGED <<book, capped>> /\ phase = "split" /\ phase' = phase
        BY <1>5 DEF SplitMatch
    <2>4. Partition'
        BY <1>t, <2>1, <2>2, <2>3, TakePartition
    <2> QED
        BY <1>t, <2>3, <2>4 DEF PlaceInv, PayoutsOpen
<1>6. CASE SplitDone
    BY <1>t, <1>6, StutterPartition DEF SplitDone, PlaceInv, PayoutsOpen
<1>7. CASE TolerantPair
    <2>1. PICK e \in walk, o \in open :
              /\ Take(PairKind(o), Score(e, o), {e, o})
              /\ {e, o} \subseteq open
        BY <1>7 DEF TolerantPair, PairRows, Pairs, Accepts
    <2>2. UNCHANGED <<book, capped>> /\ phase = "tolerant" /\ phase' = phase
        BY <1>7 DEF TolerantPair
    <2>3. Partition'
        BY <1>t, <2>1, <2>2, TakePartition
    <2> QED
        BY <1>t, <2>2, <2>3 DEF PlaceInv, PayoutsOpen
<1>8. CASE NextTier
    BY <1>t, <1>8, StutterPartition DEF NextTier, PlaceInv, PayoutsOpen
<1>9. CASE TolerantDone
    <2>1. phase' = "group" => walk' \subseteq OpenActual'
        BY <1>9 DEF TolerantDone, Payouts, OpenActual, Actual, Expected, Ids
    <2> QED
        BY <1>t, <1>9, <2>1, StutterPartition
        DEF TolerantDone, PlaceInv, PayoutsOpen
<1>10. CASE PayoutOverCap
    <2>1. PICK p : /\ NextPayout(p)
                   /\ capped' = capped \cup {p}
                   /\ open' = open \ {p}
        BY <1>10 DEF PayoutOverCap
    <2>2. p \in OpenActual /\ walk' \subseteq walk \ {p}
        BY <1>t, <2>1, GroupRows
    <2>3. UNCHANGED <<book, matches>> /\ phase = "group"
        BY <1>10, <2>1 DEF PayoutOverCap, NextPayout
    <2>4. Partition'
        BY <1>t, <2>1, <2>2, <2>3 DEF Partition, Matched, Ids, OpenActual
    <2>5. walk' \subseteq OpenActual'
        BY <1>t, <2>1, <2>2, <2>3
        DEF PayoutsOpen, OpenActual, Actual, Expected, Ids
    <2> QED
        BY <1>t, <2>4, <2>5 DEF PlaceInv, PayoutsOpen
<1>11. CASE PayoutUnexplained
    <2>1. walk' \subseteq walk /\ phase = "group"
        BY <1>11 DEF PayoutUnexplained, NextPayout
    <2> QED
        BY <1>t, <1>11, <2>1, StutterPartition
        DEF PayoutUnexplained, PlaceInv, PayoutsOpen, OpenActual, Actual,
            Expected, Ids
<1>12. CASE PayoutAmbiguous
    <2>1. walk' \subseteq walk /\ phase = "group"
        BY <1>12 DEF PayoutAmbiguous, NextPayout
    <2> QED
        BY <1>t, <1>12, <2>1, StutterPartition
        DEF PayoutAmbiguous, PlaceInv, PayoutsOpen, OpenActual, Actual,
            Expected, Ids
<1>13. CASE PayoutMatched
    <2> DEFINE orders(p) == FirstFound(OrderSets(p))
    <2>1. PICK p \in walk :
              /\ NextPayout(p)
              /\ Take("group", FullScore, {p} \cup orders(p))
        BY <1>13, Zenon DEF PayoutMatched
    <2>2. /\ {p} \cup orders(p) \subseteq open
          /\ walk' \subseteq walk \ ({p} \cup orders(p))
        BY <1>t, <2>1, GroupRows
    <2> HIDE DEF orders
    <2>3. UNCHANGED <<book, capped>> /\ phase = "group"
        BY <1>13, <2>1 DEF PayoutMatched, NextPayout
    <2>4. Partition'
        BY <1>t, <2>1, <2>2, <2>3, TakePartition
    <2>5. open' = open \ ({p} \cup orders(p))
        BY <2>1 DEF Take
    <2>6. walk' \subseteq OpenActual'
        BY <1>t, <2>2, <2>3, <2>5
        DEF PayoutsOpen, OpenActual, Actual, Expected, Ids
    <2> QED
        BY <1>t, <2>4, <2>6 DEF PlaceInv, PayoutsOpen
<1>14. CASE GroupsDone
    BY <1>t, <1>14, StutterPartition DEF GroupsDone, PlaceInv, PayoutsOpen
<1>15. CASE Classify
    BY <1>t, <1>15, StutterPartition DEF Classify, PlaceInv, PayoutsOpen
<1>16. CASE Finish
    BY <1>t, <1>16, StutterPartition DEF Finish, PlaceInv, PayoutsOpen
<1>17. CASE UNCHANGED vars
    BY <1>t, <1>17, StutterPartition
    DEF vars, PlaceInv, PayoutsOpen, OpenActual, Actual, Expected, Ids
<1> QED
    BY <1>1, <1>2, <1>3, <1>4, <1>5, <1>6, <1>7, <1>8, <1>9, <1>10, <1>11,
       <1>12, <1>13, <1>14, <1>15, <1>16, <1>17 DEF Next, Returned

\* No row is anywhere before validation.
LEMMA StartPlaces ==
    ASSUME all \in Seq(Transaction), Start
    PROVE  PlaceInv
BY StartTypes
   DEF Start, PlaceInv, Partition, PayoutsOpen, Matched, EmptyMap, Ids

\* No row is lost or taken twice, and every payout the group pass has still to
\* visit is in the pool.
THEOREM PlacesHold == Spec => []PlaceInv
<1>1. Init => PlaceInv
    BY InputsAssumption, StartPlaces DEF Init
<1> QED
    BY <1>1, StepPlaces, PTL DEF Spec

\* README guarantees 1 and 2, at every step of every run: a row is in exactly
\* one match, or set aside as an over-cap payout, or still in the pool.
THEOREM EveryRowInOnePlace == Spec => []Partition
<1>1. PlaceInv => Partition
    BY DEF PlaceInv
<1> QED
    BY <1>1, PlacesHold, PTL

-----------------------------------------------------------------------------
(* The invariant check of the code never fails *)

\* What Classify hands to the check: a verdict for every open row, with a
\* delta that fits its amount.
Classified ==
    phase = "check" =>
        /\ DOMAIN typed = open
        /\ \A i \in open : DeltaFits(typed[i], book[i].amount)

\* invariants.Check succeeds on the result of Classify.
LEMMA CheckSucceeds ==
    ASSUME PlaceInv, Classified, phase = "check"
    PROVE  Check
<1>t. TypeInv /\ Partition /\ capped \subseteq Ids
    BY DEF PlaceInv, TypeInv, TypeOK
<1>1. \A i \in Ids \ Matched : i \in capped \/ i \in open
    BY <1>t DEF Partition
<1>2. ASSUME NEW i \in Ids \ Matched
      PROVE  /\ DiscrepanciesOf(i) # {}
             /\ \A d \in DiscrepanciesOf(i) : DeltaFits(d, book[i].amount)
    <2>1. i \in capped => DeltaFits(Whole("unknown", i), book[i].amount)
        BY <1>t, WholeFits DEF TypeInv
    <2>2. i \in DOMAIN typed => DeltaFits(typed[i], book[i].amount)
        BY DEF Classified
    <2>3. i \in capped \/ i \in DOMAIN typed
        BY <1>1, <1>2 DEF Classified
    <2> QED
        BY <2>1, <2>2, <2>3 DEF DiscrepanciesOf
<1> QED
    BY <1>t, <1>2 DEF Check, Partition

\* A run fails in validation only.
LEMMA StepVerdicts ==
    PlaceInv /\ Classified /\ NeverRefusesItsResult /\ [Next]_vars
        => (Classified /\ NeverRefusesItsResult)'
<1> SUFFICES ASSUME PlaceInv, Classified, NeverRefusesItsResult, [Next]_vars
             PROVE  (Classified /\ NeverRefusesItsResult)'
    OBVIOUS
<1> USE DEF poolVars, groupVars, reportVars
<1>1. CASE Reject
    BY <1>1 DEF Reject, Classified, NeverRefusesItsResult
<1>2. CASE Classify
    <2>1. \A i \in open : DeltaFits(Verdict(i, Ambiguous), book[i].amount)
        BY VerdictFits DEF PlaceInv, TypeInv, TypeOK
    <2>2. DOMAIN typed' = open /\ \A i \in open : typed'[i] = Verdict(i, Ambiguous)
        BY <1>2 DEF Classify
    <2>3. UNCHANGED <<book, open>> /\ phase' = "check"
        BY <1>2 DEF Classify
    <2> QED
        BY <2>1, <2>2, <2>3 DEF Classified, NeverRefusesItsResult
<1>3. CASE Finish
    <2>1. phase' = "done"
        BY <1>3, CheckSucceeds DEF Finish
    <2> QED
        BY <2>1 DEF Classified, NeverRefusesItsResult
<1>4. CASE UNCHANGED vars
    BY <1>4 DEF vars, Classified, NeverRefusesItsResult
<1>5. CASE Next /\ ~Reject /\ ~Classify /\ ~Finish /\ ~UNCHANGED vars
    <2>1. phase' \notin {"check", "failed"}
        BY <1>5
        DEF Next, Returned, Accept, ExactPair, ExactDone, SplitMatch, SplitDone,
            TolerantPair, NextTier, TolerantDone, PayoutOverCap, NextPayout,
            PayoutUnexplained, PayoutAmbiguous, PayoutMatched, GroupsDone
    <2> QED
        BY <2>1 DEF Classified, NeverRefusesItsResult
<1> QED
    BY <1>1, <1>2, <1>3, <1>4, <1>5

\* The engine aborts a run when its invariant check fails, and no accepted
\* book makes it fail: only an argument that breaks the input contract is
\* refused.
THEOREM ResultNeverRefused == Spec => []NeverRefusesItsResult
<1>1. Init => Classified /\ NeverRefusesItsResult
    BY DEF Init, Start, Classified, NeverRefusesItsResult
<1> QED
    BY <1>1, StepVerdicts, PlacesHold, PTL DEF Spec

-----------------------------------------------------------------------------
(* No step takes anything back *)

\* The step of NothingTakenBack.
TakesNothingBack ==
    \/ phase = "validate"
    \/ /\ open' \subseteq open
       /\ Len(matches') >= Len(matches)
       /\ \A n \in DOMAIN matches : matches'[n] = matches[n]
       /\ \A n \in DOMAIN matches' \ DOMAIN matches :
              matches'[n].rows \subseteq open

\* Taking open rows takes nothing back.
LEMMA TakeForward ==
    ASSUME TypeInv, NEW kind, NEW score, NEW rows, rows \subseteq open,
           Take(kind, score, rows)
    PROVE  TakesNothingBack
<1>1. Len(matches) \in Nat
    BY DEF TypeInv, TypeOK
<1>2. open' \subseteq open
    BY DEF Take
<1> DEFINE k == Len(matches) + 1
<1>3. /\ DOMAIN matches' = DOMAIN matches \cup {k}
      /\ Len(matches') = k
      /\ \A n \in DOMAIN matches : matches'[n] = matches[n]
      /\ matches'[k].rows = rows
    BY TakeAppends DEF Take
<1>4. k >= Len(matches)
    BY <1>1
<1> HIDE DEF k
<1> QED
    BY <1>2, <1>3, <1>4 DEF TakesNothingBack

\* A step that appends no match takes nothing back if no row returns.
LEMMA StutterForward ==
    ASSUME TypeInv, UNCHANGED matches, open' \subseteq open
    PROVE  TakesNothingBack
<1>1. Len(matches) \in Nat
    BY DEF TypeInv, TypeOK
<1> QED
    BY <1>1 DEF TakesNothingBack

\* A step takes rows out of the pool and appends matches of rows that were in it.
LEMMA StepForward ==
    PlaceInv /\ [Next]_vars => [TakesNothingBack]_vars
<1> SUFFICES ASSUME PlaceInv, [Next]_vars PROVE TakesNothingBack
    OBVIOUS
<1> USE DEF poolVars, groupVars, reportVars
<1>t. TypeInv /\ PayoutsOpen
    BY DEF PlaceInv
<1>1. CASE Accept \/ Reject
    BY <1>1 DEF Accept, Reject, TakesNothingBack
<1>2. CASE ExactPair
    <2>1. PICK e \in ExactRows : \E a \in ExactFits(e) :
              Take("exact", FullScore, {e, a})
        BY <1>2, Zenon DEF ExactPair
    <2>2. PICK a \in ExactFits(e) : Take("exact", FullScore, {e, a})
        BY <2>1, Zenon
    <2>3. {e, a} \subseteq open
        BY DEF ExactRows, ExactFits, OpenExpected, OpenActual
    <2> QED
        BY <1>t, <2>2, <2>3, TakeForward
<1>3. CASE SplitMatch
    <2>1. PICK e \in SplitRows :
              Take("split", FullScore, {e} \cup SplitParts(e))
        BY <1>3, Zenon DEF SplitMatch
    <2>2. {e} \cup SplitParts(e) \subseteq open
        BY DEF SplitRows, SplitParts, OpenExpected, OpenActual
    <2> QED
        BY <1>t, <2>1, <2>2, TakeForward
<1>4. CASE TolerantPair
    <2>1. PICK e \in walk, o \in open :
              /\ Take(PairKind(o), Score(e, o), {e, o})
              /\ {e, o} \subseteq open
        BY <1>4 DEF TolerantPair, PairRows, Pairs, Accepts
    <2> QED
        BY <1>t, <2>1, TakeForward
<1>5. CASE PayoutMatched
    <2>1. PICK p \in walk :
              /\ NextPayout(p)
              /\ Take("group", FullScore, {p} \cup FirstFound(OrderSets(p)))
        BY <1>5, Zenon DEF PayoutMatched
    <2> QED
        BY <1>t, <2>1, GroupRows, TakeForward
<1>6. CASE PayoutOverCap
    <2>1. UNCHANGED matches /\ open' \subseteq open
        BY <1>6 DEF PayoutOverCap
    <2> QED
        BY <1>t, <2>1, StutterForward
<1>7. CASE ExactDone \/ SplitDone \/ NextTier \/ TolerantDone
           \/ PayoutUnexplained \/ PayoutAmbiguous \/ GroupsDone
           \/ Classify \/ Finish \/ UNCHANGED vars
    <2>1. UNCHANGED <<matches, open>>
        BY <1>7
        DEF ExactDone, SplitDone, NextTier, TolerantDone, PayoutUnexplained,
            PayoutAmbiguous, GroupsDone, Classify, Finish, vars
    <2> QED
        BY <1>t, <2>1, StutterForward
<1> QED
    BY <1>1, <1>2, <1>3, <1>4, <1>5, <1>6, <1>7 DEF Next, Returned

\* Rows only leave the pool, matches are only appended, and the rows of a new
\* match were all still in the pool, whichever pass appends it.
THEOREM NoStepTakesBack == Spec => NothingTakenBack
<1>1. PlaceInv /\ [Next]_vars => [TakesNothingBack]_vars
    BY StepForward
<1>2. Spec => [][TakesNothingBack]_vars
    BY <1>1, PlacesHold, PTL DEF Spec
<1> QED
    BY <1>2 DEF NothingTakenBack, TakesNothingBack

-----------------------------------------------------------------------------
(* What depends on the book only *)

\* The references and the evidence of two rows do not change while the book
\* does not.
LEMMA BookFrame ==
    ASSUME UNCHANGED book
    PROVE  /\ Ids' = Ids /\ Expected' = Expected /\ Actual' = Actual
           /\ \A e, a : RefConflict(e, a)' <=> RefConflict(e, a)
           /\ \A e, o : Tier(e, o)' = Tier(e, o)
           /\ \A e, o, t : Candidate(e, o, t)' <=> Candidate(e, o, t)
           /\ \A S : SumAmounts(S)' = SumAmounts(S)
<1>1. Ids' = Ids /\ Expected' = Expected /\ Actual' = Actual
    BY DEF Ids, Expected, Actual
<1>2. \A e, a : RefConflict(e, a)' <=> RefConflict(e, a)
    BY <1>1 DEF RefConflict, SameRecord
<1>3. \A e, o : Tier(e, o)' = Tier(e, o)
    BY DEF Tier, AmountDiff
<1>4. \A e, o : BankEdge(e, o)' <=> BankEdge(e, o)
    BY <1>1, <1>2 DEF BankEdge, AmountDiff
<1>5. \A e, o : ReversalEdge(e, o)' <=> ReversalEdge(e, o)
    BY <1>1 DEF ReversalEdge
<1>6. \A e, o, t : Candidate(e, o, t)' <=> Candidate(e, o, t)
    BY <1>3, <1>4, <1>5 DEF Candidate
<1>7. \A S : SumAmounts(S)' = SumAmounts(S)
    BY DEF SumAmounts
<1> QED
    BY <1>1, <1>2, <1>3, <1>6, <1>7

\* After validation the book is fixed, the pool shrinks and the matches grow.
Onward ==
    /\ UNCHANGED book
    /\ open' \subseteq open
    /\ DOMAIN matches \subseteq DOMAIN matches'
    /\ \A n \in DOMAIN matches : matches'[n] = matches[n]

\* Once the book is accepted, every step of the pipeline goes onward.
LEMMA StepOnward ==
    ASSUME PlaceInv, [Next]_vars, phase # "validate"
    PROVE  Onward
<1> USE DEF poolVars, groupVars, reportVars
<1>1. UNCHANGED book
    BY DEF Next, Returned, Accept, Reject, ExactPair, ExactDone, SplitMatch,
           SplitDone, TolerantPair, NextTier, TolerantDone, PayoutOverCap,
           PayoutUnexplained, PayoutAmbiguous, PayoutMatched, GroupsDone,
           Classify, Finish, vars
<1>2. TakesNothingBack \/ UNCHANGED vars
    BY StepForward
<1>3. CASE UNCHANGED vars
    BY <1>1, <1>3 DEF vars, Onward
<1>4. CASE TakesNothingBack
    <2>1. /\ matches \in Seq(Match) /\ matches' \in Seq(Match')
          /\ Len(matches') >= Len(matches)
        BY <1>4, StepTypes DEF TakesNothingBack, PlaceInv, TypeInv, TypeOK
    <2>2. /\ DOMAIN matches = 1..Len(matches) /\ Len(matches) \in Nat
          /\ DOMAIN matches' = 1..Len(matches') /\ Len(matches') \in Nat
        BY <2>1
    <2>3. DOMAIN matches \subseteq DOMAIN matches'
        BY <2>1, <2>2
    <2> QED
        BY <1>1, <1>4, <2>3 DEF TakesNothingBack, Onward
<1> QED
    BY <1>2, <1>3, <1>4

\* The book of a run is finite, because its argument is a finite sequence.
LEMMA BookIsFinite == Spec => []BookFinite
<1>1. Init => BookFinite
    BY FS_EmptySet DEF Init, Start, EmptyMap, BookFinite, Ids
<1>2. PlaceInv /\ BookFinite /\ [Next]_vars => BookFinite'
    <2> SUFFICES ASSUME PlaceInv, BookFinite, [Next]_vars PROVE BookFinite'
        OBVIOUS
    <2>1. CASE Accept
        <3>1. all \in Seq(Transaction)
            BY DEF PlaceInv, TypeInv, TypeOK
        <3> QED
            BY <2>1, <3>1, AcceptedBook DEF Accept, BookFinite, Ids
    <2>2. CASE phase # "validate"
        BY <2>2, StepOnward DEF Onward, BookFinite, Ids
    <2>3. CASE Reject \/ UNCHANGED vars
        BY <2>3 DEF Reject, poolVars, vars, BookFinite, Ids
    <2>4. Accept \/ phase # "validate" \/ Reject \/ UNCHANGED vars
        BY DEF Next, Returned, ExactPair, ExactDone, SplitMatch, SplitDone,
               TolerantPair, NextTier, TolerantDone, PayoutOverCap,
               PayoutUnexplained, PayoutAmbiguous, PayoutMatched, NextPayout,
               GroupsDone, Classify, Finish
    <2> QED
        BY <2>1, <2>2, <2>3, <2>4
<1> QED
    BY <1>1, <1>2, PlacesHold, PTL DEF Spec

-----------------------------------------------------------------------------
(* The subtotals of the report *)

\* g holds the totals of the parts of a list of transactions.
ListTotals(txs, g) ==
    g = [s \in SUBSET DOMAIN txs |->
            IF s = {} THEN 0
            ELSE (txs[CHOOSE x \in s : TRUE].amount
                      + txs[CHOOSE x \in s : TRUE].commission)
                     + g[s \ {CHOOSE x \in s : TRUE}]]

\* Total reads its value off such a function.
LEMMA ListTotalsMeaning ==
    ASSUME NEW txs, NEW g, ListTotals(txs, g)
    PROVE  \E h : ListTotals(txs, h) /\ h[DOMAIN txs] = Total(txs)
BY DEF ListTotals, Total, MapThenSumSet, MapThenFoldSet

\* g holds the deltas of the parts of a result.
DeltaTotals(ds, g) ==
    g = [s \in SUBSET DOMAIN ds |->
            IF s = {} THEN 0
            ELSE Magnitude(ds[CHOOSE x \in s : TRUE].delta)
                     + g[s \ {CHOOSE x \in s : TRUE}]]

\* What the deltas of a result add up to, in either direction.
DeltaTotal(ds) == MapThenSumSet(LAMBDA i : Magnitude(ds[i].delta), DOMAIN ds)

\* It is read off such a function.
LEMMA DeltaTotalsMeaning ==
    ASSUME NEW ds, NEW g, DeltaTotals(ds, g)
    PROVE  \E h : DeltaTotals(ds, h) /\ h[DOMAIN ds] = DeltaTotal(ds)
BY DEF DeltaTotals, DeltaTotal, MapThenSumSet, MapThenFoldSet

\* The total that validation bounds is a sum of weights.
LEMMA TotalIsSum ==
    ASSUME NEW txs, IsFiniteSet(DOMAIN txs), NEW w,
           \A k \in DOMAIN txs : w[k] = txs[k].amount + txs[k].commission
    PROVE  Total(txs) = Sum(w, DOMAIN txs)
<1>1. PICK g : Sums(w, g, SUBSET DOMAIN txs)
    BY SumMeaning
<1>2. \A s \in SUBSET DOMAIN txs : s # {} =>
          w[Some(s)] = txs[Some(s)].amount + txs[Some(s)].commission
    BY DEF Some
<1>3. \A h : ListTotals(txs, h) <=> Sums(w, h, SUBSET DOMAIN txs)
    BY <1>2 DEF ListTotals, Sums, Added, Some
<1>4. PICK h : ListTotals(txs, h) /\ h[DOMAIN txs] = Total(txs)
    BY <1>1, <1>3, ListTotalsMeaning
<1> QED
    BY <1>3, <1>4, SumMeaning

\* So is the total of the deltas.
LEMMA DeltaTotalIsSum ==
    ASSUME NEW ds, IsFiniteSet(DOMAIN ds), NEW w,
           \A i \in DOMAIN ds : w[i] = Magnitude(ds[i].delta)
    PROVE  DeltaTotal(ds) = Sum(w, DOMAIN ds)
<1>1. PICK g : Sums(w, g, SUBSET DOMAIN ds)
    BY SumMeaning
<1>2. \A s \in SUBSET DOMAIN ds : s # {} =>
          w[Some(s)] = Magnitude(ds[Some(s)].delta)
    BY DEF Some
<1>3. \A h : DeltaTotals(ds, h) <=> Sums(w, h, SUBSET DOMAIN ds)
    BY <1>2 DEF DeltaTotals, Sums, Added, Some
<1>4. PICK h : DeltaTotals(ds, h) /\ h[DOMAIN ds] = DeltaTotal(ds)
    BY <1>1, <1>3, DeltaTotalsMeaning
<1> QED
    BY <1>3, <1>4, SumMeaning

\* What a row adds to the total of the book.
Worth == [i \in Ids |-> book[i].amount + book[i].commission]

\* The total of an accepted argument is that of the book split from it: the
\* IDs of its transactions are distinct.
LEMMA BookTotal ==
    ASSUME NEW txs \in Seq(Transaction), Acceptable(txs)
    PROVE  LET b == BookOf(txs)
           IN  Sum([i \in DOMAIN b |-> b[i].amount + b[i].commission], DOMAIN b)
                   <= MaxMoney
<1> DEFINE b == BookOf(txs)
           w == [i \in DOMAIN b |-> b[i].amount + b[i].commission]
           v == [k \in DOMAIN txs |-> txs[k].amount + txs[k].commission]
           f == [k \in DOMAIN txs |-> txs[k].id]
<1>1. IsFiniteSet(DOMAIN txs)
    <2>1. DOMAIN txs = 1..Len(txs) /\ Len(txs) \in Nat
        OBVIOUS
    <2> QED
        BY <2>1, FS_Interval
<1>2. \A k \in DOMAIN txs : txs[k] \in Transaction
    OBVIOUS
<1>3. \A k, l \in DOMAIN txs : txs[k].id = txs[l].id => k = l
    BY DEF Acceptable
<1>4. ASSUME NEW k \in DOMAIN txs
      PROVE  txs[k].id \in DOMAIN b /\ b[txs[k].id] = txs[k]
    <2>1. (CHOOSE l \in DOMAIN txs : txs[l].id = txs[k].id) = k
        BY <1>3
    <2> QED
        BY <2>1 DEF BookOf
<1>5. DOMAIN b = {f[k] : k \in DOMAIN txs}
    BY DEF BookOf
<1>6. \A k \in DOMAIN txs : w[f[k]] \in Int /\ v[k] = w[f[k]]
    <2> SUFFICES ASSUME NEW k \in DOMAIN txs
                 PROVE  w[f[k]] \in Int /\ v[k] = w[f[k]]
        OBVIOUS
    <2>1. f[k] = txs[k].id /\ v[k] = txs[k].amount + txs[k].commission
        OBVIOUS
    <2>2. txs[k].amount \in Int /\ txs[k].commission \in Int
        BY <1>2 DEF Transaction
    <2> HIDE DEF b
    <2>3. w[txs[k].id] = txs[k].amount + txs[k].commission
        BY <1>4
    <2> HIDE DEF w, f, v
    <2> QED
        BY <2>1, <2>2, <2>3
<1>7. \A k, l \in DOMAIN txs : f[k] = f[l] => k = l
    BY <1>3
<1>8. Total(txs) = Sum(v, DOMAIN txs)
    BY <1>1, TotalIsSum
<1>9. Sum(v, DOMAIN txs) = Sum(w, {f[k] : k \in DOMAIN txs})
    <2> HIDE DEF v, w, f
    <2> QED
        BY <1>1, <1>6, <1>7, SumImage
<1>10. Total(txs) <= MaxMoney
    BY DEF Acceptable
<1> HIDE DEF b, v, f
<1>11. Sum(w, DOMAIN b) <= MaxMoney
    BY <1>5, <1>8, <1>9, <1>10
<1> QED
    BY <1>11 DEF b

\* The book stays within the bound that validation checked.
Bounded == Sum(Worth, Ids) <= MaxMoney

\* A verdict is about an open row and at most its amount; a fee is that of a
\* row of its match.  Nothing is reported before classification.
Reported ==
    /\ phase \notin {"check", "done", "failed"} =>
           typed = EmptyMap /\ fees = EmptyMap
    /\ DOMAIN typed \subseteq open
    /\ \A i \in DOMAIN typed : Magnitude(typed[i].delta) <= book[i].amount
    /\ DOMAIN fees \subseteq DOMAIN matches
    /\ \A n \in DOMAIN fees :
           \E i \in matches[n].rows : fees[n] = book[i].commission

\* An accepted delta is no more than the amount, in either direction.
LEMMA DeltaInAmount ==
    ASSUME NEW d \in Discrepancy, NEW amount \in Int, 0 <= amount,
           DeltaFits(d, amount)
    PROVE  Magnitude(d.delta) <= amount
BY DEF Discrepancy, DiscrepancyTypes, DeltaFits, Magnitude

\* The book of an accepted argument is bounded, and no other step touches it.
LEMMA StepBounded ==
    ASSUME PlaceInv, Bounded, [Next]_vars
    PROVE  Bounded'
<1>1. CASE Accept
    <2>1. all \in Seq(Transaction)
        BY DEF PlaceInv, TypeInv, TypeOK
    <2>2. book' = BookOf(all) /\ Acceptable(all)
        BY <1>1 DEF Accept
    <2> QED
        BY <2>1, <2>2, BookTotal DEF Bounded, Worth, Ids
<1>2. CASE phase # "validate"
    BY <1>2, StepOnward DEF Onward, Bounded, Worth, Ids
<1>3. CASE Reject \/ UNCHANGED vars
    BY <1>3 DEF Reject, poolVars, vars, Bounded, Worth, Ids
<1>4. Accept \/ phase # "validate" \/ Reject \/ UNCHANGED vars
    BY DEF Next, Returned, ExactPair, ExactDone, SplitMatch, SplitDone,
           TolerantPair, NextTier, TolerantDone, PayoutOverCap,
           PayoutUnexplained, PayoutAmbiguous, PayoutMatched, NextPayout,
           GroupsDone, Classify, Finish
<1> QED
    BY <1>1, <1>2, <1>3, <1>4

\* Classify reports on the rows it finds, and no later step changes them.
LEMMA StepReported ==
    ASSUME PlaceInv, Reported, [Next]_vars
    PROVE  Reported'
<1> USE DEF poolVars, groupVars, reportVars
<1>1. CASE Classify
    <2>1. UNCHANGED <<book, open, matches>> /\ phase' = "check"
        BY <1>1 DEF Classify
    <2>2. DOMAIN typed' = open
        BY <1>1 DEF Classify
    <2>3. ASSUME NEW i \in open
          PROVE  Magnitude(typed'[i].delta) <= book[i].amount
        <3>1. i \in Ids /\ rank \in [Ids -> Nat] /\ SoundBook
            BY DEF PlaceInv, TypeInv, TypeOK
        <3>2. book[i].amount \in Int /\ 0 <= book[i].amount
            BY <3>1 DEF SoundBook, Transaction, ValidateMoney
        <3>3. typed'[i] = Verdict(i, Ambiguous)
            BY <1>1 DEF Classify
        <3>4. /\ Verdict(i, Ambiguous) \in Discrepancy
              /\ DeltaFits(Verdict(i, Ambiguous), book[i].amount)
            BY <3>1, VerdictFits
        <3> QED
            BY <3>2, <3>3, <3>4, DeltaInAmount
    <2>4. DOMAIN fees' \subseteq DOMAIN matches
        BY <1>1 DEF Classify
    <2>5. ASSUME NEW n \in DOMAIN fees'
          PROVE  \E i \in matches[n].rows : fees'[n] = book[i].commission
        <3> DEFINE i == CHOOSE i \in matches[n].rows :
                            book[i].source = "marketplace"
        <3>1. /\ \E j \in matches[n].rows : book[j].source = "marketplace"
              /\ fees'[n] = book[i].commission
            BY <1>1 DEF Classify
        <3>2. i \in matches[n].rows
            BY <3>1
        <3> HIDE DEF i
        <3> QED
            BY <3>1, <3>2
    <2> QED
        BY <2>1, <2>2, <2>3, <2>4, <2>5 DEF Reported
<1>2. CASE Finish \/ Returned \/ UNCHANGED vars
    <2>1. UNCHANGED <<book, open, matches, typed, fees>>
        BY <1>2 DEF Finish, Returned, vars
    <2>2. phase' \notin {"check", "done", "failed"} =>
              phase \notin {"check", "done", "failed"}
        BY <1>2 DEF Finish, Returned, vars
    <2> QED
        BY <2>1, <2>2 DEF Reported
<1>3. CASE ~Classify /\ ~Finish /\ ~Returned /\ ~UNCHANGED vars
    <2>1. phase \notin {"check", "done", "failed"} /\ UNCHANGED reportVars
        BY <1>3
        DEF Next, Accept, Reject, ExactPair, ExactDone, SplitMatch, SplitDone,
            TolerantPair, NextTier, TolerantDone, PayoutOverCap, NextPayout,
            PayoutUnexplained, PayoutAmbiguous, PayoutMatched, GroupsDone
    <2>2. typed' = EmptyMap /\ fees' = EmptyMap
        BY <2>1 DEF Reported
    <2>3. DOMAIN typed' = {} /\ DOMAIN fees' = {}
        BY <2>2 DEF EmptyMap
    <2> QED
        BY <2>2, <2>3 DEF Reported
<1> QED
    BY <1>1, <1>2, <1>3

\* Verdicts, capped payouts and fees are about different rows: a fee about a
\* row of a match, and no two about one row, as no row is in two matches.
LEMMA ReportInBound ==
    ASSUME PlaceInv, BookFinite, Bounded, Reported
    PROVE  SubtotalsFit
<1> DEFINE amount == [i \in Ids |-> book[i].amount]
           fee == [i \in Ids |-> book[i].commission]
           delta == [i \in DOMAIN typed |-> Magnitude(typed[i].delta)]
           row == [n \in DOMAIN fees |->
                      CHOOSE i \in matches[n].rows :
                          fees[n] = book[i].commission]
           Payers == {row[n] : n \in DOMAIN fees}
<1>t. /\ TypeInv /\ TypeOK /\ Partition /\ open \subseteq Ids
      /\ capped \subseteq Ids /\ matches \in Seq(Match)
      /\ typed \in [DOMAIN typed -> Discrepancy]
    BY DEF PlaceInv, TypeInv, TypeOK
<1>1. \A i \in Ids : /\ amount[i] \in Nat /\ fee[i] \in Nat
                     /\ Worth[i] \in Nat
                     /\ amount[i] <= Worth[i] /\ fee[i] <= Worth[i]
    <2> SUFFICES ASSUME NEW i \in Ids
                 PROVE  /\ book[i].amount \in Nat /\ book[i].commission \in Nat
        BY DEF Worth
    <2> QED
        BY <1>t DEF TypeInv, SoundBook, Transaction, ValidateMoney
<1>2. /\ IsFiniteSet(Ids) /\ IsFiniteSet(capped) /\ IsFiniteSet(open)
      /\ IsFiniteSet(DOMAIN typed) /\ DOMAIN typed \subseteq open
    <2>1. DOMAIN typed \subseteq open
        BY DEF Reported
    <2> QED
        BY <1>t, <2>1, FS_Subset DEF BookFinite
<1>3. IsFiniteSet(DOMAIN fees) /\ DOMAIN fees \subseteq DOMAIN matches
    <2>1. DOMAIN matches = 1..Len(matches) /\ Len(matches) \in Nat
        BY <1>t
    <2>2. IsFiniteSet(DOMAIN matches) /\ DOMAIN fees \subseteq DOMAIN matches
        BY <2>1, FS_Interval DEF Reported
    <2> QED
        BY <2>2, FS_Subset
<1>4. \A n \in DOMAIN fees : /\ row[n] \in matches[n].rows
                             /\ fees[n] = book[row[n]].commission
    BY DEF Reported
<1>5. \A n \in DOMAIN matches : matches[n].rows \subseteq Ids
    <2>1. \A n \in DOMAIN matches : matches[n] \in Match
        BY <1>t
    <2> QED
        BY <2>1 DEF Match
<1>6. \A m, n \in DOMAIN fees : row[m] = row[n] => m = n
    BY <1>3, <1>4, <1>t DEF Partition
<1>7. Payers \subseteq Matched /\ Payers \subseteq Ids
    BY <1>3, <1>4, <1>5 DEF Matched
<1>8. DeltaTotal(typed) <= Sum(Worth, open) /\ DeltaTotal(typed) \in Int
    <2>1. DeltaTotal(typed) = Sum(delta, DOMAIN typed)
        BY <1>2, DeltaTotalIsSum
    <2>2. \A i \in DOMAIN typed : /\ delta[i] \in Int
                                  /\ delta[i] <= Worth[i] /\ Worth[i] \in Int
        <3> SUFFICES ASSUME NEW i \in DOMAIN typed
                     PROVE  delta[i] \in Int /\ delta[i] <= Worth[i]
                                /\ Worth[i] \in Int
            OBVIOUS
        <3>1. delta[i] \in Int
            BY <1>t DEF Magnitude, Discrepancy
        <3>2. delta[i] <= amount[i]
            BY <1>2, <1>t DEF Reported
        <3>3. i \in Ids
            BY <1>2, <1>t
        <3> HIDE DEF delta, amount
        <3> QED
            BY <1>1, <3>1, <3>2, <3>3
    <2>3. Sum(delta, DOMAIN typed) \in Int
        <3> HIDE DEF delta
        <3> QED
            BY <1>2, <2>2, SumType
    <2>4. Sum(delta, DOMAIN typed) <= Sum(Worth, DOMAIN typed)
        <3> HIDE DEF delta
        <3> QED
            BY <1>2, <2>2, SumLess
    <2>5. \A i \in open : Worth[i] \in Nat
        BY <1>1, <1>t
    <2>6. /\ Sum(Worth, DOMAIN typed) <= Sum(Worth, open)
          /\ Sum(Worth, DOMAIN typed) \in Nat
        BY <1>2, <2>5, SumPart
    <2>7. Sum(Worth, open) \in Nat
        BY <1>2, <2>5, SumNat
    <2> QED
        BY <2>1, <2>3, <2>4, <2>6, <2>7
<1>9. SumAmounts(capped) <= Sum(Worth, capped) /\ SumAmounts(capped) \in Int
    <2>1. SumAmounts(capped) = Sum(amount, capped)
        BY <1>2, <1>t, SumOfRows DEF SumAmounts
    <2>2. \A i \in capped : /\ amount[i] \in Int /\ Worth[i] \in Int
                            /\ amount[i] <= Worth[i]
        BY <1>1, <1>t
    <2> HIDE DEF amount
    <2> QED
        BY <1>2, <2>1, <2>2, SumType, SumLess
<1>10. /\ IsFiniteSet(Payers)
       /\ MapThenSumSet(LAMBDA n : fees[n], DOMAIN fees) <= Sum(Worth, Payers)
       /\ MapThenSumSet(LAMBDA n : fees[n], DOMAIN fees) \in Int
    <2>1. \A n \in DOMAIN fees : fee[row[n]] \in Int /\ fees[n] = fee[row[n]]
        BY <1>1, <1>3, <1>4, <1>5
    <2>2. /\ IsFiniteSet(Payers)
          /\ Sum(fees, DOMAIN fees) = Sum(fee, Payers)
        <3> HIDE DEF fee, row
        <3> QED
            BY <1>3, <1>6, <2>1, SumImage
    <2>3. \A i \in Payers : /\ fee[i] \in Int /\ Worth[i] \in Int
                            /\ fee[i] <= Worth[i]
        BY <1>1, <1>7
    <2>4. Sum(fee, Payers) <= Sum(Worth, Payers) /\ Sum(fee, Payers) \in Int
        <3> HIDE DEF fee, Payers
        <3> QED
            BY <2>2, <2>3, SumType, SumLess
    <2>5. MapThenSumSet(LAMBDA n : fees[n], DOMAIN fees) = Sum(fees, DOMAIN fees)
        BY DEF Sum
    <2> QED
        BY <2>2, <2>4, <2>5
<1>11. Sum(Worth, open) + Sum(Worth, capped) + Sum(Worth, Payers)
           <= Sum(Worth, Ids)
    <2> HIDE DEF Payers
    <2>1. open \cap capped = {} /\ (open \cup capped) \cap Payers = {}
        BY <1>7, <1>t DEF Partition
    <2>2. IsFiniteSet(open \cup capped) /\ IsFiniteSet(Payers)
        BY <1>2, <1>10, FS_Union
    <2>3. open \cup capped \cup Payers \in SUBSET Ids
        BY <1>7, <1>t
    <2>4. \A i \in open \cup capped \cup Payers : Worth[i] \in Int
        BY <1>1, <2>3
    <2>5. Sum(Worth, open \cup capped) = Sum(Worth, open) + Sum(Worth, capped)
        BY <1>2, <2>1, <2>4, SumUnion
    <2>6. Sum(Worth, open \cup capped \cup Payers)
              = Sum(Worth, open \cup capped) + Sum(Worth, Payers)
        BY <2>1, <2>2, <2>4, SumUnion
    <2>7. Sum(Worth, open \cup capped \cup Payers) <= Sum(Worth, Ids)
        BY <1>1, <1>2, <2>3, SumPart
    <2> QED
        BY <2>5, <2>6, <2>7
<1>12. /\ Sum(Worth, open) \in Int /\ Sum(Worth, capped) \in Int
       /\ Sum(Worth, Payers) \in Int /\ Sum(Worth, Ids) \in Int
    <2>1. /\ \A i \in open : Worth[i] \in Int
          /\ \A i \in capped : Worth[i] \in Int
          /\ \A i \in Payers : Worth[i] \in Int
          /\ \A i \in Ids : Worth[i] \in Int
        BY <1>1, <1>7, <1>t
    <2> HIDE DEF Payers
    <2> QED
        BY <1>2, <1>10, <2>1, SumType
<1>13. ReportTotal = DeltaTotal(typed) + SumAmounts(capped)
                         + MapThenSumSet(LAMBDA n : fees[n], DOMAIN fees)
    BY DEF ReportTotal, DeltaTotal
<1>14. MaxMoney \in Nat
    BY LimitsAssumption
<1> HIDE DEF Payers
<1> QED
    BY <1>8, <1>9, <1>10, <1>11, <1>12, <1>13, <1>14
    DEF Bounded, SubtotalsFit

\* The subtotals of the report stay within the bound that validation checked
\* on the argument: the report adds up its deltas and fees without overflow.
THEOREM ReportStaysInBound == Spec => []SubtotalsFit
<1>1. Init => Bounded /\ Reported
    <2> SUFFICES ASSUME Init PROVE Bounded /\ Reported
        OBVIOUS
    <2>1. Ids = {} /\ typed = EmptyMap /\ fees = EmptyMap
        BY DEF Init, Start, EmptyMap, Ids
    <2>2. Sum(Worth, Ids) = 0
        BY <2>1, SumEmpty
    <2>3. Bounded
        BY <2>2, LimitsAssumption DEF Bounded
    <2>4. DOMAIN typed = {} /\ DOMAIN fees = {}
        BY <2>1 DEF EmptyMap
    <2> QED
        BY <2>1, <2>3, <2>4 DEF Reported
<1>2. PlaceInv /\ Bounded /\ Reported /\ [Next]_vars => (Bounded /\ Reported)'
    BY StepBounded, StepReported
<1>3. PlaceInv /\ BookFinite /\ Bounded /\ Reported => SubtotalsFit
    BY ReportInBound
<1> QED
    BY <1>1, <1>2, <1>3, PlacesHold, BookIsFinite, PTL DEF Spec

-----------------------------------------------------------------------------
(* The match a step appends *)

\* A match of the running pass, with what the pass knows of it.
NewMatch ==
    \/ UNCHANGED matches
    \/ \E e \in OpenExpected : \E a \in ExactFits(e) :
           Take("exact", FullScore, {e, a})
    \/ \E e \in OpenExpected : Take("split", FullScore, {e} \cup SplitParts(e))
    \/ /\ phase = "tolerant"
       /\ \E e, o \in open :
              /\ Accepts(edges, e, o)
              /\ Take(PairKind(o), Score(e, o), {e, o})
    \/ \E p : /\ NextPayout(p) /\ OrderSets(p) # {} /\ ~Refused(p)
              /\ Take("group", FullScore, {p} \cup FirstFound(OrderSets(p)))

\* The only way a step appends a match is one of the four passes' own.
LEMMA StepMatches ==
    ASSUME [Next]_vars
    PROVE  NewMatch
<1> USE DEF poolVars, groupVars, reportVars
<1>1. CASE ExactPair
    <2>1. PICK e \in ExactRows : \E a \in ExactFits(e) :
              Take("exact", FullScore, {e, a})
        BY <1>1, Zenon DEF ExactPair
    <2>2. e \in OpenExpected
        BY DEF ExactRows
    <2> QED
        BY <2>1, <2>2, Zenon DEF NewMatch
<1>2. CASE SplitMatch
    <2>1. PICK e \in SplitRows :
              Take("split", FullScore, {e} \cup SplitParts(e))
        BY <1>2, Zenon DEF SplitMatch
    <2>2. e \in OpenExpected
        BY DEF SplitRows
    <2> QED
        BY <2>1, <2>2, Zenon DEF NewMatch
<1>3. CASE TolerantPair
    <2>1. PICK e \in PairRows : \E o \in Pairs(e) :
              Take(PairKind(o), Score(e, o), {e, o})
        BY <1>3, Zenon DEF TolerantPair
    <2>2. PICK o \in Pairs(e) : Take(PairKind(o), Score(e, o), {e, o})
        BY <2>1, Zenon
    <2>3. Accepts(edges, e, o)
        BY DEF Pairs
    <2>4. e \in open /\ o \in open
        BY <2>3 DEF Accepts
    <2>5. phase = "tolerant"
        BY <1>3 DEF TolerantPair
    <2> QED
        BY <2>2, <2>3, <2>4, <2>5, Zenon DEF NewMatch
<1>4. CASE PayoutMatched
    BY <1>4, Zenon DEF PayoutMatched, NewMatch
<1>5. CASE Accept \/ Reject \/ ExactDone \/ SplitDone \/ NextTier
           \/ TolerantDone \/ PayoutOverCap \/ PayoutUnexplained
           \/ PayoutAmbiguous \/ GroupsDone \/ Classify \/ Finish
           \/ UNCHANGED vars
    <2>1. UNCHANGED matches
        BY <1>5
        DEF Accept, Reject, ExactDone, SplitDone, NextTier, TolerantDone,
            PayoutOverCap, PayoutUnexplained, PayoutAmbiguous, GroupsDone,
            Classify, Finish, vars
    <2> QED
        BY <2>1 DEF NewMatch
<1> QED
    BY <1>1, <1>2, <1>3, <1>4, <1>5 DEF Next, Returned

\* A match of a step is an earlier one or the one it appends.
LEMMA OldOrNew ==
    ASSUME TypeInv, NEW kind, NEW score, NEW rows, Take(kind, score, rows),
           NEW kinds, NEW n \in MatchesOf(kinds)'
    PROVE  \/ n \in MatchesOf(kinds) /\ matches'[n] = matches[n]
           \/ kind \in kinds /\ matches'[n].rows = rows
<1> DEFINE k == Len(matches) + 1
<1>1. /\ DOMAIN matches' = DOMAIN matches \cup {k}
      /\ \A m \in DOMAIN matches : matches'[m] = matches[m]
      /\ matches'[k].kind = kind /\ matches'[k].rows = rows
    BY TakeAppends DEF Take
<1> HIDE DEF k
<1>2. n \in DOMAIN matches' /\ matches'[n].kind \in kinds
    BY DEF MatchesOf
<1> QED
    BY <1>1, <1>2 DEF MatchesOf

\* There is no match before validation, nor just after.
LEMMA NoMatchYet ==
    ASSUME TypeInv, [Next]_vars, phase = "validate"
    PROVE  MatchesOf(Kinds)' = {} /\ matches' = <<>>
<1>1. matches = <<>>
    BY DEF TypeInv, Start
<1>2. UNCHANGED matches
    BY DEF Next, Returned, Accept, Reject, ExactPair, ExactDone, SplitMatch,
           SplitDone, TolerantPair, NextTier, TolerantDone, PayoutOverCap,
           PayoutUnexplained, PayoutAmbiguous, PayoutMatched, NextPayout,
           GroupsDone, Classify, Finish, poolVars, groupVars, reportVars, vars
<1> QED
    BY <1>1, <1>2 DEF MatchesOf

-----------------------------------------------------------------------------
(* Referenced money pairs only with agreeing references *)

\* Two rows whose references agree have no conflict.
LEMMA AgreeingRefs ==
    ASSUME NEW e, NEW a, RefsAgree(book[e], book[a])
    PROVE  ~RefConflict(e, a)
BY DEF RefConflict

\* No expected and actual row among these conflict.
Agreeing(rows) ==
    \A e \in rows \cap Expected, a \in rows \cap Actual : ~RefConflict(e, a)

\* What the tolerant pass knows of a pair it takes.
LEMMA PairFacts ==
    ASSUME TypeInv, NEW e, NEW o, Accepts(edges, e, o),
           \A p \in edges : p[1] \in Expected /\ Candidate(p[1], p[2], tier)
    PROVE  /\ e \in Expected \cap open /\ o \in open /\ e # o
           /\ Candidate(e, o, tier)
           /\ o \in Expected => ReversalEdge(e, o)
           /\ o \in Actual => BankEdge(e, o)
<1>1. <<e, o>> \in edges /\ e \in open /\ o \in open
    BY DEF Accepts
<1>2. e \in Expected /\ Candidate(e, o, tier)
    BY <1>1
<1>3. Expected \cap Actual = {}
    BY DEF Actual
<1>4. BankEdge(e, o) \/ ReversalEdge(e, o)
    BY <1>2 DEF Candidate
<1>5. /\ BankEdge(e, o) => o \in Actual
      /\ ReversalEdge(e, o) => o \in Expected
    BY DEF BankEdge, ReversalEdge
<1>6. e # o
    BY <1>2, <1>3, <1>4, <1>5 DEF ReversalEdge
<1> QED
    BY <1>1, <1>2, <1>3, <1>4, <1>5, <1>6

\* While a tier of the tolerant pass runs, the pairs it counted are candidates
\* and none of the rows now open lacks one: the pool shrank since.
Counted ==
    phase = "tolerant" =>
        /\ Edges(tier) \subseteq edges
        /\ \A p \in edges : p[1] \in Expected /\ Candidate(p[1], p[2], tier)

\* Fewer open rows have fewer candidate pairs.
LEMMA EdgesShrink ==
    ASSUME Onward
    PROVE  \A t : Edges(t)' \subseteq Edges(t)
BY BookFrame DEF Onward, Edges, OpenExpected

\* Counted is inductive: a tier counts when it begins, and afterwards rows only
\* leave the pool.
LEMMA StepCounted ==
    ASSUME PlaceInv, Counted, [Next]_vars
    PROVE  Counted'
<1> USE DEF poolVars, groupVars, reportVars
<1>1. CASE SplitDone \/ NextTier \/ GroupsDone
    <2>1. UNCHANGED <<book, open>> /\ edges' = Edges(tier')
        BY <1>1 DEF SplitDone, NextTier, GroupsDone, BeginTier
    <2>2. \A t : Edges(t)' = Edges(t)
        BY <2>1, BookFrame DEF Edges, OpenExpected
    <2>3. \A p \in edges' : p[1] \in Expected' /\ Candidate(p[1], p[2], tier')
        BY <2>1, BookFrame DEF Edges, OpenExpected
    <2>4. \A p \in edges' : Candidate(p[1], p[2], tier)'
        BY <2>1, <2>3, BookFrame DEF Candidate
    <2>5. Edges(tier)' = edges'
        BY <2>1, <2>2 DEF Edges, Candidate
    <2> QED
        BY <2>3, <2>4, <2>5 DEF Counted
<1>2. CASE TolerantPair
    <2>1. UNCHANGED <<book, edges, tier, phase>> /\ phase = "tolerant"
        BY <1>2 DEF TolerantPair
    <2>2. Onward
        BY <2>1, StepOnward
    <2>3. Edges(tier)' \subseteq Edges(tier)
        BY <2>1, <2>2, EdgesShrink DEF Edges, Candidate
    <2>4. \A e, o : Candidate(e, o, tier)' <=> Candidate(e, o, tier)
        BY <2>1, BookFrame DEF Candidate
    <2> QED
        BY <2>1, <2>3, <2>4, BookFrame DEF Counted
<1>3. CASE UNCHANGED vars
    <2>1. UNCHANGED <<book, open, edges, tier, phase>>
        BY <1>3 DEF vars
    <2>2. Edges(tier)' = Edges(tier)
        BY <2>1, BookFrame DEF Edges, OpenExpected, Candidate
    <2>3. \A e, o : Candidate(e, o, tier)' <=> Candidate(e, o, tier)
        BY <2>1, BookFrame DEF Candidate
    <2> QED
        BY <2>1, <2>2, <2>3, BookFrame DEF Counted
<1>4. CASE /\ Next /\ ~UNCHANGED vars /\ ~TolerantPair
           /\ ~(SplitDone \/ NextTier \/ GroupsDone)
    <2>1. phase' # "tolerant"
        BY <1>4
        DEF Next, Returned, Accept, Reject, ExactPair, ExactDone, SplitMatch,
            TolerantDone, PayoutOverCap, PayoutUnexplained, PayoutAmbiguous,
            PayoutMatched, NextPayout, Classify, Finish
    <2> QED
        BY <2>1 DEF Counted
<1> QED
    BY <1>1, <1>2, <1>3, <1>4

\* No step joins rows in conflict, unless it is one of the group pass.
LEMMA StepAgree ==
    ASSUME PlaceInv, Counted, PairsAgree, [Next]_vars
    PROVE  PairsAgree'
<1> DEFINE kinds == Kinds \ {"group"}
<1>t. TypeInv
    BY DEF PlaceInv
<1>1. CASE phase = "validate"
    BY <1>1, <1>t, NoMatchYet DEF PairsAgree, ConflictFree, MatchesOf
<1>2. CASE phase # "validate"
    <2>1. Onward
        BY <1>2, StepOnward
    <2>2. /\ Expected' = Expected /\ Actual' = Actual
          /\ \A e, a : RefConflict(e, a)' <=> RefConflict(e, a)
        BY <2>1, BookFrame DEF Onward
    <2>3. \A n \in MatchesOf(kinds) : Agreeing(matches[n].rows)
        BY DEF PairsAgree, ConflictFree, Agreeing
    <2>4. SUFFICES ASSUME NEW n \in MatchesOf(kinds)'
                   PROVE  Agreeing(matches'[n].rows)
        <3>1. \A n \in MatchesOf(kinds)' :
                  \A e \in matches'[n].rows \cap Expected',
                     a \in matches'[n].rows \cap Actual' : ~RefConflict(e, a)'
            BY <2>2, <2>4 DEF Agreeing
        <3> QED
            BY <3>1 DEF PairsAgree, ConflictFree
    <2> HIDE DEF kinds
    <2>5. CASE UNCHANGED matches
        BY <2>3, <2>5 DEF MatchesOf
    <2>6. ASSUME NEW kind, NEW score, NEW rows, Take(kind, score, rows),
                 kind \in kinds => Agreeing(rows)
          PROVE  Agreeing(matches'[n].rows)
        BY <1>t, <2>3, <2>6, OldOrNew
    <2>7. ASSUME NEW e \in OpenExpected, NEW a \in ExactFits(e),
                 Take("exact", FullScore, {e, a})
          PROVE  Agreeing(matches'[n].rows)
        <3>1. a \in Actual /\ RefsAgree(book[e], book[a]) /\ e \in Expected
            BY DEF ExactFits, OpenActual, OpenExpected
        <3>2. Agreeing({e, a})
            BY <3>1, AgreeingRefs DEF Agreeing, Actual
        <3> QED
            BY <2>6, <2>7, <3>2
    <2>8. ASSUME NEW e \in OpenExpected,
                 Take("split", FullScore, {e} \cup SplitParts(e))
          PROVE  Agreeing(matches'[n].rows)
        <3>1. /\ e \in Expected
              /\ \A a \in SplitParts(e) : a \in Actual /\ RefsAgree(book[e], book[a])
            BY DEF SplitParts, OpenActual, OpenExpected
        <3>2. Agreeing({e} \cup SplitParts(e))
            BY <3>1, AgreeingRefs DEF Agreeing, Actual
        <3> QED
            BY <2>6, <2>8, <3>2
    <2>9. ASSUME NEW e \in open, NEW o \in open, Accepts(edges, e, o),
                 phase = "tolerant", Take(PairKind(o), Score(e, o), {e, o})
          PROVE  Agreeing(matches'[n].rows)
        <3>1. /\ e \in Expected
              /\ o \in Actual => BankEdge(e, o)
            BY <1>t, <2>9, PairFacts DEF Counted
        <3>2. Agreeing({e, o})
            BY <3>1 DEF Agreeing, BankEdge, Actual
        <3> QED
            BY <2>6, <2>9, <3>2
    <2>10. "group" \notin kinds
        BY DEF kinds
    <2>11. ASSUME NEW p, Take("group", FullScore,
                              {p} \cup FirstFound(OrderSets(p)))
           PROVE  Agreeing(matches'[n].rows)
        BY <2>6, <2>10, <2>11
    <2> QED
        BY <2>5, <2>7, <2>8, <2>9, <2>11, StepMatches DEF NewMatch
<1> QED
    BY <1>1, <1>2

\* At every iteration of a tolerant tier the counted pairs still cover every
\* candidate pair among the open rows.
LEMMA CountedHolds == Spec => []Counted
<1>1. Init => Counted
    BY DEF Init, Start, Counted
<1> QED
    BY <1>1, StepCounted, PlacesHold, PTL DEF Spec

\* ADR 0006, for every match but those of the group pass: it never joins rows
\* whose references name different records of the book.
THEOREM PairsNeverConflict == Spec => []PairsAgree
<1>1. Init => PairsAgree
    BY DEF Init, Start, PairsAgree, ConflictFree, MatchesOf
<1> QED
    BY <1>1, StepAgree, CountedHolds, PlacesHold, PTL DEF Spec

-----------------------------------------------------------------------------
(* No rival is left behind *)

\* No row of the pool could stand in for either row of the pair.
Unrivalled(rows, pool) ==
    \A e \in rows \cap Expected, a \in rows \cap Actual :
        RefsAgree(book[e], book[a]) \/
            \A x \in pool \cap SameAmount(e) :
                /\ (x \in Actual /\ book[x].source = "bank"
                      /\ DayDiff(book[x], book[e]) <= AmountHorizonDays)
                   => RefConflict(e, x)
                /\ (x \in Expected
                      /\ DayDiff(book[x], book[a]) <= AmountHorizonDays)
                   => RefConflict(x, a)

\* The pair the tolerant pass takes has agreeing references or no rival among
\* the rows it leaves in the pool.
LEMMA TakenUnrivalled ==
    ASSUME TypeInv, Counted, phase = "tolerant",
           NEW e, NEW o, Accepts(edges, e, o), o \in Actual
    PROVE  Unrivalled({e, o}, open \ {e, o})
<1>1. e \in Expected /\ Expected \cap Actual = {}
    BY PairFacts DEF Counted, Actual
<1>2. Tier(e, o) = TierRef => RefsAgree(book[e], book[o])
    BY DEF Tier, TierRef, TierAmount, TierTolerance
<1>3. CASE RefsAgree(book[e], book[o])
    BY <1>1, <1>3 DEF Unrivalled
<1>4. CASE RivalFree(e, o)
    <2>1. ASSUME NEW x \in (open \ {e, o}) \cap SameAmount(e)
          PROVE  /\ (x \in Actual /\ book[x].source = "bank"
                       /\ DayDiff(book[x], book[e]) <= AmountHorizonDays)
                    => RefConflict(e, x)
                 /\ (x \in Expected
                       /\ DayDiff(book[x], book[o]) <= AmountHorizonDays)
                    => RefConflict(x, o)
        BY <1>4, <2>1
        DEF RivalFree, RivalOf, SameAmount, OpenActual, OpenExpected
    <2> QED
        BY <1>1, <2>1 DEF Unrivalled
<1> QED
    BY <1>2, <1>3, <1>4 DEF Accepts

\* No step brings a rival to a matched pair: a new pair has none, and an old one
\* gets none because no row returns to the pool.
LEMMA StepRivals ==
    ASSUME PlaceInv, Counted, NoRivalLeft, [Next]_vars
    PROVE  NoRivalLeft'
<1> DEFINE kinds == {"tolerant"}
<1>t. TypeInv
    BY DEF PlaceInv
<1>1. CASE phase = "validate"
    BY <1>1, <1>t, NoMatchYet DEF NoRivalLeft, MatchesOf
<1>2. CASE phase # "validate"
    <2>1. Onward
        BY <1>2, StepOnward
    <2>2. /\ Expected' = Expected /\ Actual' = Actual /\ UNCHANGED book
          /\ \A e, a : RefConflict(e, a)' <=> RefConflict(e, a)
          /\ \A i : SameAmount(i)' = SameAmount(i)
        BY <2>1, BookFrame DEF Onward, SameAmount
    <2>3. \A n \in MatchesOf(kinds) : Unrivalled(matches[n].rows, open)
        BY DEF NoRivalLeft, Unrivalled
    <2>4. \A rows : Unrivalled(rows, open) => Unrivalled(rows, open')
        BY <2>1 DEF Onward, Unrivalled
    <2>5. SUFFICES ASSUME NEW n \in MatchesOf(kinds)'
                   PROVE  Unrivalled(matches'[n].rows, open')
        BY <2>2 DEF NoRivalLeft, Unrivalled
    <2> HIDE DEF kinds
    <2>6. CASE UNCHANGED matches
        BY <2>3, <2>4, <2>6 DEF MatchesOf
    <2>7. ASSUME NEW kind, NEW score, NEW rows, Take(kind, score, rows),
                 kind \in kinds => Unrivalled(rows, open')
          PROVE  Unrivalled(matches'[n].rows, open')
        BY <1>t, <2>3, <2>4, <2>7, OldOrNew
    <2>8. ASSUME NEW e \in open, NEW o \in open, Accepts(edges, e, o),
                 phase = "tolerant", Take(PairKind(o), Score(e, o), {e, o})
          PROVE  Unrivalled(matches'[n].rows, open')
        <3>1. open' = open \ {e, o}
            BY <2>8 DEF Take
        <3>2. PairKind(o) \in kinds => o \in Actual
            BY <1>t DEF PairKind, kinds, Actual, TypeInv, TypeOK
        <3>3. PairKind(o) \in kinds => Unrivalled({e, o}, open')
            BY <1>t, <2>8, <3>1, <3>2, TakenUnrivalled
        <3> QED
            BY <2>7, <2>8, <3>3
    <2>9. ASSUME NEW kind \in {"exact", "split", "group"}, NEW rows,
                 Take(kind, FullScore, rows)
          PROVE  Unrivalled(matches'[n].rows, open')
        <3>1. kind \notin kinds
            BY DEF kinds
        <3> QED
            BY <2>7, <2>9, <3>1
    <2> QED
        BY <2>6, <2>8, <2>9, StepMatches DEF NewMatch
<1> QED
    BY <1>1, <1>2

\* An unreferenced pair matched on its amount had no rival, and has none at
\* any later step: the rival check reads the pool in the middle of the loop,
\* and the pool only shrinks.
THEOREM NoRivalEver == Spec => []NoRivalLeft
<1>1. Init => NoRivalLeft
    BY DEF Init, Start, NoRivalLeft, MatchesOf
<1> QED
    BY <1>1, StepRivals, CountedHolds, PlacesHold, PTL DEF Spec

-----------------------------------------------------------------------------
(* The tolerant pass does not choose *)

\* Neither row of a pair has another candidate of the same evidence in the
\* pool.
Unchosen(rows, pool) ==
    \A e \in rows \cap Expected, o \in rows :
        Candidate(e, o, TierTolerance) =>
            \A x \in pool, i \in {e, o} :
                /\ i \in Expected => ~Candidate(i, x, Tier(e, o))
                /\ x \in Expected => ~Candidate(x, i, Tier(e, o))

\* A row on one of the counted pairs only is on no other one.
LEMMA OnePair ==
    ASSUME TypeInv, BookFinite, NEW i, Degree(edges, i) = 1,
           NEW p \in edges, NEW q \in edges,
           i \in {p[1], p[2]}, i \in {q[1], q[2]}
    PROVE  p = q
<1> DEFINE on == {r \in edges : i \in {r[1], r[2]}}
<1>1. IsFiniteSet(Ids \X Ids)
    BY FS_Product DEF BookFinite
<1>2. IsFiniteSet(on)
    BY <1>1, FS_Subset DEF TypeInv, TypeOK
<1>3. Cardinality(on) = 1
    BY DEF Degree
<1>4. \E r : on = {r}
    BY <1>2, <1>3, FS_Singleton
<1> QED
    BY <1>4

\* Stronger evidence suffices wherever weaker evidence does.
LEMMA WeakerTier ==
    ASSUME NEW e, NEW o, NEW t \in 0..2, NEW u \in 0..2, t <= u,
           Candidate(e, o, t)
    PROVE  Candidate(e, o, u)
BY DEF Candidate, Tier, TierRef, TierAmount, TierTolerance

\* A pair the tolerant pass takes had no other candidate partner, also now: the
\* counted degree was one, and the pairs open now are among those counted.
LEMMA TakenUnchosen ==
    ASSUME TypeInv, BookFinite, Counted, phase = "tolerant",
           NEW e, NEW o, Accepts(edges, e, o)
    PROVE  Unchosen({e, o}, open \ {e, o})
<1>1. /\ e \in Expected \cap open /\ o \in open /\ e # o
      /\ Candidate(e, o, tier)
      /\ o \in Expected => ReversalEdge(e, o)
      /\ o \in Actual => BankEdge(e, o)
    BY PairFacts DEF Counted
<1>2. <<e, o>> \in edges /\ Degree(edges, e) = 1 /\ Degree(edges, o) = 1
    BY DEF Accepts
<1>3. /\ Tier(e, o) \in 0..2 /\ tier \in 0..2 /\ Tier(e, o) <= tier
    BY <1>1 DEF Candidate, Tier, TierRef, TierAmount, TierTolerance, TypeInv,
                TypeOK
<1>4. \A y, x \in open :
          y \in Expected /\ Candidate(y, x, Tier(e, o)) => <<y, x>> \in edges
    <2>1. \A y, x \in open :
              y \in Expected /\ Candidate(y, x, tier) => <<y, x>> \in Edges(tier)
        BY DEF Edges, OpenExpected
    <2> QED
        BY <1>3, <2>1, WeakerTier DEF Counted
<1>5. ASSUME NEW x \in open \ {e, o}, NEW i \in {e, o}
      PROVE  /\ i \in Expected => ~Candidate(i, x, Tier(e, o))
             /\ x \in Expected => ~Candidate(x, i, Tier(e, o))
    <2>1. <<i, x>> \notin edges /\ <<x, i>> \notin edges
        <3>1. i \in {<<e, o>>[1], <<e, o>>[2]} /\ Degree(edges, i) = 1
            BY <1>2, <1>5
        <3>2. ASSUME NEW p \in edges, i \in {p[1], p[2]}
              PROVE  p = <<e, o>>
            BY <1>2, <3>1, <3>2, OnePair
        <3> QED
            BY <1>1, <1>5, <3>2
    <2> QED
        BY <1>1, <1>4, <1>5, <2>1
<1>6. ASSUME NEW f \in {e, o} \cap Expected, NEW g \in {e, o},
             Candidate(f, g, TierTolerance)
      PROVE  f = e /\ g = o
    <2>1. o \in Expected => /\ ~ReversalEdge(o, o) /\ ~BankEdge(o, o)
                            /\ ~ReversalEdge(o, e) /\ ~BankEdge(o, e)
        BY <1>1 DEF ReversalEdge, BankEdge, Actual
    <2>2. ~ReversalEdge(e, e) /\ ~BankEdge(e, e)
        BY <1>1 DEF ReversalEdge, BankEdge, Actual
    <2> QED
        BY <1>6, <2>1, <2>2 DEF Candidate
<1> QED
    BY <1>5, <1>6 DEF Unchosen

\* No step gives a matched row a second partner of equal or stronger evidence.
LEMMA StepOnlyFit ==
    ASSUME PlaceInv, BookFinite, Counted, OnlyFit, [Next]_vars
    PROVE  OnlyFit'
<1> DEFINE kinds == {"tolerant", "reversal"}
<1>t. TypeInv
    BY DEF PlaceInv
<1>1. CASE phase = "validate"
    BY <1>1, <1>t, NoMatchYet DEF OnlyFit, MatchesOf
<1>2. CASE phase # "validate"
    <2>1. Onward
        BY <1>2, StepOnward
    <2>2. /\ Expected' = Expected
          /\ \A e, o : Tier(e, o)' = Tier(e, o)
          /\ \A e, o, t : Candidate(e, o, t)' <=> Candidate(e, o, t)
        BY <2>1, BookFrame DEF Onward
    <2>3. \A n \in MatchesOf(kinds) : Unchosen(matches[n].rows, open)
        BY DEF OnlyFit, Unchosen
    <2>4. \A rows : Unchosen(rows, open) => Unchosen(rows, open')
        BY <2>1 DEF Onward, Unchosen
    <2>5. SUFFICES ASSUME NEW n \in MatchesOf(kinds)'
                   PROVE  Unchosen(matches'[n].rows, open')
        <3>1. \A e, o : Candidate(e, o, TierTolerance)'
                            <=> Candidate(e, o, TierTolerance)
            BY <2>2
        <3>2. \A e, o, i, x : Candidate(i, x, Tier(e, o))'
                                  <=> Candidate(i, x, Tier(e, o))
            BY <2>2 DEF Candidate
        <3> QED
            BY <2>2, <2>5, <3>1, <3>2 DEF OnlyFit, Unchosen
    <2> HIDE DEF kinds
    <2>6. CASE UNCHANGED matches
        BY <2>3, <2>4, <2>6 DEF MatchesOf
    <2>7. ASSUME NEW kind, NEW score, NEW rows, Take(kind, score, rows),
                 kind \in kinds => Unchosen(rows, open')
          PROVE  Unchosen(matches'[n].rows, open')
        BY <1>t, <2>3, <2>4, <2>7, OldOrNew
    <2>8. ASSUME NEW e \in open, NEW o \in open, Accepts(edges, e, o),
                 phase = "tolerant", Take(PairKind(o), Score(e, o), {e, o})
          PROVE  Unchosen(matches'[n].rows, open')
        <3>1. open' = open \ {e, o}
            BY <2>8 DEF Take
        <3>2. Unchosen({e, o}, open')
            BY <1>t, <2>8, <3>1, TakenUnchosen
        <3> QED
            BY <2>7, <2>8, <3>2
    <2>9. ASSUME NEW kind \in {"exact", "split", "group"}, NEW rows,
                 Take(kind, FullScore, rows)
          PROVE  Unchosen(matches'[n].rows, open')
        <3>1. kind \notin kinds
            BY DEF kinds
        <3> QED
            BY <2>7, <2>9, <3>1
    <2> QED
        BY <2>6, <2>8, <2>9, StepMatches DEF NewMatch
<1> QED
    BY <1>1, <1>2

\* The tolerant pass does not choose: neither row of a pair it matched has, at
\* any later step, an open partner of equal or stronger evidence.  The degrees
\* it looks at were counted when the tier began, over more rows.
THEOREM PairsAreTheOnlyFit == Spec => []OnlyFit
<1>1. Init => OnlyFit
    BY DEF Init, Start, OnlyFit, MatchesOf
<1> QED
    BY <1>1, StepOnlyFit, CountedHolds, BookIsFinite, PlacesHold, PTL DEF Spec

-----------------------------------------------------------------------------
(* Exact fits first *)

\* Fewer open rows have fewer exact fits.
LEMMA ExactShrinks ==
    ASSUME Onward, ExactFirst, phase \notin {"validate", "exact"}
    PROVE  ExactFirst'
BY BookFrame DEF Onward, ExactFirst, OpenExpected, OpenActual

\* The exact pass ends only when no exact fit is open, and none appears later.
LEMMA StepExactFirst ==
    ASSUME PlaceInv, ExactFirst, [Next]_vars
    PROVE  ExactFirst'
<1> USE DEF poolVars, groupVars, reportVars
<1>1. CASE phase \notin {"validate", "exact"}
    BY <1>1, StepOnward, ExactShrinks
<1>2. CASE ExactDone
    <2>1. /\ \A e \in OpenExpected : ExactFits(e) = {}
          /\ UNCHANGED <<book, open>>
        BY <1>2 DEF ExactDone, ExactRows
    <2>2. \A i, j \in Ids : DayDiff(book[i], book[j]) = DayDiff(book[j], book[i])
        <3>1. \A i \in Ids : book[i].day \in Int
            BY DEF PlaceInv, TypeInv, SoundBook, Transaction
        <3> QED
            BY <3>1 DEF DayDiff, AbsDiff
    <2>3. \A e \in OpenExpected, a \in OpenActual :
              ~ /\ RefsAgree(book[e], book[a])
                /\ book[e].amount = book[a].amount
                /\ book[e].dir = book[a].dir
                /\ DayDiff(book[e], book[a]) <= MatchWindowDays
        BY <2>1, <2>2
        DEF ExactFits, OpenExpected, OpenActual, Expected, Actual
    <2>4. OpenExpected' = OpenExpected /\ OpenActual' = OpenActual
        BY <2>1, BookFrame DEF OpenExpected, OpenActual
    <2> QED
        BY <2>1, <2>3, <2>4 DEF ExactFirst
<1>3. CASE Reject
    BY <1>3 DEF Reject, PlaceInv, TypeInv, Start, ExactFirst, OpenExpected
<1>4. CASE /\ phase \in {"validate", "exact"}
           /\ ~ExactDone /\ ~Reject
    <2>1. phase' \in {"validate", "exact"}
        BY <1>4
        DEF Next, Returned, Accept, ExactPair, SplitMatch, SplitDone,
            TolerantPair, NextTier, TolerantDone, PayoutOverCap, NextPayout,
            PayoutUnexplained, PayoutAmbiguous, PayoutMatched, GroupsDone,
            Classify, Finish, vars
    <2> QED
        BY <2>1 DEF ExactFirst
<1> QED
    BY <1>1, <1>2, <1>3, <1>4

\* The exact pass leaves nothing for weaker evidence: once it is over no open
\* line is an exact fit of an open expected row, up to the end of the run.
THEOREM ExactFitsFirst == Spec => []ExactFirst
<1>1. Init => ExactFirst
    BY DEF Init, Start, ExactFirst
<1> QED
    BY <1>1, StepExactFirst, PlacesHold, PTL DEF Spec

-----------------------------------------------------------------------------
(* A payout is matched to the only orders that could be meant *)

\* Orders(p) if the pool were this one.
OrdersIn(p, pool) ==
    {e \in pool \cap Expected :
        /\ book[e].dir = "credit" /\ book[e].amount > 0
        /\ book[e].cp = book[p].cp
        /\ book[e].day <= book[p].day
        /\ book[e].day >= book[p].day - GroupWindowDays}

\* These orders add up to the gross of payout p, and no other set of them and
\* the orders in the pool does.
OnlyOne(own, p, pool) ==
    /\ SumAmounts(own) = book[p].gross
    /\ \A S \in SUBSET (own \cup OrdersIn(p, pool)) :
           SumAmounts(S) = book[p].gross => S = own

OnlySet(rows, pool) ==
    \A p \in rows \cap Actual : OnlyOne(rows \cap Expected, p, pool)

\* OnlyOrderSet, said of each group match separately and of any pool.
LEMMA OnlySetMeaning ==
    OnlyOrderSet <=> \A n \in MatchesOf({"group"}) : OnlySet(matches[n].rows, open)
<1> DEFINE sets(own, p) == {S \in SUBSET (own \cup Orders(p)) :
                                SumAmounts(S) = book[p].gross}
<1>1. \A p : OrdersIn(p, open) = Orders(p)
    BY DEF OrdersIn, Orders, OpenExpected
<1>2. ASSUME NEW own, NEW p
      PROVE  sets(own, p) = {own} <=> OnlyOne(own, p, open)
    <2>1. own \in SUBSET (own \cup Orders(p))
        OBVIOUS
    <2>2. sets(own, p) = {own} <=>
              own \in sets(own, p) /\ \A S \in sets(own, p) : S = own
        <3> HIDE DEF sets
        <3> QED
            OBVIOUS
    <2> QED
        BY <1>1, <2>1, <2>2 DEF OnlyOne
<1> HIDE DEF sets
<1>3. \A rows : OnlySet(rows, open) <=>
          \A p \in rows \cap Actual :
              sets(rows \cap Expected, p) = {rows \cap Expected}
    BY <1>2 DEF OnlySet
<1> QED
    BY <1>3 DEF OnlyOrderSet, sets

\* A set of sets with one member: that one is the first found.
LEMMA FirstOfOne ==
    ASSUME NEW S
    PROVE  FirstFound({S}) = S
<1>1. {T \in {S} \ {S} : FoundBefore(T, S)} = {}
    OBVIOUS
<1>2. {U \in {S} : Cardinality({T \in {S} \ {U} : FoundBefore(T, U)}) < 1} = {S}
    BY <1>1, FS_EmptySet
<1> QED
    BY <1>2 DEF FirstFound, FoundFirst

\* If the group pass does not refuse a payout, one set of orders fits.
LEMMA OneSetFits ==
    ASSUME BookFinite, NEW p, OrderSets(p) # {}, ~Refused(p)
    PROVE  OrderSets(p) = {FirstFound(OrderSets(p))}
<1>1. Orders(p) \subseteq Ids
    BY DEF Orders, OpenExpected, Expected
<1>2. IsFiniteSet(SUBSET Orders(p))
    BY <1>1, FS_Subset, FS_SUBSET DEF BookFinite
<1>3. IsFiniteSet(OrderSets(p))
    BY <1>2, FS_Subset DEF OrderSets
<1>4. /\ Cardinality(OrderSets(p)) \in Nat
      /\ Cardinality(OrderSets(p)) # 0
      /\ ~(Cardinality(OrderSets(p)) > 1)
    BY <1>3, FS_CardinalityType, FS_EmptySet DEF Refused
<1>5. Cardinality(OrderSets(p)) = 1
    BY <1>4
<1>6. PICK S : OrderSets(p) = {S}
    BY <1>3, <1>5, FS_Singleton
<1> QED
    BY <1>6, FirstOfOne

\* The orders of a payout matched now are the only set that fits, among them and
\* the orders still open.
LEMMA TakenOnlySet ==
    ASSUME PayoutsOpen, BookFinite, NEW p, NextPayout(p), OrderSets(p) # {},
           ~Refused(p)
    PROVE  LET rows == {p} \cup FirstFound(OrderSets(p))
           IN  OnlySet(rows, open \ rows)
<1> DEFINE own == FirstFound(OrderSets(p))
           rows == {p} \cup own
<1>1. p \in Actual /\ own \subseteq Expected
    BY GroupRows, FoundAreOrders DEF OpenActual, OpenExpected, FirstFound
<1>2. OrderSets(p) = {own}
    BY OneSetFits
<1>3. own \subseteq Orders(p) /\ SumAmounts(own) = book[p].gross
    BY <1>2 DEF OrderSets
<1> HIDE DEF own
<1>4. rows \cap Expected = own /\ rows \cap Actual = {p}
    BY <1>1 DEF Actual
<1>5. own \cup OrdersIn(p, open \ rows) \subseteq Orders(p)
    BY <1>3 DEF OrdersIn, Orders, OpenExpected
<1>6. \A S \in SUBSET (own \cup OrdersIn(p, open \ rows)) :
          SumAmounts(S) = book[p].gross => S = own
    BY <1>2, <1>5 DEF OrderSets
<1>7. OnlySet(rows, open \ rows)
    BY <1>3, <1>4, <1>6 DEF OnlySet, OnlyOne
<1> QED
    BY <1>7 DEF own

\* No step gives a matched payout a second set of orders.
LEMMA StepOnlySet ==
    ASSUME PlaceInv, BookFinite, OnlyOrderSet, [Next]_vars
    PROVE  OnlyOrderSet'
<1> DEFINE kinds == {"group"}
<1>t. TypeInv /\ PayoutsOpen
    BY DEF PlaceInv
<1>1. CASE phase = "validate"
    BY <1>1, <1>t, NoMatchYet DEF OnlyOrderSet, MatchesOf
<1>2. CASE phase # "validate"
    <2>1. Onward
        BY <1>2, StepOnward
    <2>2. /\ Expected' = Expected /\ Actual' = Actual /\ UNCHANGED book
          /\ \A S : SumAmounts(S)' = SumAmounts(S)
          /\ \A p, pool : OrdersIn(p, pool)' = OrdersIn(p, pool)
        BY <2>1, BookFrame DEF Onward, OrdersIn
    <2>3. \A n \in MatchesOf(kinds) : OnlySet(matches[n].rows, open)
        BY OnlySetMeaning
    <2>4. \A rows : OnlySet(rows, open) => OnlySet(rows, open')
        <3>1. \A p : OrdersIn(p, open') \subseteq OrdersIn(p, open)
            BY <2>1 DEF Onward, OrdersIn
        <3> QED
            BY <3>1 DEF OnlySet, OnlyOne
    <2>5. SUFFICES ASSUME NEW n \in MatchesOf(kinds)'
                   PROVE  OnlySet(matches'[n].rows, open')
        <3>1. \A rows, pool : OnlySet(rows, pool)' <=> OnlySet(rows, pool)
            BY <2>2 DEF OnlySet, OnlyOne
        <3>2. (\A n \in MatchesOf(kinds) : OnlySet(matches[n].rows, open))'
            BY <2>2, <2>5 DEF OnlySet, OnlyOne, OrdersIn
        <3>3. (OnlyOrderSet
                 <=> \A n \in MatchesOf(kinds) : OnlySet(matches[n].rows, open))'
            BY OnlySetMeaning, PTL
        <3> QED
            BY <3>2, <3>3
    <2> HIDE DEF kinds
    <2>6. CASE UNCHANGED matches
        BY <2>3, <2>4, <2>6 DEF MatchesOf
    <2>7. ASSUME NEW kind, NEW score, NEW rows, Take(kind, score, rows),
                 kind \in kinds => OnlySet(rows, open')
          PROVE  OnlySet(matches'[n].rows, open')
        BY <1>t, <2>3, <2>4, <2>7, OldOrNew
    <2>8. ASSUME NEW p, NextPayout(p), OrderSets(p) # {}, ~Refused(p),
                 Take("group", FullScore, {p} \cup FirstFound(OrderSets(p)))
          PROVE  OnlySet(matches'[n].rows, open')
        <3>1. open' = open \ ({p} \cup FirstFound(OrderSets(p)))
            BY <2>8 DEF Take
        <3>2. OnlySet({p} \cup FirstFound(OrderSets(p)), open')
            BY <1>t, <2>8, <3>1, TakenOnlySet
        <3> QED
            BY <2>7, <2>8, <3>2
    <2>9. ASSUME NEW kind \in {"exact", "split", "tolerant", "reversal"},
                 NEW score, NEW rows, Take(kind, score, rows)
          PROVE  OnlySet(matches'[n].rows, open')
        <3>1. kind \notin kinds
            BY DEF kinds
        <3> QED
            BY <2>7, <2>9, <3>1
    <2>10. \A o : PairKind(o) \in {"exact", "split", "tolerant", "reversal"}
        BY DEF PairKind
    <2> QED
        BY <2>6, <2>8, <2>9, <2>10, StepMatches DEF NewMatch
<1> QED
    BY <1>1, <1>2

\* A payout is matched to the only orders that could be meant, and that stays
\* so: no other set of its orders and those left open adds up to the gross.
THEOREM PayoutsHaveOneSet == Spec => []OnlyOrderSet
<1>1. Init => OnlyOrderSet
    BY DEF Init, Start, OnlyOrderSet, MatchesOf
<1> QED
    BY <1>1, StepOnlySet, BookIsFinite, PlacesHold, PTL DEF Spec

-----------------------------------------------------------------------------
(* What is left for review *)

\* Which of the two tolerant passes it is.
PassOrder ==
    /\ phase = "tolerant" => pass \in {1, 2}
    /\ phase \in {"classify", "check", "done"} => pass = 2

\* Every open payout the group pass has visited either has no fitting set of
\* open orders, or is contested.
Searched ==
    (phase = "group" \/ pass = 2) =>
        \A p \in Payouts \ (IF phase = "group" THEN walk ELSE {}) :
            OrderSets(p) = {} \/ p \in unsure

\* PassOrder is inductive.
LEMMA StepOrder ==
    ASSUME PassOrder, [Next]_vars
    PROVE  PassOrder'
BY DEF PassOrder, Next, Returned, Accept, Reject, ExactPair, ExactDone,
       SplitMatch, SplitDone, TolerantPair, NextTier, TolerantDone,
       PayoutOverCap, PayoutUnexplained, PayoutAmbiguous, PayoutMatched,
       NextPayout, GroupsDone, Classify, Finish, vars, poolVars, groupVars,
       reportVars, BeginTier

\* Fewer open rows have fewer payouts, and each has fewer fitting sets.
LEMMA PayoutsShrink ==
    ASSUME Onward
    PROVE  /\ Payouts' \subseteq Payouts
           /\ \A p : OrderSets(p)' \subseteq OrderSets(p)
<1>1. Payouts' \subseteq Payouts
    BY BookFrame DEF Onward, Payouts, OpenActual
<1>2. \A p : Orders(p)' \subseteq Orders(p)
    BY BookFrame DEF Onward, Orders, OpenExpected
<1>3. \A p : OrderSets(p)' \subseteq OrderSets(p)
    BY <1>2, BookFrame DEF Onward, OrderSets
<1> QED
    BY <1>1, <1>3

\* One payout is visited: if it stays open it has no fitting set or is
\* contested now.
LEMMA VisitSearched ==
    ASSUME Searched, Onward, NEW p, NextPayout(p), unsure \subseteq unsure',
           phase' = phase,
           p \in open' => OrderSets(p) = {} \/ p \in unsure'
    PROVE  Searched'
<1>1. /\ phase = "group" /\ phase' = "group" /\ walk' = walk \ {p}
      /\ \A q \in Payouts \ walk : OrderSets(q) = {} \/ q \in unsure
    BY DEF NextPayout, Searched
<1>2. /\ Payouts' \subseteq Payouts
      /\ \A q : OrderSets(q)' \subseteq OrderSets(q)
    BY PayoutsShrink
<1>3. \A q \in Payouts' \ walk' : q = p \/ q \in Payouts \ walk
    BY <1>1, <1>2
<1>4. Payouts' \subseteq open'
    BY DEF Payouts, OpenActual
<1>5. \A q \in Payouts' \ walk' : OrderSets(q)' = {} \/ q \in unsure'
    BY <1>1, <1>2, <1>3, <1>4
<1> QED
    BY <1>1, <1>5 DEF Searched

\* Searched is inductive: a visited payout gets no new fitting set, since orders
\* only leave the pool.
LEMMA StepSearched ==
    ASSUME PlaceInv, PassOrder, Searched, [Next]_vars
    PROVE  Searched'
<1> USE DEF poolVars, groupVars, reportVars
<1>o. CASE phase = "validate"
    <2>1. pass' # 2 /\ phase' # "group"
        BY <1>o DEF PlaceInv, TypeInv, Start, Next, Returned, Accept, Reject,
                    ExactPair, ExactDone, SplitMatch, SplitDone, TolerantPair,
                    NextTier, TolerantDone, PayoutOverCap, PayoutUnexplained,
                    PayoutAmbiguous, PayoutMatched, NextPayout, GroupsDone,
                    Classify, Finish, vars
    <2> QED
        BY <2>1 DEF Searched
<1>p. CASE phase # "validate"
    <2>o. Onward
        BY <1>p, StepOnward
    <2>1. CASE PayoutOverCap
        <3>1. PICK p : NextPayout(p) /\ open' = open \ {p}
            BY <2>1 DEF PayoutOverCap
        <3>2. phase' = phase /\ unsure' = unsure
            BY <2>1 DEF PayoutOverCap
        <3> QED
            BY <2>o, <3>1, <3>2, VisitSearched
    <2>2. CASE PayoutUnexplained
        <3>1. PICK p : NextPayout(p) /\ OrderSets(p) = {}
            BY <2>2 DEF PayoutUnexplained
        <3>2. phase' = phase /\ unsure' = unsure
            BY <2>2 DEF PayoutUnexplained
        <3> QED
            BY <2>o, <3>1, <3>2, VisitSearched
    <2>3. CASE PayoutAmbiguous
        <3>1. PICK p : /\ NextPayout(p)
                       /\ unsure' = unsure \cup {p} \cup FirstTwo(OrderSets(p))
            BY <2>3 DEF PayoutAmbiguous
        <3>2. phase' = phase
            BY <2>3 DEF PayoutAmbiguous
        <3> QED
            BY <2>o, <3>1, <3>2, VisitSearched
    <2>4. CASE PayoutMatched
        <3>1. PICK p : /\ NextPayout(p)
                       /\ Take("group", FullScore,
                               {p} \cup FirstFound(OrderSets(p)))
            BY <2>4, Zenon DEF PayoutMatched
        <3>2. phase' = phase /\ unsure' = unsure
            BY <2>4 DEF PayoutMatched
        <3>3. p \notin open'
            BY <3>1 DEF Take
        <3> QED
            BY <2>o, <3>1, <3>2, <3>3, VisitSearched
    <2>5. CASE TolerantDone /\ pass = 1
        <3>1. phase' = "group" /\ walk' = Payouts /\ UNCHANGED <<book, open>>
            BY <2>5 DEF TolerantDone
        <3>2. Payouts' \subseteq Payouts
            BY <2>o, PayoutsShrink
        <3> QED
            BY <3>1, <3>2 DEF Searched
    <2>6. CASE /\ Next \/ UNCHANGED vars
               /\ ~PayoutOverCap /\ ~PayoutUnexplained /\ ~PayoutAmbiguous
               /\ ~PayoutMatched /\ ~(TolerantDone /\ pass = 1)
        <3>1. unsure' = unsure
            BY <2>6 DEF Next, Returned, Accept, Reject, ExactPair, ExactDone,
                        SplitMatch, SplitDone, TolerantPair, NextTier,
                        TolerantDone, GroupsDone, Classify, Finish, vars
        <3>2. \/ phase = "group" /\ walk = {} /\ phase' # "group"
              \/ phase = phase' /\ walk' = walk /\ phase = "group"
              \/ phase # "group" /\ phase' # "group" /\ pass' = pass
              \/ pass' # 2 /\ phase' # "group"
            BY <1>p, <2>6
            DEF Next, Returned, Accept, Reject, ExactPair, ExactDone,
                SplitMatch, SplitDone, TolerantPair, NextTier, TolerantDone,
                GroupsDone, Classify, Finish, vars, BeginTier
        <3>3. /\ Payouts' \subseteq Payouts
              /\ \A p : OrderSets(p)' \subseteq OrderSets(p)
            BY <2>o, PayoutsShrink
        <3> QED
            BY <3>1, <3>2, <3>3 DEF Searched
    <2> QED
        BY <2>1, <2>2, <2>3, <2>4, <2>5, <2>6
<1> QED
    BY <1>o, <1>p

-----------------------------------------------------------------------------
\* The verdict of an ambiguous row keeps it for review.
LEMMA AmbiguousVerdict ==
    ASSUME NEW ambiguous, NEW i \in ambiguous
    PROVE  Verdict(i, ambiguous).type \in Review
BY DEF Verdict, Review, Timing, Whole

\* The candidate pairs and the payouts with fitting orders are read from the
\* pool as Classify finds it, and Classify does not change the pool.
LEMMA ClassifyReviews ==
    ASSUME TypeInv, PassOrder, Searched, Classify
    PROVE  OpenFitsAreReviewed'
<1> USE DEF poolVars, groupVars, reportVars
<1>1. /\ UNCHANGED <<book, open, unsure>>
      /\ phase = "classify" /\ phase' = "check" /\ pass = 2
    BY DEF Classify, PassOrder
<1>2. typed' = [i \in open |-> Verdict(i, Ambiguous)]
    BY DEF Classify
<1>3. \A i \in open : i \in Ambiguous => typed'[i].type \in Review
    <2> HIDE DEF Classify
    <2>1. \A i \in open : typed'[i] = Verdict(i, Ambiguous)
        BY <1>2
    <2> QED
        BY <2>1, AmbiguousVerdict
<1>4. Contested \subseteq open
    BY DEF Contested, RowsOn, Edges, OpenExpected
<1>5. Contested' = Contested
    <2>1. \A t : Edges(t)' = Edges(t)
        BY <1>1, BookFrame DEF Edges, OpenExpected
    <2> QED
        BY <2>1 DEF Contested, RowsOn, TierTolerance
<1>6. Payouts' = Payouts /\ \A p : OrderSets(p)' = OrderSets(p)
    BY <1>1, BookFrame
    DEF Payouts, OrderSets, Orders, OpenActual, OpenExpected
<1>7. \A i \in Contested' : typed'[i].type \in Review
    BY <1>3, <1>4, <1>5 DEF Ambiguous
<1>8. \A p \in Payouts' : OrderSets(p)' # {} => typed'[p].type \in Review
    <2>1. \A p \in Payouts : OrderSets(p) # {} => p \in unsure /\ p \in open
        BY <1>1 DEF Searched, Payouts, OpenActual
    <2> QED
        BY <1>3, <1>6, <2>1 DEF Ambiguous
<1> QED
    BY <1>7, <1>8 DEF OpenFitsAreReviewed

\* Every step keeps the fits reviewed; Classify establishes it from Searched.
LEMMA StepReviewed ==
    ASSUME PlaceInv, PassOrder, Searched, OpenFitsAreReviewed, [Next]_vars
    PROVE  OpenFitsAreReviewed'
<1> USE DEF poolVars, groupVars, reportVars
<1>1. CASE Classify
    BY <1>1, ClassifyReviews DEF PlaceInv
<1>2. CASE Explained /\ ~Classify
    <2>1. UNCHANGED <<book, open, typed>>
        BY <1>2
        DEF Explained, Next, Returned, Accept, Reject, ExactPair, ExactDone,
            SplitMatch, SplitDone, TolerantPair, NextTier, TolerantDone,
            PayoutOverCap, NextPayout, PayoutUnexplained, PayoutAmbiguous,
            PayoutMatched, GroupsDone, Finish, vars
    <2>2. Contested' = Contested
        <3>1. \A t : Edges(t)' = Edges(t)
            BY <2>1, BookFrame DEF Edges, OpenExpected
        <3> QED
            BY <3>1 DEF Contested, RowsOn, TierTolerance
    <2>3. Payouts' = Payouts /\ \A p : OrderSets(p)' = OrderSets(p)
        BY <2>1, BookFrame
        DEF Payouts, OrderSets, Orders, OpenActual, OpenExpected
    <2> QED
        BY <1>2, <2>1, <2>2, <2>3 DEF OpenFitsAreReviewed
<1>3. CASE ~Explained /\ ~Classify
    <2>1. phase' \notin {"check", "done"}
        BY <1>3
        DEF Explained, Next, Returned, Accept, Reject, ExactPair, ExactDone,
            SplitMatch, SplitDone, TolerantPair, NextTier, TolerantDone,
            PayoutOverCap, NextPayout, PayoutUnexplained, PayoutAmbiguous,
            PayoutMatched, GroupsDone, Finish, vars
    <2> QED
        BY <2>1 DEF OpenFitsAreReviewed, Explained
<1> QED
    BY <1>1, <1>2, <1>3

\* A row some pass could still have paired is never written off: at the end of
\* every run the rows on a candidate pair, and the payouts some open orders
\* add up to, are ambiguous, a late split, or a duplicate.
THEOREM FitsAreReviewed == Spec => []OpenFitsAreReviewed
<1>1. Init => PassOrder /\ Searched /\ OpenFitsAreReviewed
    BY DEF Init, Start, PassOrder, Searched, OpenFitsAreReviewed, Explained
<1>2. /\ PlaceInv /\ PassOrder /\ Searched /\ OpenFitsAreReviewed
      /\ [Next]_vars
      => (PassOrder /\ Searched /\ OpenFitsAreReviewed)'
    BY StepOrder, StepSearched, StepReviewed
<1> QED
    BY <1>1, <1>2, PlacesHold, PTL DEF Spec

-----------------------------------------------------------------------------
(* A late split is explained as a whole *)

\* A bank line among these rows is there with an expected row that may be its
\* source.
Sourced(rows) ==
    \A a \in rows \cap Actual :
        book[a].source = "bank" =>
            \E e \in rows \cap Expected : ~RefConflict(e, a)

\* No bank line is matched without a source, and none is treated as a payout.
BankLines ==
    /\ \A n \in DOMAIN matches : Sourced(matches[n].rows)
    /\ \A p \in capped : book[p].source # "bank"
    /\ phase = "group" => \A p \in walk : book[p].source # "bank"

\* At the end every row of a late split that is left over is explained by it.
SplitsTyped ==
    Explained => \A i \in open : LateSplit(i) => typed[i] = Timing

\* The match a step appends has a source for each of its bank lines.
LEMMA StepSourced ==
    ASSUME PlaceInv, Counted, BankLines, [Next]_vars, phase # "validate"
    PROVE  \A n \in DOMAIN matches' : Sourced(matches'[n].rows)
<1>t. TypeInv /\ PayoutsOpen /\ Expected \cap Actual = {}
    BY DEF PlaceInv, Actual
<1>1. CASE UNCHANGED matches
    BY <1>1 DEF BankLines
<1>2. ASSUME NEW kind, NEW score, NEW rows, Take(kind, score, rows),
             Sourced(rows)
      PROVE  \A n \in DOMAIN matches' : Sourced(matches'[n].rows)
    <2> DEFINE k == Len(matches) + 1
    <2>1. /\ DOMAIN matches' = DOMAIN matches \cup {k}
          /\ \A n \in DOMAIN matches : matches'[n] = matches[n]
          /\ matches'[k].rows = rows
        BY <1>t, <1>2, TakeAppends DEF Take
    <2> HIDE DEF k
    <2> QED
        BY <1>2, <2>1 DEF BankLines
<1>3. ASSUME NEW e \in OpenExpected, NEW a \in ExactFits(e),
             Take("exact", FullScore, {e, a})
      PROVE  \A n \in DOMAIN matches' : Sourced(matches'[n].rows)
    <2>1. e \in Expected /\ a \in Actual /\ RefsAgree(book[e], book[a])
        BY DEF ExactFits, OpenActual, OpenExpected
    <2>2. Sourced({e, a})
        BY <1>t, <2>1, AgreeingRefs DEF Sourced
    <2> QED
        BY <1>2, <1>3, <2>2
<1>4. ASSUME NEW e \in OpenExpected,
             Take("split", FullScore, {e} \cup SplitParts(e))
      PROVE  \A n \in DOMAIN matches' : Sourced(matches'[n].rows)
    <2>1. /\ e \in Expected
          /\ \A a \in SplitParts(e) : RefsAgree(book[e], book[a])
        BY DEF SplitParts, OpenExpected
    <2>2. Sourced({e} \cup SplitParts(e))
        BY <1>t, <2>1, AgreeingRefs DEF Sourced
    <2> QED
        BY <1>2, <1>4, <2>2
<1>5. ASSUME NEW e \in open, NEW o \in open, Accepts(edges, e, o),
             phase = "tolerant", Take(PairKind(o), Score(e, o), {e, o})
      PROVE  \A n \in DOMAIN matches' : Sourced(matches'[n].rows)
    <2>1. e \in Expected /\ (o \in Actual => BankEdge(e, o))
        BY <1>t, <1>5, PairFacts DEF Counted
    <2>2. Sourced({e, o})
        BY <1>t, <2>1 DEF Sourced, BankEdge
    <2> QED
        BY <1>2, <1>5, <2>2
<1>6. ASSUME NEW p, NextPayout(p),
             Take("group", FullScore, {p} \cup FirstFound(OrderSets(p)))
      PROVE  \A n \in DOMAIN matches' : Sourced(matches'[n].rows)
    <2>1. book[p].source # "bank"
        BY <1>6 DEF NextPayout, IsFirst, BankLines
    <2>2. FirstFound(OrderSets(p)) \subseteq Expected
        BY FoundAreOrders DEF OpenExpected, FirstFound
    <2>3. Sourced({p} \cup FirstFound(OrderSets(p)))
        BY <1>t, <2>1, <2>2 DEF Sourced
    <2> QED
        BY <1>2, <1>6, <2>3
<1> QED
    BY <1>1, <1>3, <1>4, <1>5, <1>6, StepMatches DEF NewMatch

\* BankLines is inductive.
LEMMA StepBankLines ==
    ASSUME PlaceInv, Counted, BankLines, [Next]_vars
    PROVE  BankLines'
<1> USE DEF poolVars, groupVars, reportVars
<1>1. CASE phase = "validate"
    <2>1. capped' = {} /\ phase' # "group"
        BY <1>1
        DEF PlaceInv, TypeInv, Start, Next, Returned, Accept, Reject, ExactPair,
            ExactDone, SplitMatch, SplitDone, TolerantPair, NextTier,
            TolerantDone, PayoutOverCap, PayoutUnexplained, PayoutAmbiguous,
            PayoutMatched, NextPayout, GroupsDone, Classify, Finish, vars
    <2>2. matches' = <<>>
        BY <1>1, NoMatchYet DEF PlaceInv
    <2> QED
        BY <2>1, <2>2 DEF BankLines
<1>2. CASE phase # "validate"
    <2>1. UNCHANGED book
        BY <1>2, StepOnward DEF Onward
    <2>2. \A n \in DOMAIN matches' : Sourced(matches'[n].rows)
        BY <1>2, StepSourced
    <2>3. (\A n \in DOMAIN matches : Sourced(matches[n].rows))'
        BY <2>1, <2>2, BookFrame DEF Sourced
    <2>4. \/ capped' = capped
          \/ \E p \in walk : capped' = capped \cup {p} /\ phase = "group"
        BY DEF Next, Returned, Accept, Reject, ExactPair, ExactDone, SplitMatch,
               SplitDone, TolerantPair, NextTier, TolerantDone, PayoutOverCap,
               PayoutUnexplained, PayoutAmbiguous, PayoutMatched, NextPayout,
               GroupsDone, Classify, Finish, vars
    <2>5. \A p \in capped' : book[p].source # "bank"
        BY <2>4 DEF BankLines
    <2>6. phase' = "group" =>
              \/ phase = "group" /\ walk' \subseteq walk
              \/ walk' = Payouts
        BY <1>2
        DEF Next, Returned, Accept, Reject, ExactPair, ExactDone, SplitMatch,
            SplitDone, TolerantPair, NextTier, TolerantDone, PayoutOverCap,
            PayoutUnexplained, PayoutAmbiguous, PayoutMatched, NextPayout,
            GroupsDone, Classify, Finish, vars
    <2>7. \A p \in Payouts : book[p].source # "bank"
        BY DEF Payouts
    <2>8. phase' = "group" => \A p \in walk' : book[p].source # "bank"
        BY <2>6, <2>7 DEF BankLines
    <2> QED
        BY <2>1, <2>3, <2>5, <2>8 DEF BankLines
<1> QED
    BY <1>1, <1>2

\* Classify explains the rows of late splits first, and nothing changes after
\* it.
LEMMA StepSplitsTyped ==
    ASSUME PlaceInv, SplitsTyped, [Next]_vars
    PROVE  SplitsTyped'
<1> USE DEF poolVars, groupVars, reportVars
<1>0. ASSUME UNCHANGED book
      PROVE  \A i : LateSplit(i)' <=> LateSplit(i)
    <2>1. Expected' = Expected /\ \A S : SumAmounts(S)' = SumAmounts(S)
        BY <1>0, BookFrame
    <2>2. \A i : SameRecord(i)' = SameRecord(i) /\ PartsOf(i)' = PartsOf(i)
        BY <1>0 DEF SameRecord, PartsOf, Ids
    <2> QED
        BY <1>0, <2>1, <2>2 DEF LateSplit
<1>1. CASE Classify
    <2>1. UNCHANGED <<book, open>>
        BY <1>1 DEF Classify
    <2>2. \A i \in open : typed'[i] = Verdict(i, Ambiguous)
        BY <1>1 DEF Classify
    <2>3. \A i \in open : LateSplit(i) => typed'[i] = Timing
        BY <2>2 DEF Verdict
    <2>4. Timing' = Timing
        BY DEF Timing
    <2> QED
        BY <1>0, <2>1, <2>3, <2>4 DEF SplitsTyped
<1>2. CASE Explained /\ ~Classify
    <2>1. UNCHANGED <<book, open, typed>>
        BY <1>2
        DEF Explained, Next, Returned, Accept, Reject, ExactPair, ExactDone,
            SplitMatch, SplitDone, TolerantPair, NextTier, TolerantDone,
            PayoutOverCap, NextPayout, PayoutUnexplained, PayoutAmbiguous,
            PayoutMatched, GroupsDone, Finish, vars
    <2>2. Timing' = Timing
        BY DEF Timing
    <2> QED
        BY <1>0, <1>2, <2>1, <2>2 DEF SplitsTyped
<1>3. CASE ~Explained /\ ~Classify
    <2>1. phase' \notin {"check", "done"}
        BY <1>3
        DEF Explained, Next, Returned, Accept, Reject, ExactPair, ExactDone,
            SplitMatch, SplitDone, TolerantPair, NextTier, TolerantDone,
            PayoutOverCap, NextPayout, PayoutUnexplained, PayoutAmbiguous,
            PayoutMatched, GroupsDone, Finish, vars
    <2> QED
        BY <2>1 DEF SplitsTyped, Explained
<1> QED
    BY <1>1, <1>2, <1>3

\* The parts of a late split that was left over are late splits themselves,
\* and none of them was placed elsewhere: a line whose reference names the
\* one expected row of a record can be matched to no other row.
LEMMA WholeLateSplit ==
    ASSUME Partition, BankLines, NEW e \in Expected \cap open, LateSplit(e),
           NEW a \in PartsOf(e)
    PROVE  a \in open /\ LateSplit(a)
<1>1. PICK x \in SameRecord(e) \cap Expected :
          /\ SameRecord(e) \cap Expected = {x}
          /\ e \in PartsOf(x) \cup {x}
          /\ Cardinality(PartsOf(x)) >= 2
          /\ \E b \in PartsOf(x) : DayDiff(book[b], book[x]) > MatchWindowDays
          /\ SumAmounts(PartsOf(x)) = book[x].amount
    BY DEF LateSplit
<1>2. e \in SameRecord(e) /\ x = e
    BY <1>1 DEF SameRecord, RefsAgree, Expected
<1>3. /\ a \in Ids /\ RefsAgree(book[a], book[e]) /\ book[a].source = "bank"
      /\ SameRecord(a) = SameRecord(e)
    BY DEF PartsOf, SameRecord, RefsAgree
<1>4. LateSplit(a)
    BY <1>1, <1>2, <1>3 DEF LateSplit
<1>5. a \in Actual
    BY <1>3 DEF Actual, Expected, IsExpected
<1>6. a \notin capped
    BY <1>3 DEF BankLines
<1>7. ASSUME NEW n \in DOMAIN matches, a \in matches[n].rows
      PROVE  FALSE
    <2>1. PICK y \in matches[n].rows \cap Expected : ~RefConflict(y, a)
        BY <1>3, <1>5, <1>7 DEF BankLines, Sourced
    <2>2. SameRecord(a) \cap Expected = {e}
        BY <1>1, <1>2, <1>3
    <2>3. RefsAgree(book[y], book[a])
        BY <2>1, <2>2 DEF RefConflict
    <2>4. y \in SameRecord(a)
        BY <2>3 DEF SameRecord, Expected
    <2>5. e \in Matched
        BY <2>2, <2>4 DEF Matched
    <2> QED
        BY <2>5 DEF Partition
<1>8. a \in open
    BY <1>3, <1>6, <1>7 DEF Partition, Matched
<1> QED
    BY <1>4, <1>8

\* A late split settlement is explained as a whole: when its expected row is
\* left to timing, every one of its bank parts is left over and timing too.
THEOREM LateSplitsAreWhole == Spec => []LateSplitWhole
<1>1. Init => BankLines /\ SplitsTyped
    BY DEF Init, Start, BankLines, SplitsTyped, Explained
<1>2. Partition /\ BankLines /\ SplitsTyped => LateSplitWhole
    BY WholeLateSplit DEF LateSplitWhole, SplitsTyped
<1>3. PlaceInv => Partition
    BY DEF PlaceInv
<1>4. PlaceInv /\ Counted /\ BankLines /\ SplitsTyped /\ [Next]_vars
      => (BankLines /\ SplitsTyped)'
    BY StepBankLines, StepSplitsTyped
<1> QED
    BY <1>1, <1>2, <1>3, <1>4, PlacesHold, CountedHolds, PTL DEF Spec
-----------------------------------------------------------------------------
(* No payout is settled by elimination *)

\* What contests a payout: two of its own sets, or one of its sets and one of
\* another payout's that shares an order with it; all of contested orders.
ContestedPayout(p) ==
    \/ \E S, T \in OrderSets(p) : S # T /\ S \cup T \subseteq unsure
    \/ \E q \in (unsure \cap Actual) \ {p} :
           \E S \in OrderSets(p), T \in OrderSets(q) :
               S \cup T \subseteq unsure /\ S \cap T # {}

\* Every contested order belongs to a set of a contested payout.
ContestedOrder(o) ==
    \E q \in unsure \cap Actual : \E S \in OrderSets(q) :
        o \in S /\ S \subseteq unsure

BeforeGroups ==
    \/ phase \in {"validate", "exact", "split"}
    \/ phase = "tolerant" /\ pass = 1

\* Nothing is contested before the group pass, and while it runs no match takes
\* away what contests a payout.
Unsettled ==
    /\ phase # "validate" => Sorted
    /\ BeforeGroups => unsure = {}
    /\ phase = "group" =>
           /\ \A p \in unsure \cap Actual : ContestedPayout(p)
           /\ \A o \in unsure \cap Expected : ContestedOrder(o)

\* A set of orders that are all still open fits as before.
LEMMA SetsStay ==
    ASSUME UNCHANGED book, NEW p, NEW S \in OrderSets(p), S \subseteq open'
    PROVE  S \in OrderSets(p)'
<1>1. S \subseteq Orders(p) /\ SumAmounts(S) = book[p].gross
    BY DEF OrderSets
<1>2. S \subseteq Orders(p)'
    BY <1>1, BookFrame DEF Orders, OpenExpected
<1>3. SumAmounts(S)' = SumAmounts(S)
    BY BookFrame
<1> QED
    BY <1>1, <1>2, <1>3 DEF OrderSets

\* What is contested stays so while the contested orders stay open.
LEMMA ContestsStay ==
    ASSUME UNCHANGED book, unsure \subseteq unsure',
           unsure \cap OpenExpected \subseteq open'
    PROVE  /\ \A p : ContestedPayout(p) => ContestedPayout(p)'
           /\ \A o : ContestedOrder(o) => ContestedOrder(o)'
<1>1. ASSUME NEW p, NEW S \in OrderSets(p), S \subseteq unsure
      PROVE  S \in OrderSets(p)' /\ S \subseteq unsure'
    <2>1. S \subseteq open'
        BY <1>1 DEF OrderSets, Orders
    <2> QED
        BY <1>1, <2>1, SetsStay
<1>2. Actual' = Actual
    BY BookFrame
<1>3. ASSUME NEW p, ContestedPayout(p) PROVE ContestedPayout(p)'
    <2>1. CASE \E S, T \in OrderSets(p) : S # T /\ S \cup T \subseteq unsure
        <3>1. PICK S \in OrderSets(p), T \in OrderSets(p) :
                  S # T /\ S \cup T \subseteq unsure
            BY <2>1
        <3>2. /\ S \in OrderSets(p)' /\ T \in OrderSets(p)'
              /\ S \cup T \subseteq unsure'
            BY <1>1, <3>1
        <3> QED
            BY <3>1, <3>2 DEF ContestedPayout
    <2>2. CASE \E q \in (unsure \cap Actual) \ {p} :
                   \E S \in OrderSets(p), T \in OrderSets(q) :
                       S \cup T \subseteq unsure /\ S \cap T # {}
        <3>1. PICK q \in (unsure \cap Actual) \ {p} :
                  \E S \in OrderSets(p), T \in OrderSets(q) :
                      S \cup T \subseteq unsure /\ S \cap T # {}
            BY <2>2
        <3>2. PICK S \in OrderSets(p), T \in OrderSets(q) :
                  S \cup T \subseteq unsure /\ S \cap T # {}
            BY <3>1
        <3>3. /\ S \in OrderSets(p)' /\ T \in OrderSets(q)'
              /\ S \cup T \subseteq unsure'
            BY <1>1, <3>2
        <3>4. q \in (unsure' \cap Actual') \ {p}
            BY <1>2
        <3> QED
            BY <3>2, <3>3, <3>4 DEF ContestedPayout
    <2> QED
        BY <1>3, <2>1, <2>2 DEF ContestedPayout
<1>4. ASSUME NEW o, ContestedOrder(o) PROVE ContestedOrder(o)'
    <2>1. PICK q \in unsure \cap Actual : \E S \in OrderSets(q) :
              o \in S /\ S \subseteq unsure
        BY <1>4 DEF ContestedOrder
    <2>2. PICK S \in OrderSets(q) : o \in S /\ S \subseteq unsure
        BY <2>1
    <2>3. /\ S \in OrderSets(q)' /\ S \subseteq unsure'
          /\ q \in unsure' \cap Actual'
        BY <1>1, <1>2, <2>2
    <2> QED
        BY <2>2, <2>3 DEF ContestedOrder
<1> QED
    BY <1>3, <1>4

\* A payout refused now is contested: by two sets of its own, or by the
\* payout whose order its only set wants.
LEMMA RefusedIsContested ==
    ASSUME TypeInv, PayoutsOpen, BookFinite, Sorted, Unsettled,
           NEW p, NextPayout(p), OrderSets(p) # {}, Refused(p),
           unsure' = unsure \cup {p} \cup FirstTwo(OrderSets(p)),
           UNCHANGED <<book, open, phase>>
    PROVE  /\ \A q \in (unsure \cap Actual)' : ContestedPayout(q)'
           /\ \A o \in (unsure \cap Expected)' : ContestedOrder(o)'
<1> DEFINE sets == OrderSets(p)
<1>1. /\ phase = "group" /\ p \in Actual /\ Actual' = Actual
      /\ Expected' = Expected /\ Expected \cap Actual = {}
    BY GroupRows, BookFrame DEF NextPayout, OpenActual, Actual
<1>2. \A q : OrderSets(q)' = OrderSets(q)
    BY <1>1, BookFrame DEF OrderSets, Orders, OpenExpected
<1>3. FirstTwo(sets) \subseteq Expected
    BY FoundAreOrders DEF FirstTwo, OpenExpected
<1>4. /\ \A q : ContestedPayout(q) => ContestedPayout(q)'
      /\ \A o : ContestedOrder(o) => ContestedOrder(o)'
    BY ContestsStay DEF OpenExpected
<1>5. /\ \A q \in unsure \cap Actual : ContestedPayout(q)'
      /\ \A o \in unsure \cap Expected : ContestedOrder(o)'
    BY <1>1, <1>4 DEF Unsettled
<1>6. ASSUME NEW o \in FirstTwo(sets) PROVE ContestedOrder(o)'
    <2>1. PICK S \in sets : o \in S /\ S \subseteq FirstTwo(sets)
        BY FoundWhole
    <2>2. /\ S \in OrderSets(p)' /\ S \subseteq unsure'
          /\ p \in unsure' \cap Actual'
        BY <1>1, <1>2, <2>1
    <2> QED
        BY <2>1, <2>2 DEF ContestedOrder
<1>7. sets \subseteq SUBSET Ids /\ IsFiniteSet(sets)
    <2>1. Orders(p) \in SUBSET Ids
        BY DEF Orders, OpenExpected, Expected
    <2>2. IsFiniteSet(SUBSET Orders(p))
        BY <2>1, FS_Subset, FS_SUBSET DEF BookFinite
    <2>3. sets \in SUBSET (SUBSET Orders(p))
        BY DEF OrderSets
    <2> QED
        BY <2>1, <2>2, <2>3, FS_Subset
<1>8. CASE Cardinality(sets) > 1
    <2>1. PICK S \in sets, T \in sets :
              S # T /\ S \cup T \subseteq FirstTwo(sets)
        BY <1>7, <1>8, RowsRanked, TwoAreFound DEF Filed, TypeInv, TypeOK
    <2>2. /\ S \in OrderSets(p)' /\ T \in OrderSets(p)'
          /\ S \cup T \subseteq unsure'
        BY <1>2, <2>1
    <2>3. ContestedPayout(p)'
        BY <2>1, <2>2 DEF ContestedPayout
    <2> QED
        BY <1>1, <1>3, <1>5, <1>6, <2>3
<1>9. CASE ~(Cardinality(sets) > 1)
    <2>1. Cardinality(sets) = 1
        <3>1. Cardinality(sets) \in Nat /\ Cardinality(sets) # 0
            BY <1>7, FS_CardinalityType, FS_EmptySet
        <3> QED
            BY <1>9, <3>1
    <2>2. PICK S : sets = {S}
        BY <1>7, <2>1, FS_Singleton
    <2>3. FirstFound(sets) = S /\ FirstTwo(sets) = S
        BY <2>2, FirstOfOne, OneIsFound
    <2>4. PICK o \in S : o \in unsure
        BY <1>9, <2>3 DEF Refused
    <2>5. PICK q \in unsure \cap Actual : \E T \in OrderSets(q) :
              o \in T /\ T \subseteq unsure
        BY <1>1, <1>3, <2>3, <2>4 DEF Unsettled, ContestedOrder
    <2>6. PICK T \in OrderSets(q) : o \in T /\ T \subseteq unsure
        BY <2>5
    <2>7. ContestedPayout(p)'
        <3>1. CASE q = p
            BY <1>5, <3>1
        <3>2. CASE q # p
            <4>1. q \in (unsure' \cap Actual') \ {p}
                BY <1>1, <3>2
            <4>2. /\ S \in OrderSets(p)' /\ T \in OrderSets(q)'
                  /\ S \cup T \subseteq unsure' /\ S \cap T # {}
                BY <1>2, <2>2, <2>3, <2>4, <2>6
            <4> QED
                BY <4>1, <4>2 DEF ContestedPayout
        <3> QED
            BY <3>1, <3>2
    <2> QED
        BY <1>1, <1>3, <1>5, <1>6, <2>7
<1> QED
    BY <1>8, <1>9

\* No step takes a contested order; the payout visited is refused only with
\* what contests it.
LEMMA StepUnsettled ==
    ASSUME PlaceInv, BookFinite, PassOrder, Unsettled, [Next]_vars
    PROVE  Unsettled'
<1> USE DEF poolVars, groupVars, reportVars
<1>t. TypeInv /\ PayoutsOpen
    BY DEF PlaceInv
<1>1. CASE phase = "validate"
    <2>1. \/ phase' = "validate" /\ unsure' = unsure
          \/ Accept
          \/ phase' = "failed" /\ ~BeforeGroups' /\ rank' = RankOf(book')
        BY <1>1, <1>t
        DEF TypeInv, Start, Next, Returned, Reject, ExactPair, ExactDone,
            SplitMatch, SplitDone, TolerantPair, NextTier, TolerantDone,
            PayoutOverCap, PayoutUnexplained, PayoutAmbiguous, PayoutMatched,
            NextPayout, GroupsDone, Classify, Finish, vars, RankOf, EmptyMap,
            BeforeGroups
    <2>2. unsure = {}
        BY <1>1 DEF Unsettled, BeforeGroups
    <2>3. CASE Accept
        BY <2>2, <2>3 DEF Accept, Unsettled, Sorted
    <2> QED
        BY <2>1, <2>2, <2>3 DEF Unsettled, Sorted
<1>2. CASE phase # "validate"
    <2>1. UNCHANGED <<book, rank>>
        BY <1>2, StepOnward
        DEF Onward, Next, Returned, Accept, Reject, ExactPair, ExactDone,
            SplitMatch, SplitDone, TolerantPair, NextTier, TolerantDone,
            PayoutOverCap, PayoutUnexplained, PayoutAmbiguous, PayoutMatched,
            NextPayout, GroupsDone, Classify, Finish, vars
    <2>2. Sorted /\ Sorted'
        BY <1>2, <2>1 DEF Unsettled, Sorted, RankOf
    <2>3. CASE PayoutAmbiguous
        <3>1. PICK p : /\ NextPayout(p) /\ OrderSets(p) # {} /\ Refused(p)
                       /\ unsure' = unsure \cup {p} \cup FirstTwo(OrderSets(p))
            BY <2>3 DEF PayoutAmbiguous
        <3>2. phase = "group" /\ UNCHANGED <<book, open, phase>>
            BY <2>1, <2>3, <3>1 DEF PayoutAmbiguous, NextPayout
        <3>3. /\ \A q \in (unsure \cap Actual)' : ContestedPayout(q)'
              /\ \A o \in (unsure \cap Expected)' : ContestedOrder(o)'
            BY <1>t, <2>2, <3>1, <3>2, RefusedIsContested
        <3>4. ~BeforeGroups'
            BY <3>2 DEF BeforeGroups
        <3> QED
            BY <2>2, <3>3, <3>4 DEF Unsettled
    <2>4. CASE ~PayoutAmbiguous /\ phase' # "group"
        <3>1. unsure' = unsure
            BY <1>2, <2>4
            DEF Next, Returned, Accept, Reject, ExactPair, ExactDone,
                SplitMatch, SplitDone, TolerantPair, NextTier, TolerantDone,
                PayoutOverCap, PayoutUnexplained, PayoutMatched, NextPayout,
                GroupsDone, Classify, Finish, vars
        <3>2. BeforeGroups' => BeforeGroups
            BY <1>2, <2>4
            DEF Next, Returned, Accept, Reject, ExactPair, ExactDone,
                SplitMatch, SplitDone, TolerantPair, NextTier, TolerantDone,
                PayoutOverCap, PayoutUnexplained, PayoutMatched, NextPayout,
                GroupsDone, Classify, Finish, vars, BeforeGroups
        <3> QED
            BY <2>2, <2>4, <3>1, <3>2 DEF Unsettled
    <2>5. CASE TolerantDone /\ phase' = "group"
        <3>1. pass = 1 /\ phase = "tolerant" /\ unsure' = unsure
            BY <2>5 DEF TolerantDone
        <3>2. unsure' = {} /\ ~BeforeGroups'
            BY <2>5, <3>1 DEF Unsettled, BeforeGroups
        <3> QED
            BY <2>2, <3>2 DEF Unsettled
    <2>6. CASE ~PayoutAmbiguous /\ ~TolerantDone /\ phase' = "group"
        <3>1. phase = "group" /\ unsure' = unsure
            BY <1>2, <2>6
            DEF Next, Returned, Accept, Reject, ExactPair, ExactDone,
                SplitMatch, SplitDone, TolerantPair, NextTier, PayoutOverCap,
                PayoutUnexplained, PayoutMatched, NextPayout, GroupsDone,
                Classify, Finish, vars
        <3>2. unsure \cap OpenExpected \subseteq open'
            <4>1. CASE PayoutMatched
                <5>1. PICK p : /\ NextPayout(p) /\ ~Refused(p)
                               /\ open' = open \ ({p} \cup FirstFound(OrderSets(p)))
                    BY <4>1 DEF PayoutMatched, Take
                <5>2. FirstFound(OrderSets(p)) \cap unsure = {}
                    BY <5>1 DEF Refused
                <5>3. p \notin OpenExpected
                    BY <1>t, <5>1, GroupRows DEF OpenActual, OpenExpected, Actual
                <5> QED
                    BY <5>1, <5>2, <5>3 DEF OpenExpected
            <4>2. CASE PayoutOverCap
                <5>1. PICK p : NextPayout(p) /\ open' = open \ {p}
                    BY <4>2 DEF PayoutOverCap
                <5>2. p \notin OpenExpected
                    BY <1>t, <5>1, GroupRows DEF OpenActual, OpenExpected, Actual
                <5> QED
                    BY <5>1, <5>2 DEF OpenExpected
            <4>3. CASE ~PayoutMatched /\ ~PayoutOverCap
                <5>1. open' = open
                    BY <2>6, <3>1, <4>3
                    DEF Next, Returned, Accept, Reject, ExactPair, ExactDone,
                        SplitMatch, SplitDone, TolerantPair, NextTier,
                        PayoutUnexplained, NextPayout, GroupsDone, Classify,
                        Finish, vars
                <5> QED
                    BY <5>1 DEF OpenExpected
            <4> QED
                BY <4>1, <4>2, <4>3
        <3>3. /\ \A p : ContestedPayout(p) => ContestedPayout(p)'
              /\ \A o : ContestedOrder(o) => ContestedOrder(o)'
            BY <2>1, <3>1, <3>2, ContestsStay
        <3>4. Actual' = Actual /\ Expected' = Expected
            BY <2>1, BookFrame
        <3>5. ~BeforeGroups'
            BY <2>6 DEF BeforeGroups
        <3> QED
            BY <2>2, <3>1, <3>3, <3>4, <3>5 DEF Unsettled
    <2> QED
        BY <2>3, <2>4, <2>5, <2>6
<1> QED
    BY <1>1, <1>2

\* ADR 0006, for any book and any order of payouts: while payouts are searched
\* none that was found ambiguous can be settled by elimination.  It keeps two
\* sets of open orders, or an order that another ambiguous payout wants too.
THEOREM NoneIsEliminated == Spec => []NoElimination
<1>1. Init => Unsettled
    BY DEF Init, Start, Unsettled, BeforeGroups
<1>2. BookFinite /\ Unsettled => NoElimination
    <2> SUFFICES ASSUME BookFinite, Unsettled, phase = "group",
                        NEW p \in unsure \cap Actual
                 PROVE  \/ Cardinality(OrderSets(p)) > 1
                        \/ \E q \in (unsure \cap Actual) \ {p} :
                               (UNION OrderSets(p)) \cap (UNION OrderSets(q)) # {}
        BY DEF NoElimination
    <2>1. ContestedPayout(p)
        BY DEF Unsettled
    <2>2. CASE \E S, T \in OrderSets(p) : S # T
        <3>1. IsFiniteSet(OrderSets(p))
            <4>1. Orders(p) \in SUBSET Ids
                BY DEF Orders, OpenExpected, Expected
            <4>2. IsFiniteSet(SUBSET Orders(p))
                BY <4>1, FS_Subset, FS_SUBSET DEF BookFinite
            <4> QED
                BY <4>2, FS_Subset DEF OrderSets
        <3>2. /\ Cardinality(OrderSets(p)) \in Nat
              /\ Cardinality(OrderSets(p)) # 0 /\ Cardinality(OrderSets(p)) # 1
            BY <2>2, <3>1, FS_CardinalityType, FS_EmptySet, FS_Singleton
        <3> QED
            BY <3>2
    <2>3. CASE \E q \in (unsure \cap Actual) \ {p} :
                   \E S \in OrderSets(p), T \in OrderSets(q) : S \cap T # {}
        BY <2>3
    <2> QED
        BY <2>1, <2>2, <2>3 DEF ContestedPayout
<1>3. PlaceInv /\ BookFinite /\ PassOrder /\ Unsettled /\ [Next]_vars
      => Unsettled'
    BY StepUnsettled
<1>4. Init => PassOrder
    BY DEF Init, Start, PassOrder
<1>5. PassOrder /\ [Next]_vars => PassOrder'
    BY StepOrder
<1> QED
    BY <1>1, <1>2, <1>3, <1>4, <1>5, PlacesHold, BookIsFinite, PTL DEF Spec
=============================================================================
