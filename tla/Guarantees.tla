----------------------------- MODULE Guarantees -----------------------------
(***************************************************************************)
(* What one run of the engine guarantees: the four README guarantees that  *)
(* concern the engine (1 to 3), the evidence rule of ADR 0006, and what    *)
(* the later stages rely on.                                               *)
(***************************************************************************)
EXTENDS Engine

-----------------------------------------------------------------------------
(* Type correctness *)

Match == [kind : Kinds, score : Int, rows : SUBSET Ids]

\* Every variable holds a value of its Go type: rows are rows of the book and
\* every discrepancy has one of the eight types the schema admits.
TypeOK ==
    /\ all \in Seq(Transaction)
    /\ phase \in Phases
    /\ \A i \in Ids : book[i] \in Transaction /\ book[i].id = i
    /\ rank \in [Ids -> Nat]
    /\ open \subseteq Ids
    /\ pass \in 0..2
    /\ tier \in {TierRef, TierAmount}
    /\ edges \subseteq Ids \X Ids
    /\ walk \subseteq Ids
    /\ matches \in Seq(Match)
    /\ capped \subseteq Ids
    /\ unsure \subseteq Ids
    /\ fees \in [DOMAIN fees -> Int]
    /\ typed \in [DOMAIN typed -> Discrepancy] /\ DOMAIN typed \subseteq Ids

-----------------------------------------------------------------------------
(* Guarantees 1 and 2 *)

\* Whatever the passes do, a row is in exactly one place: in one match, set
\* aside as an over-cap payout, or open in the pool (README, guarantees 1 and
\* 2: no row falls out of the result, none is in two matches).
Partition ==
    /\ \A m, n \in DOMAIN matches :
           m # n => matches[m].rows \cap matches[n].rows = {}
    /\ Matched \cap (capped \cup open) = {}
    /\ capped \cap open = {}
    /\ Ids = Matched \cup capped \cup open

\* The engine refuses a bad argument but never its own result: when the run
\* fails, the argument broke the input contract (engine.go aborts the run if
\* invariants.Check fails; no accepted book makes it fail).
NeverRefusesItsResult == phase = "failed" => ~Acceptable(all)

\* The report adds up deltas and fees in int64; the total that validation
\* bounds keeps every subtotal inside it (engine.go:33).
Magnitude(x) == IF x < 0 THEN -x ELSE x

ReportTotal ==
    MapThenSumSet(LAMBDA i : Magnitude(typed[i].delta), DOMAIN typed)
    + SumAmounts(capped)
    + MapThenSumSet(LAMBDA n : fees[n], DOMAIN fees)

SubtotalsFit == ReportTotal <= MaxMoney

-----------------------------------------------------------------------------
(* The evidence rule (ADR 0006) *)

MatchesOf(kinds) == {n \in DOMAIN matches : matches[n].kind \in kinds}

\* An unreferenced pair matched on its amount had no rival, and has none when
\* the run ends: no other open bank line of that amount could be the expected
\* row's money, and no other open expected row the bank line's source, within
\* the horizon (ADR 0006, engine_property_test.go).
NoRivalLeft ==
    \A n \in MatchesOf({"tolerant"}) :
        \A e \in matches[n].rows \cap Expected, a \in matches[n].rows \cap Actual :
            RefsAgree(book[e], book[a]) \/
                \A x \in open \cap SameAmount(e) :
                    /\ (x \in Actual /\ book[x].source = "bank"
                          /\ DayDiff(book[x], book[e]) <= AmountHorizonDays)
                       => RefConflict(e, x)
                    /\ (x \in Expected
                          /\ DayDiff(book[x], book[a]) <= AmountHorizonDays)
                       => RefConflict(x, a)

\* The tolerant pass does not choose: neither row of a matched pair still has
\* an open partner of equal or stronger evidence (tolerant.go:13).
OnlyFit ==
    \A n \in MatchesOf({"tolerant", "reversal"}) :
        \A e \in matches[n].rows \cap Expected, o \in matches[n].rows :
            Candidate(e, o, TierTolerance) =>
                \A x \in open, i \in {e, o} :
                    /\ i \in Expected => ~Candidate(i, x, Tier(e, o))
                    /\ x \in Expected => ~Candidate(x, i, Tier(e, o))

\* The exact pass leaves nothing for weaker evidence: once it is over, no open
\* line carries the reference, amount and direction of an open expected row
\* inside the window.
ExactFirst ==
    phase \notin {"validate", "exact"} =>
        \A e \in OpenExpected, a \in OpenActual :
            ~ /\ RefsAgree(book[e], book[a])
              /\ book[e].amount = book[a].amount
              /\ book[e].dir = book[a].dir
              /\ DayDiff(book[e], book[a]) <= MatchWindowDays

\* A match outside the group pass never joins rows whose references name
\* different records (ADR 0006).
ConflictFree(kinds) ==
    \A n \in MatchesOf(kinds) :
        \A e \in matches[n].rows \cap Expected, a \in matches[n].rows \cap Actual :
            ~RefConflict(e, a)

PairsAgree == ConflictFree(Kinds \ {"group"})

\* The property as the README and the property test state it, of every match.
MatchesNeverConflict == ConflictFree(Kinds)

-----------------------------------------------------------------------------
(* The group pass *)

\* While payouts are searched, no ambiguous payout can be settled by
\* elimination: it keeps two fitting sets of open orders, or shares a fitting
\* order with another ambiguous payout (ADR 0006).
NoElimination ==
    phase = "group" =>
        \A p \in unsure \cap Actual :
            \/ Cardinality(OrderSets(p)) > 1
            \/ \E q \in (unsure \cap Actual) \ {p} :
                   (UNION OrderSets(p)) \cap (UNION OrderSets(q)) # {}

\* A payout was matched to the only orders that could be meant: no other set
\* of its own and the open orders of the payout period adds up to the gross.
OnlyOrderSet ==
    \A n \in MatchesOf({"group"}) :
        LET rows == matches[n].rows
            orders(p) == (rows \cap Expected) \cup Orders(p)
        IN  \A p \in rows \cap Actual :
                {S \in SUBSET orders(p) : SumAmounts(S) = book[p].gross}
                    = {rows \cap Expected}

-----------------------------------------------------------------------------
(* Classification *)

Explained == phase \in {"check", "done"}

\* A row that some pass could still have paired is never written off: at the
\* end it is ambiguous, unless a late split or an earlier twin explains it.
Review == {"ambiguous", "timing", "duplicate"}

OpenFitsAreReviewed ==
    Explained =>
        /\ \A i \in Contested : typed[i].type \in Review
        /\ \A p \in Payouts : OrderSets(p) # {} => typed[p].type \in Review

\* A late split settlement is explained as a whole: if its expected row is
\* left to timing by that rule, so is every one of its bank parts.
LateSplitWhole ==
    Explained =>
        \A e \in Expected \cap open : LateSplit(e) =>
            \A a \in PartsOf(e) : a \in open /\ typed[a] = Timing

\* A surplus or short line is given delta 0 because the money is booked on the
\* expected side (classify.go:161, classify_test.go:80): then some expected
\* row of its record is left with a delta of its own.
MirroredMoneyIsBooked ==
    Explained =>
        \A a \in OpenActual :
            typed[a].type \in {"partial", "commission"} =>
                \E e \in SameRecord(a) \cap OpenExpected : typed[e].delta > 0

-----------------------------------------------------------------------------
(* Action and liveness properties *)

\* Nothing is taken back: rows only leave the pool, matches are only appended,
\* and the rows of a new match were all still in the pool.
NothingTakenBack ==
    [][\/ phase = "validate"
       \/ /\ open' \subseteq open
          /\ Len(matches') >= Len(matches)
          /\ \A n \in DOMAIN matches : matches'[n] = matches[n]
          /\ \A n \in DOMAIN matches' \ DOMAIN matches :
                 matches'[n].rows \subseteq open]_vars

\* Every run ends: each loop of the pipeline runs out of rows.
Terminates == <>(phase \in {"done", "failed"})
=============================================================================
