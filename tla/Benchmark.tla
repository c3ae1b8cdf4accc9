------------------------------ MODULE Benchmark ------------------------------
(***************************************************************************)
(* internal/verification: Score generates a book, runs the engine over it  *)
(* and tallies the result against the truth the generator kept.  The       *)
(* benchmark command, the panel and the CI gate all report this tally.     *)
(***************************************************************************)
EXTENDS Engine

CONSTANTS Sellers, GroupSellers, Budgets, Amounts, Days, Shifts, Delays,
          FeeRates, CutRates, Portions, GroupSizes, GroupDays, Offsets

VARIABLES budget, slots, groups, truth, openExpected, openActual

G == INSTANCE Generator WITH out <- all

ASSUME BooksAssumption == G!DrawsAssumption

\* The most money on one row: a payout of eight orders of amount() each.
MostOnRow == 8 * G!maxAmount

\* A slot adds up to 4 rows, a group up to 10.  What they carry is below the
\* money limit for every book of less than 10^12 rows.
ASSUME BudgetsAssumption ==
    \A b \in Budgets : MostOnRow * (4 * b.pairs + 10 * b.groups) <= MaxMoney

\* The generator draws for the limits the code has: a line inside the window,
\* a late one outside of it, groups of one seller in different periods.
ASSUME LimitsOfTheCode ==
    /\ MatchWindowDays = 3 /\ AmountHorizonDays = 30
    /\ ToleranceDivisor = 200
    /\ GroupWindowDays = 14 /\ GroupMemberCap = 20

benchVars == <<vars, budget, slots, groups, truth, openExpected, openActual>>

BInit == G!Init /\ Start

Generate ==
    /\ G!Next
    /\ UNCHANGED <<book, rank, open, phase, pass, tier, edges, walk, matches,
                   capped, unsure, fees, typed>>

Reconcile ==
    /\ G!Complete
    /\ Next
    /\ UNCHANGED <<budget, slots, groups, truth, openExpected, openActual>>

BNext == Generate \/ Reconcile

BSpec == BInit /\ [][BNext]_benchVars

-----------------------------------------------------------------------------
(* tally *)

InjectedAs(type) == {i \in DOMAIN truth : truth[i].type = type}

DetectedAs(type) ==
    {i \in InjectedAs(type) : \E d \in DiscrepanciesOf(i) : d.type = type}

Labels == {truth[i].label : i \in DOMAIN truth} \ {G!NoLabel}

Intended(label) == {i \in DOMAIN truth : truth[i].label = label}

CleanGroups ==
    {label \in Labels : \E i \in Intended(label) : book[i].source = "marketplace"}

\* Every record of the type: of rows left over, of capped payouts, of matches.
Emitted(type) ==
    Cardinality({i \in Ids : \E d \in DiscrepanciesOf(i) : d.type = type})
    + (IF type = "commission" THEN Cardinality(DOMAIN fees) ELSE 0)

\* An injected commission, partial payment or delay also shows on the bank's
\* side, and every clean group has a fee.
ExpectedOf(type) ==
    Cardinality(InjectedAs(type))
        * (IF type \in {"commission", "partial", "timing"} THEN 2 ELSE 1)
    + (IF type = "commission" THEN Cardinality(CleanGroups) ELSE 0)

FalseMatches ==
    {n \in DOMAIN matches :
        ~ \E label \in Labels : matches[n].rows \subseteq Intended(label)}

MissedIntended ==
    {label \in Labels :
        Cardinality({n \in DOMAIN matches : matches[n].rows = Intended(label)}) # 1}

\* The orders of a payout's seller in the payout's window.
OrdersNear(p) ==
    {i \in DOMAIN truth :
        /\ book[i].source = "psp" /\ book[i].cp = book[p].cp
        /\ book[i].day \in (book[p].day - GroupWindowDays)..book[p].day}

\* In an ambiguous group, sets of orders that add up to the gross differ only in
\* which of some equal orders they take.  Nothing in the generator sees to it:
\* the amounts it draws make other sets improbable, and the benchmark's truth is
\* wrong for a group that has one.
NoCoincidence ==
    \A p \in InjectedAs("ambiguous") :
        book[p].source = "marketplace" =>
            LET fits == {S \in SUBSET OrdersNear(p) : SumAmounts(S) = book[p].gross}
                times(S, i) == Cardinality({j \in S : book[j].amount = book[i].amount})
            IN  \A S, T \in fits, i \in OrdersNear(p) : times(S, i) = times(T, i)

-----------------------------------------------------------------------------
(* Correctness: the result is what the generator meant, whatever it drew.  *)
(* These are the conditions of Passed, but for the one that something was  *)
(* injected at all.                                                        *)

\* The engine accepts every generated book, and its own result for it.
NeverAnError == phase # "failed"

\* Every injected discrepancy is found, and found as what it is, unless other
\* orders of an ambiguous group happen to add up to its gross.
InjectionsDetected ==
    phase = "done" /\ NoCoincidence =>
        \A type \in DiscrepancyTypes : DetectedAs(type) = InjectedAs(type)

\* The engine reports nothing that the book does not account for, unless other
\* orders of an ambiguous group happen to add up to its gross.
NothingUnexplained ==
    phase = "done" /\ NoCoincidence =>
        \A type \in DiscrepancyTypes : Emitted(type) = ExpectedOf(type)

\* No match joins rows that do not belong together, and every intended pair,
\* split, reversal and group is matched whole.
IntendedAreMatched == phase = "done" => FalseMatches = {} /\ MissedIntended = {}

RowsKeptApart == G!KeptApart
=============================================================================
