------------------------------ MODULE Matching ------------------------------
(***************************************************************************)
(* What each pass of internal/matching accepts: the fits of the exact and  *)
(* split passes, the candidate pairs (edges) and the rivals of the         *)
(* tolerant pass, and the order sets of the group pass.  Engine.tla says   *)
(* in which order the passes use them.                                     *)
(***************************************************************************)
EXTENDS Pool

-----------------------------------------------------------------------------
(* exact.go and split.go *)

\* Mutant: the window ends a day early.
ShortWindowFits(e) ==
    {a \in OpenActual :
        /\ RefsAgree(book[e], book[a])
        /\ book[a].amount = book[e].amount
        /\ book[a].dir = book[e].dir
        /\ DayDiff(book[a], book[e]) < MatchWindowDays}

\* The open lines MatchExact accepts for the expected row e: same reference
\* and counterparty, amount and direction, inside the date window.
ExactFits(e) ==
    {a \in OpenActual :
        /\ RefsAgree(book[e], book[a])
        /\ book[a].amount = book[e].amount
        /\ book[a].dir = book[e].dir
        /\ DayDiff(book[a], book[e]) <= MatchWindowDays}

\* The open bank lines that must all take part in a split of e.
SplitParts(e) ==
    {a \in OpenActual :
        /\ book[a].source = "bank"
        /\ RefsAgree(book[e], book[a])
        /\ book[a].dir = book[e].dir
        /\ DayDiff(book[a], book[e]) <= MatchWindowDays}

\* MatchSplits takes e with all its parts.  The code counts the open expected
\* rows of each reference once, before the pass; taking e with its parts
\* changes no count or part of another reference.  Its guard against an int64
\* overflow of the sum never fires, as engine.Run bounds the book's total.
SplitFits(e) ==
    /\ book[e].ref # NoRef
    /\ SameRecord(e) \cap OpenExpected = {e}
    /\ Cardinality(SplitParts(e)) >= 2
    /\ SumAmounts(SplitParts(e)) = book[e].amount

-----------------------------------------------------------------------------
(* tolerant.go *)

TierRef == 0
TierAmount == 1
TierTolerance == 2

AmountDiff(i, j) == AbsDiff(book[i].amount, book[j].amount)

\* Mutant: a reference that names another record is ignored.
AnyReferenceEdge(e, a) ==
    /\ a \in Actual
    /\ book[a].source = "bank"
    /\ book[a].cp = book[e].cp
    /\ book[a].dir = book[e].dir
    /\ DayDiff(book[a], book[e]) <= MatchWindowDays
    /\ AmountDiff(e, a) <= TolerantLimit(book[e].amount)

\* A bank line inside the tolerances of the expected row e.
BankEdge(e, a) ==
    /\ a \in Actual
    /\ book[a].source = "bank"
    /\ book[a].cp = book[e].cp
    /\ book[a].dir = book[e].dir
    /\ DayDiff(book[a], book[e]) <= MatchWindowDays
    /\ AmountDiff(e, a) <= TolerantLimit(book[e].amount)
    /\ ~RefConflict(e, a)

\* An expected debit d that may reverse the expected credit c.
ReversalEdge(c, d) ==
    /\ d \in Expected
    /\ book[c].dir = "credit" /\ book[d].dir = "debit"
    /\ book[c].amount > 0
    /\ book[d].amount = book[c].amount
    /\ book[d].cp = book[c].cp
    /\ DayDiff(book[d], book[c]) <= MatchWindowDays
    /\ \/ RefsAgree(book[c], book[d])
       \/ book[c].ref = NoRef /\ book[d].ref = NoRef

\* Evidence of a candidate pair, strongest first.
Tier(i, j) ==
    IF RefsAgree(book[i], book[j]) THEN TierRef
    ELSE IF AmountDiff(i, j) = 0 THEN TierAmount
    ELSE TierTolerance

\* Row o is a candidate partner of expected row e, with evidence of tier t or
\* stronger.
Candidate(e, o, t) ==
    /\ BankEdge(e, o) \/ ReversalEdge(e, o)
    /\ Tier(e, o) <= t

\* edgesOf: the candidate pairs among the open rows.
Edges(t) == {p \in OpenExpected \X open : Candidate(p[1], p[2], t)}

RowsOn(pairs) == {p[1] : p \in pairs} \cup {p[2] : p \in pairs}

Degree(pairs, i) == Cardinality({p \in pairs : i \in {p[1], p[2]}})

\* Row x could be the money of y's partner: same counterparty, direction and
\* amount as e, within the horizon of row y.
RivalOf(e, x, y) ==
    /\ book[x].cp = book[e].cp
    /\ book[x].dir = book[e].dir
    /\ book[x].amount = book[e].amount
    /\ DayDiff(book[x], book[y]) <= AmountHorizonDays

\* Mutant: rivals on the bank side only.
NoBankRival(e, a) ==
    \A j \in OpenActual \ {a} :
        (book[j].source = "bank" /\ RivalOf(e, j, e)) => RefConflict(e, j)

\* rivalFree: no other open bank line could be e's money and no other open
\* expected row could be a's source.
RivalFree(e, a) ==
    /\ \A j \in OpenActual \ {a} :
           (book[j].source = "bank" /\ RivalOf(e, j, e)) => RefConflict(e, j)
    /\ \A x \in OpenExpected \ {e} :
           RivalOf(e, x, a) => RefConflict(x, a)

\* Mutant: only the expected row must be without a choice.
OneSidedAccepts(pairs, e, o) ==
    /\ <<e, o>> \in pairs
    /\ {e, o} \subseteq open
    /\ Degree(pairs, e) = 1
    /\ \/ Tier(e, o) = TierRef
       \/ o \in Actual /\ Tier(e, o) = TierAmount /\ RivalFree(e, o)

(***************************************************************************)
(* The pair the loop accepts when it visits row e, given the candidate     *)
(* pairs counted when the tier began: both rows still open, each on that   *)
(* one pair only, and enough evidence.  A same-amount pair without a       *)
(* reference must also have no rival among the rows open now.              *)
(***************************************************************************)
Accepts(pairs, e, o) ==
    /\ <<e, o>> \in pairs
    /\ {e, o} \subseteq open
    /\ Degree(pairs, e) = 1 /\ Degree(pairs, o) = 1
    /\ \/ Tier(e, o) = TierRef
       \/ o \in Actual /\ Tier(e, o) = TierAmount /\ RivalFree(e, o)

\* Certainty, in basis points.
FullScore == 10000

Score(e, o) ==
    FullScore - 100 * DayDiff(book[e], book[o])
              - (IF book[e].amount > 0
                 THEN BasisPoints(AmountDiff(e, o), book[e].amount) ELSE 0)

-----------------------------------------------------------------------------
(* group.go *)

\* The rows MatchGroups searches: credit marketplace lines of positive gross.
Payouts ==
    {p \in OpenActual : /\ book[p].source = "marketplace"
                        /\ book[p].dir = "credit"
                        /\ book[p].gross > 0}

\* The candidate orders of a payout: the seller's open positive credits of
\* the payout period.
Orders(p) ==
    {e \in OpenExpected :
        /\ book[e].dir = "credit" /\ book[e].amount > 0
        /\ book[e].cp = book[p].cp
        /\ book[e].day <= book[p].day
        /\ book[e].day >= book[p].day - GroupWindowDays}

\* Every set of candidate orders that adds up to the gross.  subsetSum finds
\* only the first two; SubsetSearch.tla checks that they are the two below.
OrderSets(p) ==
    {S \in SUBSET Orders(p) : SumAmounts(S) = book[p].gross}

\* The search takes a row before it skips it, so of two sets the one that
\* takes the first row on which they differ is found earlier.
FoundBefore(S, T) ==
    \E i \in S \ T : \A j \in (S \ T) \cup (T \ S) : rank[i] <= rank[j]

\* The members of the first n sets found.
FoundFirst(n, sets) ==
    UNION {S \in sets : Cardinality({T \in sets \ {S} : FoundBefore(T, S)}) < n}

FirstFound(sets) == FoundFirst(1, sets)

\* Mutant: the orders of the second set are not contested.
FirstOnly(sets) == FoundFirst(1, sets)

\* subsetSum stops at the second set.
FirstTwo(sets) == FoundFirst(2, sets)
=============================================================================
