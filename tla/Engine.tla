------------------------------- MODULE Engine -------------------------------
(***************************************************************************)
(* engine.Run (internal/engine/engine.go): one reconciliation of a book.   *)
(* The pipeline is sequential and pure; a step of this module is one       *)
(* iteration of one of its loops, so that what a pass has done so far is   *)
(* visible to the invariants.                                              *)
(*                                                                         *)
(*   validate - exact - split - tolerant - group - tolerant - classify -   *)
(*   check - done (or failed)                                              *)
(*                                                                         *)
(* A loop that leaves a row alone and visits the next one changes nothing, *)
(* so an iteration here is the next one that does something.               *)
(***************************************************************************)
EXTENDS Matching, Classification, Sequences

CONSTANT Inputs  \* the arguments engine.Run may be called with

ASSUME InputsAssumption == Inputs \subseteq Seq(Transaction)

VARIABLES
    all,      \* the argument: a sequence of transactions, in load order
    phase,    \* where the pipeline is
    pass,     \* 1 or 2: which of the two tolerant passes, 0 before the first
    tier,     \* the tier the tolerant pass is at
    edges,    \* the candidate pairs it counted when that tier began
    walk,     \* the rows the running loop has still to visit
    matches,  \* the matches, in the order they were appended
    capped,   \* groupCandidates: payouts with too many candidate orders
    unsure,   \* unsureGroups: ambiguous payouts and the contested orders
    fees,     \* match index -> commission of a matched payout
    typed     \* row left over -> its discrepancy

vars == <<all, book, rank, open, phase, pass, tier, edges, walk, matches,
          capped, unsure, fees, typed>>

poolVars == <<all, book, rank>>
groupVars == <<capped, unsure>>
reportVars == <<fees, typed>>

Phases == {"validate", "exact", "split", "tolerant", "group", "classify",
           "check", "done", "failed"}
Kinds == {"exact", "split", "tolerant", "reversal", "group"}

EmptyMap == [i \in {} |-> 0]

Start ==
    /\ phase = "validate"
    /\ book = EmptyMap /\ rank = EmptyMap /\ open = {}
    /\ pass = 0 /\ tier = TierRef /\ edges = {} /\ walk = {}
    /\ matches = <<>> /\ capped = {} /\ unsure = {}
    /\ fees = EmptyMap /\ typed = EmptyMap

Init == all \in Inputs /\ Start

-----------------------------------------------------------------------------
(* Validation and SplitPool *)

Total(txs) ==
    MapThenSumSet(LAMBDA k : txs[k].amount + txs[k].commission, DOMAIN txs)

\* Mutant: the total of the book is not bounded.
UnboundedTotal(txs) ==
    /\ \A k \in DOMAIN txs : ValidateMoney(txs[k])
    /\ \A k, l \in DOMAIN txs : txs[k].id = txs[l].id => k = l

\* What engine.Run demands of its argument.  The total includes the fees; the
\* code checks it row by row, which for nonnegative money is the same.
Acceptable(txs) ==
    /\ \A k \in DOMAIN txs : ValidateMoney(txs[k])
    /\ \A k, l \in DOMAIN txs : txs[k].id = txs[l].id => k = l
    /\ Total(txs) <= MaxMoney

BookOf(txs) ==
    [i \in {txs[k].id : k \in DOMAIN txs} |->
        txs[CHOOSE k \in DOMAIN txs : txs[k].id = i]]

Accept ==
    /\ phase = "validate"
    /\ Acceptable(all)
    /\ book' = BookOf(all)
    /\ rank' = RankOf(book')
    /\ open' = DOMAIN book'
    /\ phase' = "exact"
    /\ UNCHANGED <<all, pass, tier, edges, walk, matches, groupVars,
                   reportVars>>

Reject ==
    /\ phase = "validate"
    /\ ~Acceptable(all)
    /\ phase' = "failed"
    /\ UNCHANGED <<poolVars, open, pass, tier, edges, walk, matches,
                   groupVars, reportVars>>

-----------------------------------------------------------------------------
(* A pass appends a match and takes its rows out of the pool. *)

\* Mutant: the actual rows of a match stay in the pool.
TakeExpected(kind, score, rows) ==
    /\ matches' = Append(matches, [kind |-> kind, score |-> score, rows |-> rows])
    /\ open' = open \ (rows \cap Expected)

Take(kind, score, rows) ==
    /\ matches' = Append(matches, [kind |-> kind, score |-> score, rows |-> rows])
    /\ open' = open \ rows

(* MatchExact *)

ExactRows == {e \in OpenExpected : ExactFits(e) # {}}

ExactPair ==
    /\ phase = "exact"
    /\ \E e \in ExactRows : \E a \in ExactFits(e) :
           /\ IsFirst(e, ExactRows)
           /\ IsFirst(a, ExactFits(e))
           /\ Take("exact", FullScore, {e, a})
    /\ UNCHANGED <<poolVars, phase, pass, tier, edges, walk, groupVars,
                   reportVars>>

ExactDone ==
    /\ phase = "exact"
    /\ ExactRows = {}
    /\ phase' = "split"
    /\ UNCHANGED <<poolVars, open, pass, tier, edges, walk, matches,
                   groupVars, reportVars>>

(* MatchSplits *)

SplitRows == {e \in OpenExpected : SplitFits(e)}

SplitMatch ==
    /\ phase = "split"
    /\ \E e \in SplitRows :
           /\ IsFirst(e, SplitRows)
           /\ Take("split", FullScore, {e} \cup SplitParts(e))
    /\ UNCHANGED <<poolVars, phase, pass, tier, edges, walk, groupVars,
                   reportVars>>

\* A tier begins: count the candidate pairs of the rows now open, and visit
\* every open expected row.
BeginTier(t) ==
    /\ tier' = t
    /\ edges' = Edges(t)
    /\ walk' = OpenExpected

SplitDone ==
    /\ phase = "split"
    /\ SplitRows = {}
    /\ phase' = "tolerant"
    /\ pass' = 1
    /\ BeginTier(TierRef)
    /\ UNCHANGED <<poolVars, open, matches, groupVars, reportVars>>

-----------------------------------------------------------------------------
(* MatchTolerant *)

\* Row e, visited now, is matched.
Pairs(e) == {o \in open : Accepts(edges, e, o)}

PairRows == {e \in walk : Pairs(e) # {}}

PairKind(o) == IF o \in Expected THEN "reversal" ELSE "tolerant"

\* Rows visited before e are passed over for the rest of the tier.
TolerantPair ==
    /\ phase = "tolerant"
    /\ \E e \in PairRows : \E o \in Pairs(e) :
           /\ IsFirst(e, PairRows)
           /\ Take(PairKind(o), Score(e, o), {e, o})
           /\ walk' = After(walk, e)
    /\ UNCHANGED <<poolVars, phase, pass, tier, edges, groupVars, reportVars>>

NextTier ==
    /\ phase = "tolerant"
    /\ tier = TierRef
    /\ PairRows = {}
    /\ BeginTier(TierAmount)
    /\ UNCHANGED <<poolVars, open, phase, pass, matches, groupVars, reportVars>>

\* The first pass hands over to the group pass; its contested rows are
\* dropped.  The second one hands over to classification.
TolerantDone ==
    /\ phase = "tolerant"
    /\ tier = TierAmount
    /\ PairRows = {}
    /\ IF pass = 1 THEN phase' = "group" /\ walk' = Payouts
                   ELSE phase' = "classify" /\ walk' = {}
    /\ UNCHANGED <<poolVars, open, pass, tier, edges, matches, groupVars,
                   reportVars>>

-----------------------------------------------------------------------------
(* MatchGroups: one iteration per payout *)

NextPayout(p) == phase = "group" /\ IsFirst(p, walk) /\ walk' = walk \ {p}

\* Mutant: an over-cap payout stays in the pool.
OverCapStays ==
    /\ \E p \in walk :
           /\ NextPayout(p)
           /\ Cardinality(Orders(p)) > GroupMemberCap
           /\ capped' = capped \cup {p}
    /\ UNCHANGED <<poolVars, open, phase, pass, tier, edges, matches, unsure,
                   reportVars>>

\* Too many candidates: not searched, and out of the pool.
PayoutOverCap ==
    /\ \E p \in walk :
           /\ NextPayout(p)
           /\ Cardinality(Orders(p)) > GroupMemberCap
           /\ capped' = capped \cup {p}
           /\ open' = open \ {p}
    /\ UNCHANGED <<poolVars, phase, pass, tier, edges, matches, unsure,
                   reportVars>>

PayoutUnexplained ==
    /\ \E p \in walk :
           /\ NextPayout(p)
           /\ Cardinality(Orders(p)) <= GroupMemberCap
           /\ OrderSets(p) = {}
    /\ UNCHANGED <<poolVars, open, phase, pass, tier, edges, matches,
                   groupVars, reportVars>>

\* Mutant: a second fitting set is no reason to refuse.
RefusedIfContested(p) == FirstFound(OrderSets(p)) \cap unsure # {}

\* Two sets fit, or the first one takes a contested order: the payout and the
\* orders of the sets found are set aside as contested.
Refused(p) ==
    \/ Cardinality(OrderSets(p)) > 1
    \/ FirstFound(OrderSets(p)) \cap unsure # {}

PayoutAmbiguous ==
    /\ \E p \in walk :
           /\ NextPayout(p)
           /\ Cardinality(Orders(p)) <= GroupMemberCap
           /\ OrderSets(p) # {}
           /\ Refused(p)
           /\ unsure' = unsure \cup {p} \cup FirstTwo(OrderSets(p))
    /\ UNCHANGED <<poolVars, open, phase, pass, tier, edges, matches, capped,
                   reportVars>>

PayoutMatched ==
    /\ \E p \in walk :
           /\ NextPayout(p)
           /\ Cardinality(Orders(p)) <= GroupMemberCap
           /\ OrderSets(p) # {}
           /\ ~Refused(p)
           /\ Take("group", FullScore, {p} \cup FirstFound(OrderSets(p)))
    /\ UNCHANGED <<poolVars, phase, pass, tier, edges, groupVars, reportVars>>

\* Mutant: the tolerant pass does not know that it is the second one.
RepeatedPass ==
    /\ phase = "group"
    /\ walk = {}
    /\ phase' = "tolerant"
    /\ BeginTier(TierRef)
    /\ UNCHANGED <<poolVars, open, pass, matches, groupVars, reportVars>>

\* Mutant: the second tolerant pass splits the whole book anew.
FreshPool ==
    /\ phase = "group"
    /\ walk = {}
    /\ phase' = "tolerant"
    /\ pass' = 2
    /\ open' = Ids
    /\ BeginTier(TierRef)
    /\ UNCHANGED <<poolVars, matches, groupVars, reportVars>>

\* engine.Run starts the tolerant pass once more over what is left.
GroupsDone ==
    /\ phase = "group"
    /\ walk = {}
    /\ phase' = "tolerant"
    /\ pass' = 2
    /\ BeginTier(TierRef)
    /\ UNCHANGED <<poolVars, open, matches, groupVars, reportVars>>

-----------------------------------------------------------------------------
(* Classification and the invariant check *)

\* The rows on a candidate pair of any tier when the second pass ended.
Contested == RowsOn(Edges(TierTolerance))

\* Mutants: one of the two sources of ambiguous rows is dropped.
AmbiguousGroups == unsure \cap open
AmbiguousPairs == Contested \cap open

\* What engine.Run passes on as ambiguous: rows still open, each once.
Ambiguous == (unsure \cup Contested) \cap open

Classify ==
    /\ phase = "classify"
    /\ fees' = [n \in {n \in DOMAIN matches :
                          /\ matches[n].kind = "group"
                          /\ \E i \in matches[n].rows :
                                 /\ book[i].source = "marketplace"
                                 /\ book[i].commission > 0} |->
                   book[CHOOSE i \in matches[n].rows :
                            book[i].source = "marketplace"].commission]
    /\ typed' = [i \in open |-> Verdict(i, Ambiguous)]
    /\ phase' = "check"
    /\ UNCHANGED <<poolVars, open, pass, tier, edges, walk, matches,
                   groupVars>>

Matched == UNION {matches[n].rows : n \in DOMAIN matches}

\* The transaction-level discrepancies of row i: one as a capped payout, one
\* as a leftover of the pool.
DiscrepanciesOf(i) ==
    (IF i \in capped THEN {Whole("unknown", i)} ELSE {})
        \cup (IF i \in DOMAIN typed THEN {typed[i]} ELSE {})

\* invariants.Check: 2 no row in two matches, 1 every row matched or typed,
\* 3 every delta of an unmatched row obeys its type.
Check ==
    /\ \A m, n \in DOMAIN matches :
           m # n => matches[m].rows \cap matches[n].rows = {}
    /\ \A i \in Ids \ Matched :
           /\ DiscrepanciesOf(i) # {}
           /\ \A d \in DiscrepanciesOf(i) : DeltaFits(d, book[i].amount)

Finish ==
    /\ phase = "check"
    /\ phase' = IF Check THEN "done" ELSE "failed"
    /\ UNCHANGED <<poolVars, open, pass, tier, edges, walk, matches,
                   groupVars, reportVars>>

\* engine.Run has returned.
Returned == phase \in {"done", "failed"} /\ UNCHANGED vars

Next ==
    \/ Accept \/ Reject
    \/ ExactPair \/ ExactDone
    \/ SplitMatch \/ SplitDone
    \/ TolerantPair \/ NextTier \/ TolerantDone
    \/ PayoutOverCap \/ PayoutUnexplained \/ PayoutAmbiguous \/ PayoutMatched
    \/ GroupsDone
    \/ Classify \/ Finish \/ Returned

Spec == Init /\ [][Next]_vars

\* One goroutine runs the pipeline to its end; nothing in it waits.
FairSpec == Spec /\ WF_vars(Next)
=============================================================================
