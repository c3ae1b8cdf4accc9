---------------------------- MODULE SubsetSearch ----------------------------
(***************************************************************************)
(* subsetSum of internal/matching/group.go: the bounded backtracking       *)
(* search behind the group pass.  The engine's specification says what the *)
(* search finds (OrderSets, FirstFound); this module is how it finds it,   *)
(* and the property is that the two agree.                                 *)
(*                                                                         *)
(* The candidates are the rows of book, in pool order 1 .. n.              *)
(***************************************************************************)
EXTENDS Matching, Sequences

CONSTANT Amounts, Targets, MaxCandidates

\* Orders and payouts of nothing or less are left out before the search.
ASSUME SearchAssumption ==
    /\ Amounts \subseteq 1..MaxMoney
    /\ Targets \subseteq 1..MaxMoney
    /\ MaxCandidates \in Nat

VARIABLES
    target,   \* the payout's gross
    found,    \* the sets found, at most two, in the order they were found
    returned  \* subsetSum has returned

vars == <<book, rank, open, target, found, returned>>

N == Cardinality(Ids)

\* suffix[i]: what candidates i .. n add up to, saturated at MaxMoney.
Suffix ==
    LET s[i \in 1..(N + 1)] ==
            IF i = N + 1 THEN 0
            ELSE IF book[i].amount > MaxMoney - s[i + 1] THEN MaxMoney
            ELSE s[i + 1] + book[i].amount
    IN  s

\* Mutant: the branch that needs all the rest of the candidates is cut off.
CutTooEarly(suffix, i, remaining) ==
    i = N + 1 \/ remaining < 0 \/ suffix[i] <= remaining

\* Nothing to find below candidate i.
DeadEnd(suffix, i, remaining) ==
    i = N + 1 \/ remaining < 0 \/ suffix[i] < remaining

\* What walk works on: what is left of the target, the candidates taken, and
\* the sets found so far, which are fewer than two.
Calls ==
    [remaining : {r \in Int : r <= target}, pick : SUBSET Ids,
     sets : {q \in Seq(SUBSET Ids) : Len(q) < 2}]

\* The sets found when walk returns from candidate i on: take the candidate,
\* then skip it; stop at the second set.
Walk(suffix) ==
    LET walk[i \in 1..(N + 1)] == [call \in Calls |->
            IF call.remaining = 0 THEN Append(call.sets, call.pick)
            ELSE IF DeadEnd(suffix, i, call.remaining) THEN call.sets
            ELSE LET taken == walk[i + 1][
                         [remaining |-> call.remaining - book[i].amount,
                          pick |-> call.pick \cup {i}, sets |-> call.sets]]
                 IN  IF Len(taken) = 2 THEN taken
                     ELSE walk[i + 1][[call EXCEPT !.sets = taken]]]
    IN  walk

Order(amount) ==
    [id |-> 0, source |-> "psp", ref |-> NoRef, cp |-> 1, currency |-> "TRY",
     amount |-> amount, day |-> 1, dir |-> "credit", gross |-> 0, commission |-> 0]

Init ==
    /\ \E n \in 0..MaxCandidates : \E a \in [1..n -> Amounts] :
           /\ book = [i \in 1..n |-> Order(a[i])]
           /\ rank = [i \in 1..n |-> i]
           /\ open = 1..n
    /\ target \in Targets
    /\ found = <<>>
    /\ returned = FALSE

Search ==
    /\ ~returned
    /\ found' = Walk(Suffix)[1][[remaining |-> target, pick |-> {}, sets |-> <<>>]]
    /\ returned' = TRUE
    /\ UNCHANGED <<book, rank, open, target>>

Returned == returned /\ UNCHANGED vars

Next == Search \/ Returned

Spec == Init /\ [][Next]_vars

-----------------------------------------------------------------------------
Fitting == {S \in SUBSET Ids : SumAmounts(S) = target}

\* The search misses nothing the group pass must know: it reports a set
\* exactly when one fits, a second exactly when two fit, and they are the
\* sets that take the oldest rows, whatever the pruning by saturated suffix
\* sums cut off (ADR 0003: the subset never depends on input ordering).
FindsTheFirstTwo ==
    returned =>
        LET rest == Fitting \ {FirstFound(Fitting)}
        IN  found = IF Fitting = {} THEN <<>>
                    ELSE IF rest = {} THEN <<FirstFound(Fitting)>>
                    ELSE <<FirstFound(Fitting), FirstFound(rest)>>
=============================================================================
