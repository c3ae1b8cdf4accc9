-------------------------------- MODULE Plan --------------------------------
(***************************************************************************)
(* What a generated book is like, in the terms the passes of the engine    *)
(* look at it: which rows carry the reference of a row, which bank lines   *)
(* could be the money of an order, which orders a payout may be made of,   *)
(* and how these sets relate to the rows that are meant to be matched.     *)
(*                                                                         *)
(* b is a book (ID -> transaction), t what is meant by its rows, and R the *)
(* rows considered: a slot's, a group's, or all of them.                   *)
(***************************************************************************)
EXTENDS Records

Meant(t, i) == t[i].label # 0

\* The rows meant to be matched with row i.
Team(t, R, i) == {j \in R : t[j].label = t[i].label}

\* The rows of i's reference, and the bank lines among them.
Rec(b, R, i) == {j \in R : RefsAgree(b[j], b[i])}
Lines(b, R, e) == {a \in Rec(b, R, e) : b[a].source = "bank" /\ b[a].dir = b[e].dir}

NearInTime(b, e, a) == DayDiff(b[a], b[e]) <= MatchWindowDays

\* What the exact pass accepts.
Fits(b, e, a) ==
    /\ IsExpected(b[e]) /\ ~IsExpected(b[a])
    /\ RefsAgree(b[e], b[a])
    /\ b[a].amount = b[e].amount /\ b[a].dir = b[e].dir
    /\ NearInTime(b, e, a)

\* Row e again, entered later.
Copy(b, f, e) == f < e /\ b[e] = [b[f] EXCEPT !.id = e]

\* What the amount tier accepts, and what it counts as a rival: an order that
\* no line answers and a line that answers no order.
Alike(b, R, e, a) ==
    /\ IsExpected(b[e]) /\ b[a].source = "bank"
    /\ b[a].cp = b[e].cp /\ b[a].dir = b[e].dir /\ b[a].amount = b[e].amount
    /\ DayDiff(b[a], b[e]) <= AmountHorizonDays
    /\ \A x \in Rec(b, R, e) : IsExpected(b[x])
    /\ \A x \in Rec(b, R, a) : ~IsExpected(b[x])

\* The rows the group pass searches.
IsPayout(b, p) ==
    b[p].source = "marketplace" /\ b[p].dir = "credit" /\ b[p].gross > 0

OrdersOf(b, R, p) ==
    {e \in R :
        /\ IsExpected(b[e]) /\ b[e].dir = "credit" /\ b[e].amount > 0
        /\ b[e].cp = b[p].cp
        /\ b[e].day <= b[p].day /\ b[e].day >= b[p].day - GroupWindowDays}

-----------------------------------------------------------------------------
(* The rows meant to be matched are of one of these kinds *)

PairTeam(b, t, R, e, a) ==
    Meant(t, e) /\ Team(t, R, e) = {e, a} /\ Fits(b, e, a)

SplitTeam(b, t, R, e) ==
    /\ Meant(t, e) /\ Team(t, R, e) = {e} \cup Lines(b, R, e)
    /\ IsExpected(b[e]) /\ b[e].ref # NoRef
    /\ \A x \in Rec(b, R, e) : IsExpected(b[x]) => x = e
    /\ \A a \in Lines(b, R, e) : NearInTime(b, e, a)
    /\ Cardinality(Lines(b, R, e)) >= 2
    /\ SumOf(b, Lines(b, R, e)) = b[e].amount

ReversalTeam(b, t, R, c, d) ==
    /\ Meant(t, c) /\ Team(t, R, c) = {c, d} /\ Rec(b, R, c) = {c, d}
    /\ IsExpected(b[c]) /\ IsExpected(b[d])
    /\ b[c].dir = "credit" /\ b[d].dir = "debit"
    /\ b[c].amount > 0 /\ b[d].amount = b[c].amount
    /\ NearInTime(b, c, d)

\* An order and a line without a reference, each the other's only choice.
AmountTeam(b, t, R, e, a) ==
    /\ Meant(t, e) /\ Team(t, R, e) = {e, a}
    /\ Alike(b, R, e, a) /\ NearInTime(b, e, a) /\ b[e].dir = "credit"
    /\ \A y \in R : Alike(b, R, e, y) => y = a
    /\ \A x \in R : Alike(b, R, x, a) => x = e

GroupTeam(b, t, R, p) ==
    /\ Meant(t, p) /\ Team(t, R, p) = {p} \cup OrdersOf(b, R, p)
    /\ IsPayout(b, p)
    /\ SumOf(b, OrdersOf(b, R, p)) = b[p].gross

\* A payout that one of two equal orders explains.
UnclearGroup(b, t, R, p) ==
    /\ ~Meant(t, p) /\ \A e \in OrdersOf(b, R, p) : ~Meant(t, e)
    /\ \E x, y \in OrdersOf(b, R, p) :
           /\ x # y /\ b[x].amount = b[y].amount
           /\ SumOf(b, OrdersOf(b, R, p)) = b[p].gross + b[x].amount

-----------------------------------------------------------------------------
(* What the passes rely on *)

RefsMeant(b, R) == \A e \in R : IsExpected(b[e]) => b[e].ref # NoRef

ExactMeant(b, t, R) ==
    \A e, a \in R : Fits(b, e, a) =>
        \E f \in R : PairTeam(b, t, R, f, a) /\ (f = e \/ Copy(b, f, e))

PartsMeant(b, t, R) ==
    \A e \in R : IsExpected(b[e]) =>
        \A a, c \in Lines(b, R, e) : a # c => SplitTeam(b, t, R, e)

CloseMeant(b, t, R) ==
    \A e \in R : IsExpected(b[e]) =>
        \A a \in Lines(b, R, e) :
            /\ NearInTime(b, e, a)
            /\ AbsDiff(b[e].amount, b[a].amount) <= TolerantLimit(b[e].amount)
            => Fits(b, e, a) \/ SplitTeam(b, t, R, e)

ReversalMeant(b, t, R) ==
    \A c, d \in R :
        /\ IsExpected(b[c]) /\ IsExpected(b[d]) /\ RefsAgree(b[c], b[d])
        /\ b[c].dir = "credit" /\ b[d].dir = "debit"
        => ReversalTeam(b, t, R, c, d)

AmountMeant(b, t, R) ==
    \A e, a \in R : Alike(b, R, e, a) =>
        \/ AmountTeam(b, t, R, e, a)
        \/ /\ ~Meant(t, e)
           /\ NearInTime(b, e, a) =>
                  \E y \in R \ {a} : Alike(b, R, e, y) /\ ~Meant(t, y)

PayoutMeant(b, t, R) ==
    \A p \in R : IsPayout(b, p) =>
        /\ Cardinality(OrdersOf(b, R, p)) <= 9
        /\ GroupTeam(b, t, R, p) \/ UnclearGroup(b, t, R, p)

TeamsKnown(b, t, R) ==
    \A i \in R : Meant(t, i) =>
        \E e \in Team(t, R, i) :
            \/ \E a \in R : PairTeam(b, t, R, e, a)
            \/ SplitTeam(b, t, R, e)
            \/ \E d \in R : ReversalTeam(b, t, R, e, d)
            \/ \E a \in R : AmountTeam(b, t, R, e, a)
            \/ GroupTeam(b, t, R, e)

WellPlanned(b, t, R) ==
    /\ RefsMeant(b, R)
    /\ ExactMeant(b, t, R) /\ PartsMeant(b, t, R) /\ CloseMeant(b, t, R)
    /\ ReversalMeant(b, t, R) /\ AmountMeant(b, t, R) /\ PayoutMeant(b, t, R)
    /\ TeamsKnown(b, t, R)
=============================================================================
