------------------------------ MODULE MCEngine ------------------------------
(***************************************************************************)
(* The families of small books on which the engine is checked.  Rows are   *)
(* numbered in sorted order; other load orders are MCLoadOrder's subject.  *)
(***************************************************************************)
EXTENDS Guarantees, MCRows

-----------------------------------------------------------------------------
(* Orders and bank lines of one counterparty: equal and near amounts (5 is  *)
(* the tolerance of 1000), agreeing, foreign, absent and statement-only     *)
(* references, dates inside the window and inside the horizon.              *)
PairOrders ==
    {Row("psp", ref, amount, day, "credit") :
        ref \in {0, 1}, amount \in {1000}, day \in {0, 12}}
    \cup {Row("psp", 2, 1004, 2, "credit"), Row("psp", 1, 1000, 2, "debit"),
          Row("psp", 0, 1000, 2, "debit")}

PairLines ==
    {Row("bank", ref, amount, 3, "credit") : ref \in {0, 1}, amount \in {1000, 1004}}
    \cup {Row("bank", 2, 1000, 3, "credit"), Row("bank", 9, 1000, 15, "credit"),
          Row("bank", 1, 1000, 3, "debit"), Row("bank", 1, 900, 3, "credit")}

PairBooks == Family(3, PairOrders, 3, PairLines)

(* Split settlements: parts inside and outside the window, a part of zero,  *)
(* two orders of one reference.                                             *)
SplitOrders ==
    {Row("psp", 1, 1000, 1, "credit"), Row("psp", 1, 1000, 3, "credit"),
     Row("psp", 1, 800, 1, "credit"), Row("psp", 0, 400, 2, "credit")}

SplitLines ==
    {Row("bank", 1, amount, day, "credit") :
        amount \in {0, 400, 600}, day \in {2, 9}}
    \cup {Row("bank", 1, 1000, 2, "credit"), Row("bank", 0, 400, 3, "credit"),
          Row("bank", 1, 200, 4, "debit")}

SplitBooks == Family(2, SplitOrders, 3, SplitLines)

(* Payouts of one seller, from orders whose sums collide.                   *)
GroupOrders ==
    {Row("psp", 1, 1000, 1, "credit"), Row("psp", 2, 2000, 1, "credit"),
     Row("psp", 3, 3000, 3, "credit"), Row("psp", 4, 1000, 8, "credit"),
     Row("psp", 0, 2000, 17, "credit")}

GroupLines ==
    {Payout(7, 3000, 0, 5), Payout(8, 1000, 100, 9), Payout(8, 4000, 0, 9),
     Payout(9, 2000, 0, 17), Row("bank", 0, 1000, 3, "credit")}

GroupBooks == Family(4, GroupOrders, 3, GroupLines)

PairAndGroupBooks == PairBooks \cup GroupBooks

(* A short run of everything at once: one order paid short, a sale and its  *)
(* void, a split, a rival that only the group pass removes, and a seller    *)
(* with more orders than the cap.                                           *)
MixedOrders ==
    {Row("psp", 1, 1000, 1, "credit"), Row("psp", 2, 1000, 3, "credit"),
     Row("psp", 2, 1000, 3, "debit"), Row("psp", 0, 500, 2, "credit")}

MixedLines ==
    {Row("bank", 1, 500, 2, "credit"), Row("bank", 0, 1000, 3, "credit"),
     Row("bank", 1, 1000, 4, "credit"), Payout(7, 1000, 100, 10)}

MixedBooks == Family(4, MixedOrders, 2, MixedLines)

(* A bank line that pays an order short, and a payout the order adds up to. *)
ShortPaidBooks ==
    Family(2, {Row("psp", 1, 1000, 1, "credit"), Row("psp", 2, 2000, 1, "credit")},
           2, {Row("bank", 1, 500, 2, "credit"), Payout(7, 1000, 0, 5),
               Payout(8, 3000, 0, 6)})

(* Arguments around the input contract: foreign currency, negative money, a *)
(* net that is not gross - commission, one ID twice, totals at the limit.   *)
InputRows ==
    {Row("psp", 1, 2000, 1, "credit"), Row("bank", 2, 1800, 2, "credit"),
     Row("bank", 1, 1800, 2, "debit"), Payout(7, 2000, 100, 5),
     [Row("psp", 1, 2000, 1, "credit") EXCEPT !.currency = "other"],
     [Row("psp", 1, 2000, 1, "credit") EXCEPT !.amount = -1],
     [Payout(7, 2000, 100, 5) EXCEPT !.gross = 2001],
     [Payout(7, 2000, 100, 5) EXCEPT !.commission = 2100, !.amount = -100]}

InputBooks ==
    LET rows == UpTo(4, InputRows)
    IN  {Numbered(s) : s \in rows}
            \cup {[Numbered(s) EXCEPT ![Len(s)].id = 1] : s \in rows \ {<<>>}}
\* No book of the first two families exceeds a total of 6000; some of the
\* third do.
AnyBooks == SplitBooks \cup MixedBooks \cup InputBooks
=============================================================================
