------------------------------ MODULE Generator ------------------------------
(***************************************************************************)
(* internal/generator: a synthetic book with known discrepancies.  The     *)
(* book is filled slot by slot; what a slot adds is an action, and what    *)
(* the random numbers decide is chosen freely from the sets below.  A slot *)
(* draws amounts until reserve accepts them: here, it draws accepted ones. *)
(*                                                                         *)
(* The row with ID n is out[n]; truth[n] is what the engine should make of *)
(* it: the label of the match it belongs to, or the discrepancy it must    *)
(* get, or neither (GroundTruth.IntendedGroup and InjectedTx).             *)
(***************************************************************************)
EXTENDS Records, Sequences

CONSTANTS
    Sellers,       \* sellers of single orders
    GroupSellers,  \* how many sellers are paid in groups
    Budgets,       \* the numbers of slots and groups a book may have
    Amounts,       \* what amount() may return
    Days,          \* what day() may return
    Shifts,        \* days from an order to its bank line, in the window
    Delays,        \* days to a late one
    FeeRates,      \* basis points of a commission
    CutRates,      \* basis points an order is paid short
    Portions,      \* amounts of all parts of a split but the last
    GroupSizes,    \* orders of a payout
    GroupDays,     \* first day of a group
    Offsets        \* days from there to an order

\* The bounds of amount().
minAmount == 1000
maxAmount == 500999

DrawsAssumption ==
    /\ GroupSellers \in Nat \ {0}
    /\ Sellers \subseteq GroupSellers..(GroupSellers + 299)
    /\ Budgets \subseteq [pairs : Nat, groups : 0..2 * GroupSellers]
    /\ Amounts \subseteq minAmount..maxAmount
    /\ Days \subseteq 0..29
    /\ Shifts \subseteq 0..3
    /\ Delays \subseteq 4..10
    /\ FeeRates \subseteq 800..2499
    /\ CutRates \subseteq 3000..6999
    /\ Portions \subseteq Nat \ {0}
    /\ GroupSizes \subseteq 2..8
    /\ GroupDays \subseteq 0..19
    /\ Offsets \subseteq 0..4

VARIABLES
    budget,        \* pairBudget and groupBudget
    slots,         \* slots filled, and the case of the last one
    groups,        \* groups added
    out,           \* the rows
    truth,         \* what is meant by each
    openExpected,  \* reserved rows of a seller: orders
    openActual     \* and bank lines

genVars == <<budget, slots, groups, out, truth, openExpected, openActual>>

Init ==
    /\ budget \in Budgets
    /\ slots = [filled |-> 0, case |-> 0]
    /\ groups = 0
    /\ out = <<>> /\ truth = <<>>
    /\ openExpected = [cp \in Sellers |-> {}]
    /\ openActual = [cp \in Sellers |-> {}]

-----------------------------------------------------------------------------
(* Rows and what is meant by them *)

\* References sort as the strings: ALIEN, GRP, ORD with its suffixes, PAY.  A
\* group has up to nine orders.
AlienRef == slots.filled + 1
OrderRef(j) == budget.pairs + 10 * groups + j
Ref == budget.pairs + 10 * (budget.groups + slots.filled)
RefA == Ref + 1
RefB == Ref + 2
RefY == Ref + 3
PayoutRef == budget.pairs + 10 * (budget.groups + budget.pairs) + groups

Stranger == GroupSellers + 300
GroupSeller == groups % GroupSellers

mkTx(source, ref, cp, amount, day, dir) ==
    [id |-> 0, source |-> source, ref |-> ref, cp |-> cp, currency |-> "TRY",
     amount |-> amount, day |-> day, dir |-> dir, gross |-> 0, commission |-> 0]

Order(ref, cp, amount, day) == mkTx("psp", ref, cp, amount, day, "credit")
Line(ref, cp, amount, day) == mkTx("bank", ref, cp, amount, day, "credit")

NoLabel == 0
Nothing == [label |-> NoLabel, type |-> "none"]
Match(label) == [Nothing EXCEPT !.label = label]
Injected(type) == [Nothing EXCEPT !.type = type]

\* The rows and truths of pairs <<row, truth>> join the book.
Emit(drawn) ==
    /\ out' = out \o [k \in DOMAIN drawn |->
                         [drawn[k][1] EXCEPT !.id = Len(out) + k]]
    /\ truth' = truth \o [k \in DOMAIN drawn |-> drawn[k][2]]

-----------------------------------------------------------------------------
(* Rows that stay open, or carry no reference, are kept apart *)

Open(amount, day) == [amount |-> amount, day |-> day, slot |-> slots.filled]

\* Mutant: an equal amount matters only inside the window.
inShortWindow(e, a) ==
    /\ AbsDiff(e.day, a.day) <= MatchWindowDays
    /\ AbsDiff(e.amount, a.amount) <= TolerantLimit(e.amount)

\* An order and a bank line that the engine might take for one payment.
inWindow(e, a) ==
    \/ e.amount = a.amount /\ AbsDiff(e.day, a.day) <= AmountHorizonDays
    \/ /\ AbsDiff(e.day, a.day) <= MatchWindowDays
       /\ AbsDiff(e.amount, a.amount) <= TolerantLimit(e.amount)

\* Mutant: new bank lines are not compared with the orders before them.
reserveOrders(cp, expected, actual) ==
    /\ \A e \in expected, a \in openActual[cp] : ~inWindow(e, a)
    /\ openExpected' = [openExpected EXCEPT ![cp] = @ \cup expected]
    /\ openActual' = [openActual EXCEPT ![cp] = @ \cup actual]

reserve(cp, expected, actual) ==
    /\ \A e \in expected, a \in openActual[cp] : ~inWindow(e, a)
    /\ \A a \in actual, e \in openExpected[cp] : ~inWindow(e, a)
    /\ openExpected' = [openExpected EXCEPT ![cp] = @ \cup expected]
    /\ openActual' = [openActual EXCEPT ![cp] = @ \cup actual]

NotReserved == UNCHANGED <<openExpected, openActual>>

-----------------------------------------------------------------------------
(* The slots.  Slot i takes the case of i % 100: the cases come in this     *)
(* order and start over after a hundred slots.                              *)

Slot(case) ==
    /\ slots.filled < budget.pairs
    /\ slots.case <= case \/ slots.filled % 100 = 0
    /\ slots' = [filled |-> slots.filled + 1, case |-> case]
    /\ UNCHANGED <<budget, groups>>

\* Mutant: an 8 % draw may be rounded below the fee band.
FloorCut(amt, rate) == (amt * rate) \div 10000

\* A fee of 8 to 25 %, one kurus more where rounding falls below 8 %.
FeeCut(amt, rate) ==
    LET cut == (amt * rate) \div 10000
    IN  IF (cut * 10000) \div amt < 800 THEN cut + 1 ELSE cut

ShortCut(amt, rate) == (amt * rate) \div 10000

\* An order of which the bank line is short by cut.
Short(case, type, cp, amt, cut, d, shift) ==
    /\ Slot(case)
    /\ reserve(cp, {Open(amt, d)}, {Open(amt - cut, d + shift)})
    /\ Emit(<< <<Order(Ref, cp, amt, d), Injected(type)>>,
               <<Line(Ref, cp, amt - cut, d + shift), Nothing>> >>)

Commission(cp, amt, d, shift) ==
    \E rate \in FeeRates :
        Short(0, "commission", cp, amt, FeeCut(amt, rate), d, shift)

Partial(cp, amt, d, shift) ==
    \E rate \in CutRates :
        Short(1, "partial", cp, amt, ShortCut(amt, rate), d, shift)

Timing(cp, amt, d) ==
    \E late \in Delays :
        /\ Slot(2)
        /\ reserve(cp, {Open(amt, d)}, {Open(amt, d + late)})
        /\ Emit(<< <<Order(Ref, cp, amt, d), Injected("timing")>>,
                   <<Line(Ref, cp, amt, d + late), Nothing>> >>)

CleanPair(cp, amt, d, shift) ==
    << <<Order(Ref, cp, amt, d), Match(Ref)>>,
       <<Line(Ref, cp, amt, d + shift), Match(Ref)>> >>

Duplicate(cp, amt, d, shift) ==
    /\ Slot(3)
    /\ reserve(cp, {Open(amt, d)}, {})
    /\ Emit(<< <<Order(Ref, cp, amt, d), Match(Ref)>>,
               <<Order(Ref, cp, amt, d), Injected("duplicate")>>,
               <<Line(Ref, cp, amt, d + shift), Match(Ref)>> >>)

Missing(cp, amt, d) ==
    /\ Slot(4)
    /\ reserve(cp, {Open(amt, d)}, {})
    /\ Emit(<< <<Order(Ref, cp, amt, d), Injected("missing")>> >>)

\* A clean pair and, two days after its line, a debit of the same reference.
Refund(cp, amt, d, shift) ==
    /\ Slot(5)
    /\ NotReserved
    /\ Emit(CleanPair(cp, amt, d, shift) \o
            << <<mkTx("bank", Ref, cp, amt, d + shift + 2, "debit"),
                 Injected("refund")>> >>)

\* A clean pair and a line of nobody's order.
Unknown(cp, amt, d, shift) ==
    /\ Slot(7)
    /\ NotReserved
    /\ \E amt2 \in Amounts, d2 \in Days :
           Emit(CleanPair(cp, amt, d, shift) \o
                << <<Line(AlienRef, Stranger, amt2, d2), Injected("unknown")>> >>)

Unreferenced(cp, amt, d, shift) ==
    /\ Slot(8)
    /\ reserve(cp, {Open(amt, d)}, {Open(amt, d + shift)})
    /\ Emit(<< <<Order(Ref, cp, amt, d), Match(Ref)>>,
               <<Line(NoRef, cp, amt, d + shift), Match(Ref)>> >>)

\* Two equal orders, two equal lines without a reference.
TwoPairs(cp, amt, d, shift) ==
    LET line == <<Line(NoRef, cp, amt, d + shift), Injected("ambiguous")>>
    IN  /\ Slot(9)
        /\ reserve(cp, {Open(amt, d)}, {Open(amt, d + shift)})
        /\ Emit(<< <<Order(RefA, cp, amt, d), Injected("ambiguous")>>, line,
                   <<Order(RefB, cp, amt, d), Injected("ambiguous")>>, line >>)

TotalOf(amount) == MapThenSumSet(LAMBDA j : amount[j], DOMAIN amount)

\* An order paid in two or three lines, each inside the window.
Split(cp, amt, d) ==
    \E parts \in [1..1 -> Portions] \cup [1..2 -> Portions] :
        LET k == Len(parts) + 1
            last == amt - TotalOf(parts)
        IN  /\ last > 0
            /\ Slot(10)
            /\ NotReserved
            /\ \E shift \in [1..k -> Shifts] :
                   Emit(<< <<Order(Ref, cp, amt, d), Match(Ref)>> >> \o
                        [j \in 1..k |->
                            <<Line(Ref, cp, IF j < k THEN parts[j] ELSE last,
                                   d + shift[j]),
                              Match(Ref)>>])

Reversal(cp, amt, d) ==
    \E later \in {0, 1} :
        /\ Slot(11)
        /\ reserve(cp, {Open(amt, d)}, {})
        /\ Emit(<< <<Order(Ref, cp, amt, d), Match(Ref)>>,
                   <<mkTx("psp", Ref, cp, amt, d + later, "debit"), Match(Ref)>> >>)

\* Order Ref is missing; a line that pays order RefY short has its amount.
MissingBesideShort(cp, full, d, shift) ==
    \E rate \in CutRates :
        LET part == full - ShortCut(full, rate)
        IN  /\ Slot(12)
            /\ reserve(cp, {Open(part, d), Open(full, d)}, {Open(part, d + shift)})
            /\ Emit(<< <<Order(Ref, cp, part, d), Injected("missing")>>,
                       <<Order(RefY, cp, full, d), Injected("partial")>>,
                       <<Line(RefY, cp, part, d + shift), Nothing>> >>)

\* Check A clears the day after check B was issued, and B nine days later.
LateChecks(cp, amt, d) ==
    /\ Slot(13)
    /\ reserve(cp, {Open(amt, d), Open(amt, d + 7)},
                   {Open(amt, d + 8), Open(amt, d + 16)})
    /\ Emit(<< <<Order(RefA, cp, amt, d), Injected("timing")>>,
               <<Order(RefB, cp, amt, d + 7), Injected("ambiguous")>>,
               <<Line(NoRef, cp, amt, d + 8), Injected("ambiguous")>>,
               <<Line(NoRef, cp, amt, d + 16), Nothing>> >>)

Clean(cp, amt, d, shift) ==
    /\ Slot(14)
    /\ NotReserved
    /\ Emit(CleanPair(cp, amt, d, shift))

-----------------------------------------------------------------------------
(* Marketplace groups, after the slots *)

\* Mutant: the payout line is not net of the commission.
GrossPayout(gross, commission, d) ==
    [mkTx("marketplace", PayoutRef, GroupSeller, gross, d, "credit")
        EXCEPT !.gross = gross, !.commission = commission]

Payout(gross, commission, d) ==
    [mkTx("marketplace", PayoutRef, GroupSeller, gross - commission, d, "credit")
        EXCEPT !.gross = gross, !.commission = commission]

\* The orders of a payout and, in an ambiguous group, a stray order of the
\* first one's amount.  A seller's second group starts 35 days later.
GroupRows(k, first, rate, stray, amount, offset) ==
    LET day == first + (IF groups >= GroupSellers THEN 35 ELSE 0)
        gross == TotalOf(amount)
        meant == IF stray = 1 THEN Injected("ambiguous") ELSE Match(PayoutRef)
        orders == [j \in 1..(k + stray) |->
                      <<Order(OrderRef(j), GroupSeller,
                              amount[IF j <= k THEN j ELSE 1],
                              day + offset[j]), meant>>]
        paid == Payout(gross, (gross * rate) \div 10000, day + 7)
    IN  orders \o << <<paid, meant>> >>

Group ==
    /\ slots.filled = budget.pairs
    /\ groups < budget.groups
    /\ \E k \in GroupSizes, first \in GroupDays, rate \in FeeRates,
          stray \in 0..1 :
       \E amount \in [1..k -> Amounts], offset \in [1..(k + stray) -> Offsets] :
           Emit(GroupRows(k, first, rate, stray, amount, offset))
    /\ groups' = groups + 1
    /\ UNCHANGED <<budget, slots, openExpected, openActual>>

-----------------------------------------------------------------------------
Next ==
    \/ \E cp \in Sellers, amt \in Amounts, d \in Days :
           \/ \E shift \in Shifts :
                  \/ Commission(cp, amt, d, shift)
                  \/ Partial(cp, amt, d, shift)
                  \/ Duplicate(cp, amt, d, shift)
                  \/ Refund(cp, amt, d, shift)
                  \/ Unknown(cp, amt, d, shift)
                  \/ Unreferenced(cp, amt, d, shift)
                  \/ TwoPairs(cp, amt, d, shift)
                  \/ MissingBesideShort(cp, amt, d, shift)
                  \/ Clean(cp, amt, d, shift)
           \/ Timing(cp, amt, d)
           \/ Missing(cp, amt, d)
           \/ Split(cp, amt, d)
           \/ Reversal(cp, amt, d)
           \/ LateChecks(cp, amt, d)
    \/ Group

Spec == Init /\ [][Next]_genVars

\* The book is complete.
Complete == slots.filled = budget.pairs /\ groups = budget.groups

-----------------------------------------------------------------------------
(* Correctness *)

\* Rows of one seller that different slots leave open, or without a reference,
\* are no payment of one another (generate.go:63-68).
KeptApart ==
    \A cp \in Sellers : \A e \in openExpected[cp], a \in openActual[cp] :
        e.slot # a.slot => ~inWindow(e, a)
=============================================================================
