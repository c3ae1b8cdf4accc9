--------------------------- MODULE BenchmarkProofs ---------------------------
(***************************************************************************)
(* Theorems about the generated books: what the benchmark takes for truth  *)
(* rests on rows of different slots never meeting, and on every injected   *)
(* fee staying inside the band by which the classifier knows a fee.        *)
(***************************************************************************)
EXTENDS Benchmark, EngineProofs

-----------------------------------------------------------------------------
(* Fees *)

\* A quotient is the number of times the divisor fits.
LEMMA Quotient ==
    ASSUME NEW n \in Nat, NEW d \in Nat \ {0}
    PROVE  /\ n \div d \in Nat
           /\ d * (n \div d) <= n
           /\ n < d * (n \div d) + d
    BY SMT

\* A quotient is at least, and below, what its dividend is of the divisor.
LEMMA QuotientBounds ==
    ASSUME NEW n \in Nat, NEW d \in Nat \ {0}, NEW k \in Nat
    PROVE  /\ d * k <= n => k <= n \div d
           /\ n < d * k => n \div d < k
<1> DEFINE q == n \div d
<1>1. q \in Nat /\ d * q <= n /\ n < d * q + d
    BY Quotient
<1> HIDE DEF q
<1>2. d * (q + 1) = d * q + d
    BY <1>1
<1>3. ASSUME NEW i \in Nat, NEW j \in Nat, d * i < d * j
      PROVE  i < j
    <2>1. CASE j <= i
        <3>1. PICK s \in Nat : i = j + s
            BY <2>1
        <3>2. d * i = d * j + d * s /\ d * s \in Nat
            BY <3>1
        <3> QED
            BY <3>2, <1>3
    <2> QED
        BY <2>1
<1>4. ASSUME d * k <= n PROVE k <= q
    BY <1>1, <1>2, <1>3, <1>4
<1>5. ASSUME n < d * k PROVE q < k
    BY <1>1, <1>3, <1>5
<1> QED
    BY <1>4, <1>5 DEF q

\* An amount is a natural number of three to five thousand lira at most.
LEMMA AmountType ==
    ASSUME NEW amt \in Amounts
    PROVE  amt \in Nat /\ amt >= 1000 /\ amt <= G!maxAmount
<1>1. G!minAmount = 1000 /\ G!maxAmount \in Nat
    BY SMT DEF G!minAmount, G!maxAmount
<1>2. amt \in G!minAmount..G!maxAmount
    BY BooksAssumption DEF G!DrawsAssumption
<1> QED
    BY <1>1, <1>2

\* The cut of every commission drawn for any amount shows, in whole basis
\* points, as a fee: one more kurus is enough where rounding fell below 8 %
\* (generate.go:120-127).
THEOREM FeeStaysInBand ==
    ASSUME NEW amt \in Amounts, NEW rate \in FeeRates
    PROVE  BasisPoints(G!FeeCut(amt, rate), amt)
               \in commissionMinBP..commissionMaxBP
<1>1. amt \in Nat /\ amt >= 1000 /\ rate \in 800..2499
    BY BooksAssumption, AmountType DEF G!DrawsAssumption
<1> DEFINE total == amt * rate
           cut == total \div 10000
<1>2. /\ total \in Nat
      /\ 800 * amt <= total /\ total <= 2499 * amt
    <2>1. PICK s \in Nat : rate = 800 + s
        BY <1>1
    <2>2. PICK t \in Nat : 2499 = rate + t
        BY <1>1
    <2>3. amt * rate = amt * 800 + amt * s /\ amt * s \in Nat
        BY <1>1, <2>1
    <2>4. amt * 2499 = amt * rate + amt * t /\ amt * t \in Nat
        BY <1>1, <2>2
    <2> QED
        BY <1>1, <2>3, <2>4
<1>3. /\ cut \in Nat
      /\ 10000 * cut <= total /\ total < 10000 * cut + 10000
    BY <1>2, Quotient, SMTT(20)
<1> HIDE DEF total, cut
<1>4. (cut * 10000) \div amt < 2500
    <2>1. cut * 10000 \in Nat /\ cut * 10000 < amt * 2500
        BY <1>1, <1>2, <1>3
    <2> QED
        BY <1>1, <2>1, QuotientBounds
<1>5. (cut * 10000) \div amt \in Nat
    BY <1>1, <1>3, Quotient
<1>6. CASE (cut * 10000) \div amt < 800
    <2>1. cut * 10000 < amt * 800
        <3>1. cut * 10000 \in Nat
            BY <1>3
        <3>2. ~ amt * 800 <= cut * 10000
            BY <1>1, <1>5, <1>6, <3>1, QuotientBounds
        <3> QED
            BY <1>1, <3>1, <3>2
    <2>2. /\ (cut + 1) * 10000 \in Nat
          /\ amt * 800 <= (cut + 1) * 10000
          /\ (cut + 1) * 10000 < amt * 2500
        BY <1>1, <1>2, <1>3, <2>1
    <2>3. ((cut + 1) * 10000) \div amt \in 800..2499
        <3>1. ((cut + 1) * 10000) \div amt \in Nat
            BY <1>1, <2>2, Quotient
        <3>2. 800 <= ((cut + 1) * 10000) \div amt
            BY <1>1, <2>2, QuotientBounds
        <3>3. ((cut + 1) * 10000) \div amt < 2500
            BY <1>1, <2>2, QuotientBounds
        <3> QED
            BY <3>1, <3>2, <3>3
    <2>4. G!FeeCut(amt, rate) = cut + 1
        BY <1>6 DEF G!FeeCut, cut, total
    <2> QED
        BY <2>3, <2>4 DEF BasisPoints, commissionMinBP, commissionMaxBP
<1>7. CASE ~ (cut * 10000) \div amt < 800
    <2>1. G!FeeCut(amt, rate) = cut
        BY <1>7 DEF G!FeeCut, cut, total
    <2> QED
        BY <1>4, <1>5, <1>7, <2>1 DEF BasisPoints, commissionMinBP, commissionMaxBP
<1> QED
    BY <1>6, <1>7

-----------------------------------------------------------------------------
(* Reserved rows *)

\* Whether two rows might meet depends on nothing that changes.
LEMMA MeetingIsFixed ==
    \A e, a : G!inWindow(e, a)' <=> G!inWindow(e, a)
    BY DEF G!inWindow, G!AbsDiff, G!TolerantLimit

\* The reserved rows are kept per seller.
BySeller ==
    /\ DOMAIN openExpected = Sellers
    /\ DOMAIN openActual = Sellers

ApartInv == BySeller /\ RowsKeptApart

\* A slot may reserve rows of its own that meet; reserve compares them with
\* those of all slots before.
LEMMA ReserveKeepsApart ==
    ASSUME ApartInv, NEW cp \in Sellers, NEW expected, NEW actual,
           \A e \in expected : e.slot = slots.filled,
           \A a \in actual : a.slot = slots.filled,
           G!reserve(cp, expected, actual)
    PROVE  ApartInv'
<1>1. BySeller'
    BY DEF ApartInv, BySeller, G!reserve
<1>2. ASSUME NEW q \in Sellers,
             NEW e \in openExpected'[q], NEW a \in openActual'[q],
             e.slot # a.slot
      PROVE  ~ G!inWindow(e, a)
    <2>1. CASE q # cp
        <3>1. e \in openExpected[q] /\ a \in openActual[q]
            BY <1>2, <2>1 DEF ApartInv, BySeller, G!reserve
        <3> QED
            BY <1>2, <3>1 DEF ApartInv, RowsKeptApart, G!KeptApart
    <2>2. CASE q = cp
        <3>1. /\ e \in openExpected[cp] \/ e \in expected
              /\ a \in openActual[cp] \/ a \in actual
            BY <1>2, <2>2 DEF ApartInv, BySeller, G!reserve
        <3>2. CASE e \in openExpected[cp] /\ a \in openActual[cp]
            BY <1>2, <3>2 DEF ApartInv, RowsKeptApart, G!KeptApart
        <3>3. CASE e \in expected /\ a \in openActual[cp]
            BY <3>3 DEF G!reserve
        <3>4. CASE e \in openExpected[cp] /\ a \in actual
            BY <3>4 DEF G!reserve
        <3>5. CASE e \in expected /\ a \in actual
            BY <1>2, <3>5
        <3> QED
            BY <3>1, <3>2, <3>3, <3>4, <3>5
    <2> QED
        BY <2>1, <2>2
<1>3. RowsKeptApart'
    BY <1>2, MeetingIsFixed DEF RowsKeptApart, G!KeptApart
<1> QED
    BY <1>1, <1>3 DEF ApartInv

\* What a slot opens is its own.
LEMMA OpenedBySlot ==
    \A amount, day : G!Open(amount, day).slot = slots.filled
    BY DEF G!Open

\* A step that reserves nothing keeps what is reserved.
LEMMA NothingReserved ==
    ASSUME ApartInv, UNCHANGED <<openExpected, openActual>>
    PROVE  ApartInv'
    BY MeetingIsFixed DEF ApartInv, BySeller, RowsKeptApart, G!KeptApart

\* A slot of any case keeps rows apart.
LEMMA SlotKeepsApart ==
    ASSUME ApartInv, NEW cp \in Sellers, NEW amt \in Amounts, NEW d \in Days,
           NEW shift \in Shifts,
           \/ G!Commission(cp, amt, d, shift) \/ G!Partial(cp, amt, d, shift)
           \/ G!Duplicate(cp, amt, d, shift) \/ G!Refund(cp, amt, d, shift)
           \/ G!Unknown(cp, amt, d, shift) \/ G!Unreferenced(cp, amt, d, shift)
           \/ G!TwoPairs(cp, amt, d, shift)
           \/ G!MissingBesideShort(cp, amt, d, shift)
           \/ G!Clean(cp, amt, d, shift)
    PROVE  ApartInv'
<1>1. CASE G!Commission(cp, amt, d, shift) \/ G!Partial(cp, amt, d, shift)
    <2>1. PICK cut : G!reserve(cp, {G!Open(amt, d)}, {G!Open(amt - cut, d + shift)})
        BY <1>1 DEF G!Commission, G!Partial, G!Short
    <2>2. \A e \in {G!Open(amt, d)} : e.slot = slots.filled
        BY OpenedBySlot
    <2>3. \A a \in {G!Open(amt - cut, d + shift)} : a.slot = slots.filled
        BY OpenedBySlot
    <2> QED
        BY <2>1, <2>2, <2>3, ReserveKeepsApart
<1>2. CASE G!Duplicate(cp, amt, d, shift)
    <2>1. G!reserve(cp, {G!Open(amt, d)}, {})
        BY <1>2 DEF G!Duplicate
    <2>2. \A e \in {G!Open(amt, d)} : e.slot = slots.filled
        BY OpenedBySlot
    <2> QED
        BY <2>1, <2>2, ReserveKeepsApart
<1>3. CASE \/ G!Refund(cp, amt, d, shift) \/ G!Unknown(cp, amt, d, shift)
           \/ G!Clean(cp, amt, d, shift)
    <2>1. UNCHANGED <<openExpected, openActual>>
        BY <1>3 DEF G!Refund, G!Unknown, G!Clean, G!NotReserved
    <2> QED
        BY <2>1, NothingReserved
<1>4. CASE \/ G!Unreferenced(cp, amt, d, shift) \/ G!TwoPairs(cp, amt, d, shift)
    <2>1. G!reserve(cp, {G!Open(amt, d)}, {G!Open(amt, d + shift)})
        BY <1>4 DEF G!Unreferenced, G!TwoPairs
    <2>2. \A e \in {G!Open(amt, d)} : e.slot = slots.filled
        BY OpenedBySlot
    <2>3. \A a \in {G!Open(amt, d + shift)} : a.slot = slots.filled
        BY OpenedBySlot
    <2> QED
        BY <2>1, <2>2, <2>3, ReserveKeepsApart
<1>5. CASE G!MissingBesideShort(cp, amt, d, shift)
    <2>1. PICK part :
              G!reserve(cp, {G!Open(part, d), G!Open(amt, d)},
                            {G!Open(part, d + shift)})
        BY <1>5 DEF G!MissingBesideShort
    <2>2. \A e \in {G!Open(part, d), G!Open(amt, d)} : e.slot = slots.filled
        BY OpenedBySlot
    <2>3. \A a \in {G!Open(part, d + shift)} : a.slot = slots.filled
        BY OpenedBySlot
    <2> QED
        BY <2>1, <2>2, <2>3, ReserveKeepsApart
<1> QED
    BY <1>1, <1>2, <1>3, <1>4, <1>5

\* So does one whose line, if any, comes later, or in parts.
LEMMA LateSlotKeepsApart ==
    ASSUME ApartInv, NEW cp \in Sellers, NEW amt \in Amounts, NEW d \in Days,
           \/ G!Timing(cp, amt, d) \/ G!Missing(cp, amt, d)
           \/ G!Split(cp, amt, d) \/ G!Reversal(cp, amt, d)
           \/ G!LateChecks(cp, amt, d)
    PROVE  ApartInv'
<1>1. CASE G!Timing(cp, amt, d)
    <2>1. PICK late : G!reserve(cp, {G!Open(amt, d)}, {G!Open(amt, d + late)})
        BY <1>1 DEF G!Timing
    <2>2. \A e \in {G!Open(amt, d)} : e.slot = slots.filled
        BY OpenedBySlot
    <2>3. \A a \in {G!Open(amt, d + late)} : a.slot = slots.filled
        BY OpenedBySlot
    <2> QED
        BY <2>1, <2>2, <2>3, ReserveKeepsApart
<1>2. CASE G!Missing(cp, amt, d) \/ G!Reversal(cp, amt, d)
    <2>1. G!reserve(cp, {G!Open(amt, d)}, {})
        BY <1>2 DEF G!Missing, G!Reversal
    <2>2. \A e \in {G!Open(amt, d)} : e.slot = slots.filled
        BY OpenedBySlot
    <2> QED
        BY <2>1, <2>2, ReserveKeepsApart
<1>3. CASE G!Split(cp, amt, d)
    <2>1. UNCHANGED <<openExpected, openActual>>
        BY <1>3 DEF G!Split, G!NotReserved
    <2> QED
        BY <2>1, NothingReserved
<1>4. CASE G!LateChecks(cp, amt, d)
    <2>1. G!reserve(cp, {G!Open(amt, d), G!Open(amt, d + 7)},
                        {G!Open(amt, d + 8), G!Open(amt, d + 16)})
        BY <1>4 DEF G!LateChecks
    <2>2. \A e \in {G!Open(amt, d), G!Open(amt, d + 7)} : e.slot = slots.filled
        BY OpenedBySlot
    <2>3. \A a \in {G!Open(amt, d + 8), G!Open(amt, d + 16)} : a.slot = slots.filled
        BY OpenedBySlot
    <2> QED
        BY <2>1, <2>2, <2>3, ReserveKeepsApart
<1> QED
    BY <1>1, <1>2, <1>3, <1>4

\* Before the first slot nothing is reserved.
LEMMA ApartStarts ==
    ASSUME BInit
    PROVE  ApartInv
<1>1. /\ openExpected = [cp \in Sellers |-> {}]
      /\ openActual = [cp \in Sellers |-> {}]
    BY DEF BInit, G!Init
<1> QED
    BY <1>1 DEF ApartInv, BySeller, RowsKeptApart, G!KeptApart

\* Every step keeps what the slots leave open apart.
LEMMA ApartStays ==
    ASSUME ApartInv, [BNext]_benchVars
    PROVE  ApartInv'
<1>1. CASE Generate
    <2>1. G!Next
        BY <1>1 DEF Generate
    <2>2. CASE G!Group
        <3>1. UNCHANGED <<openExpected, openActual>>
            BY <2>2 DEF G!Group
        <3> QED
            BY <3>1, NothingReserved
    <2>3. CASE ~ G!Group
        BY <2>1, <2>3, SlotKeepsApart, LateSlotKeepsApart DEF G!Next
    <2> QED
        BY <2>2, <2>3
<1>2. CASE Reconcile
    <2>1. UNCHANGED <<openExpected, openActual>>
        BY <1>2 DEF Reconcile
    <2> QED
        BY <2>1, NothingReserved
<1>3. CASE UNCHANGED benchVars
    <2>1. UNCHANGED <<openExpected, openActual>>
        BY <1>3 DEF benchVars
    <2> QED
        BY <2>1, NothingReserved
<1> QED
    BY <1>1, <1>2, <1>3 DEF BNext

\* However many slots a book has and whatever they draw, no order that one slot
\* leaves open might be taken for paid by the line of another (reserve,
\* generate.go:88-106).
THEOREM SlotsStayApart == BSpec => []RowsKeptApart
<1>1. BInit => ApartInv
    BY ApartStarts
<1>2. ApartInv /\ [BNext]_benchVars => ApartInv'
    BY ApartStays
<1>3. ApartInv => RowsKeptApart
    BY DEF ApartInv
<1> QED
    BY <1>1, <1>2, <1>3, PTL DEF BSpec

-----------------------------------------------------------------------------
(* Generated books are accepted *)

\* Limits of what is drawn.
LEMMA MostType ==
    /\ G!maxAmount \in Nat
    /\ MostOnRow \in Nat /\ MostOnRow = 8 * G!maxAmount
<1>1. G!maxAmount \in Nat
    BY SMT DEF G!maxAmount
<1> QED
    BY <1>1 DEF MostOnRow

\* The rows engine.Run takes: sound money, and no more than a payout's.
SoundRows ==
    {t \in Transaction : /\ ValidateMoney(t)
                         /\ t.amount + t.commission <= MostOnRow}

\* Rows as the generator draws them, with what is meant by each.
Truths ==
    {G!Nothing} \cup {G!Match(label) : label \in Nat}
        \cup {G!Injected(type) : type \in DiscrepancyTypes}

Drawn == SoundRows \X Truths

\* A book of at most n sound rows, numbered in the order they were emitted.
BookOfAtMost(n) ==
    /\ all \in Seq(Transaction)
    /\ Len(all) <= n
    /\ \A k \in DOMAIN all : all[k] \in SoundRows /\ all[k].id = k

\* Rows of the payment provider and of the bank.
LEMMA PlainRow ==
    ASSUME NEW source \in {"psp", "bank"}, NEW ref \in Nat, NEW cp \in Nat,
           NEW amount \in 0..MostOnRow, NEW d \in Int, NEW dir \in Directions
    PROVE  G!mkTx(source, ref, cp, amount, d, dir) \in SoundRows
<1> DEFINE t == G!mkTx(source, ref, cp, amount, d, dir)
<1>1. /\ t.id = 0 /\ t.source = source /\ t.ref = ref /\ t.cp = cp
      /\ t.currency = "TRY" /\ t.amount = amount /\ t.day = d /\ t.dir = dir
      /\ t.gross = 0 /\ t.commission = 0
    BY DEF G!mkTx
<1>2. t \in Transaction
    BY DEF G!mkTx, Transaction, Sources, Currencies
<1>3. amount \in Nat /\ amount <= MostOnRow /\ source # "marketplace"
    BY MostType
<1> HIDE DEF t
<1>4. t \in SoundRows
    BY <1>1, <1>2, <1>3 DEF SoundRows, ValidateMoney
<1> QED
    BY <1>4 DEF t

\* A payout is net of its commission.
LEMMA PayoutRow ==
    ASSUME NEW gross \in 0..MostOnRow, NEW commission \in 0..gross, NEW d \in Int,
           budget.pairs \in Nat, budget.groups \in Nat, groups \in Nat
    PROVE  G!Payout(gross, commission, d) \in SoundRows
<1> DEFINE t == G!Payout(gross, commission, d)
<1>0. GroupSellers \in Nat \ {0}
    BY BooksAssumption DEF G!DrawsAssumption
<1>1. /\ groups % GroupSellers \in Nat
      /\ G!PayoutRef \in Nat
    BY <1>0 DEF G!PayoutRef
<1>2. gross \in Nat /\ commission \in Nat /\ commission <= gross
      /\ gross <= MostOnRow
    BY MostType
<1> DEFINE u == G!mkTx("marketplace", G!PayoutRef, groups % GroupSellers,
                       gross - commission, d, "credit")
<1>3. /\ u \in Transaction /\ u.source = "marketplace" /\ u.currency = "TRY"
      /\ u.amount = gross - commission
    BY <1>1, <1>2 DEF G!mkTx, Transaction, Sources, Currencies, Directions
<1>4. t = [u EXCEPT !.gross = gross, !.commission = commission]
    BY DEF G!Payout, G!GroupSeller
<1> HIDE DEF t, u
<1>5. t \in Transaction
    <2>1. gross \in Int /\ commission \in Int
        BY <1>2
    <2> QED
        BY <1>3, <1>4, <2>1 DEF Transaction
<1>6. /\ t.source = "marketplace" /\ t.currency = "TRY"
      /\ t.amount = gross - commission /\ t.gross = gross
      /\ t.commission = commission
    BY <1>2, <1>3, <1>4 DEF Transaction
<1>7. t \in SoundRows
    BY <1>2, <1>5, <1>6 DEF SoundRows, ValidateMoney
<1> QED
    BY <1>7 DEF t

\* The rows of one slot or group join the book.
LEMMA EmitSound ==
    ASSUME NEW n \in Nat, BookOfAtMost(n), NEW c \in Nat,
           NEW drawn \in Seq(Drawn), Len(drawn) <= c, G!Emit(drawn)
    PROVE  BookOfAtMost(n + c)'
<1> DEFINE new == [k \in DOMAIN drawn |->
                      [drawn[k][1] EXCEPT !.id = Len(all) + k]]
<1>1. all \in Seq(Transaction) /\ Len(all) \in Nat /\ Len(drawn) \in Nat
    BY DEF BookOfAtMost
<1>2. ASSUME NEW k \in DOMAIN drawn
      PROVE  new[k] \in SoundRows /\ new[k].id = Len(all) + k
    <2> DEFINE t == drawn[k][1]
    <2>1. t \in SoundRows
        BY DEF Drawn
    <2>2. Len(all) + k \in Nat /\ new[k] = [t EXCEPT !.id = Len(all) + k]
        BY <1>1
    <2> HIDE DEF t, new
    <2>3. new[k] \in Transaction /\ new[k].id = Len(all) + k
        BY <2>1, <2>2 DEF SoundRows, Transaction
    <2>4. /\ new[k].currency = t.currency /\ new[k].amount = t.amount
          /\ new[k].gross = t.gross /\ new[k].commission = t.commission
          /\ new[k].source = t.source
        BY <2>1, <2>2 DEF SoundRows, Transaction
    <2> QED
        BY <2>1, <2>3, <2>4 DEF SoundRows, ValidateMoney
<1>3. new \in Seq(Transaction) /\ Len(new) = Len(drawn)
    <2>1. DOMAIN new = 1..Len(drawn)
        OBVIOUS
    <2>2. \A k \in 1..Len(drawn) : new[k] \in Transaction
        BY <1>2 DEF SoundRows
    <2> HIDE DEF new
    <2>3. new \in [1..Len(drawn) -> Transaction]
        <3>1. new = [k \in 1..Len(drawn) |-> new[k]]
            BY <2>1 DEF new
        <3> QED
            BY <2>2, <3>1
    <2> QED
        BY <1>1, <2>3
<1>4. all' = all \o new
    BY DEF G!Emit
<1> HIDE DEF new
<1>5. /\ all' \in Seq(Transaction) /\ Len(all') = Len(all) + Len(drawn)
      /\ \A k \in 1..Len(all') :
             all'[k] = IF k <= Len(all) THEN all[k] ELSE new[k - Len(all)]
    <2>1. /\ all \o new \in Seq(Transaction)
          /\ Len(all \o new) = Len(all) + Len(new)
          /\ \A k \in 1..Len(all) + Len(new) :
                 (all \o new)[k] = IF k <= Len(all) THEN all[k]
                                   ELSE new[k - Len(all)]
        BY <1>1, <1>3, ConcatProperties
    <2> QED
        BY <1>3, <1>4, <2>1
<1>6. Len(all') <= n + c
    BY <1>1, <1>5 DEF BookOfAtMost
<1>7. ASSUME NEW k \in DOMAIN all'
      PROVE  all'[k] \in SoundRows /\ all'[k].id = k
    <2>1. k \in 1..Len(all')
        BY <1>5
    <2>2. CASE k <= Len(all)
        BY <1>1, <1>5, <2>1, <2>2 DEF BookOfAtMost
    <2>3. CASE ~ k <= Len(all)
        <3>1. k - Len(all) \in DOMAIN drawn
            BY <1>1, <1>5, <2>1, <2>3
        <3> QED
            BY <1>1, <1>2, <1>5, <2>1, <2>3, <3>1
    <2> QED
        BY <2>2, <2>3
<1>8. SoundRows' = SoundRows
    BY DEF SoundRows
<1> QED
    BY <1>5, <1>6, <1>7, <1>8 DEF BookOfAtMost

\* Short lists are sequences.
LEMMA ShortLists ==
    ASSUME NEW S, NEW a \in S, NEW b \in S, NEW c \in S, NEW e \in S
    PROVE  /\ <<a>> \in Seq(S) /\ Len(<<a>>) = 1
           /\ <<a, b>> \in Seq(S) /\ Len(<<a, b>>) = 2
           /\ <<a, b, c>> \in Seq(S) /\ Len(<<a, b, c>>) = 3
           /\ <<a, b, c, e>> \in Seq(S) /\ Len(<<a, b, c, e>>) = 4
OBVIOUS

\* A function on the first n numbers is a sequence of length n.
LEMMA FunctionIsList ==
    ASSUME NEW S, NEW n \in Nat, NEW f \in [1..n -> S]
    PROVE  f \in Seq(S) /\ Len(f) = n
OBVIOUS

\* What a step of the generator has to say about the book.
Emits(n) == \E drawn \in Seq(Drawn) : Len(drawn) <= n /\ G!Emit(drawn)

\* Two lists, one after the other.
LEMMA JoinedLists ==
    ASSUME NEW a \in Seq(Drawn), NEW b \in Seq(Drawn), NEW n \in Nat,
           Len(a) + Len(b) <= n, G!Emit(a \o b)
    PROVE  Emits(n)
<1>1. a \o b \in Seq(Drawn) /\ Len(a \o b) = Len(a) + Len(b)
    BY ConcatProperties
<1> QED
    BY <1>1 DEF Emits

\* A list of rows given one by one.
LEMMA ListedRows ==
    ASSUME NEW a \in Drawn, NEW b \in Drawn, NEW c \in Drawn, NEW e \in Drawn
    PROVE  /\ G!Emit(<<a>>) => Emits(4)
           /\ G!Emit(<<a, b>>) => Emits(4)
           /\ G!Emit(<<a, b, c>>) => Emits(4)
           /\ G!Emit(<<a, b, c, e>>) => Emits(4)
<1>1. /\ <<a>> \in Seq(Drawn) /\ Len(<<a>>) <= 4
      /\ <<a, b>> \in Seq(Drawn) /\ Len(<<a, b>>) <= 4
      /\ <<a, b, c>> \in Seq(Drawn) /\ Len(<<a, b, c>>) <= 4
      /\ <<a, b, c, e>> \in Seq(Drawn) /\ Len(<<a, b, c, e>>) <= 4
    BY ShortLists
<1>2. ASSUME NEW x \in Seq(Drawn), Len(x) <= 4, G!Emit(x)
      PROVE  Emits(4)
    BY <1>2 DEF Emits
<1> QED
    BY <1>1, <1>2

\* References are numbers, and what may be meant has a name.
LEMMA RefTypes ==
    ASSUME budget.pairs \in Nat, budget.groups \in Nat,
           slots.filled \in Nat, groups \in Nat
    PROVE  /\ G!Ref \in Nat /\ G!RefA \in Nat /\ G!RefB \in Nat
           /\ G!RefY \in Nat /\ G!AlienRef \in Nat /\ NoRef \in Nat
           /\ G!PayoutRef \in Nat /\ \A j \in Nat : G!OrderRef(j) \in Nat
           /\ G!Stranger \in Nat /\ G!GroupSeller \in Nat
<1>1. GroupSellers \in Nat \ {0}
    BY BooksAssumption DEF G!DrawsAssumption
<1>2. groups % GroupSellers \in Nat
    BY <1>1
<1>3. /\ G!Ref \in Nat /\ G!AlienRef \in Nat /\ NoRef \in Nat
      /\ G!PayoutRef \in Nat
    BY DEF G!Ref, G!AlienRef, NoRef, G!PayoutRef
<1>4. G!RefA \in Nat /\ G!RefB \in Nat /\ G!RefY \in Nat
    BY <1>3 DEF G!RefA, G!RefB, G!RefY
<1>5. ASSUME NEW j \in Nat PROVE G!OrderRef(j) \in Nat
    BY DEF G!OrderRef
<1>6. G!Stranger \in Nat /\ G!GroupSeller \in Nat
    BY <1>1, <1>2 DEF G!Stranger, G!GroupSeller
<1> QED
    BY <1>3, <1>4, <1>5, <1>6

\* Both modules speak of the same missing reference.
LEMMA NoRefNamed == G!NoRef = NoRef
BY DEF G!NoRef, NoRef

\* Orders, lines and debits with what is meant by them.
LEMMA DrawnRow ==
    ASSUME NEW ref \in Nat, NEW cp \in Nat, NEW amount \in 0..MostOnRow,
           NEW d \in Int, NEW t \in Truths
    PROVE  /\ <<G!Order(ref, cp, amount, d), t>> \in Drawn
           /\ <<G!Line(ref, cp, amount, d), t>> \in Drawn
           /\ <<G!mkTx("bank", ref, cp, amount, d, "debit"), t>> \in Drawn
           /\ <<G!mkTx("psp", ref, cp, amount, d, "debit"), t>> \in Drawn
<1>1. "credit" \in Directions /\ "debit" \in Directions
    BY DEF Directions
<1>2. /\ G!mkTx("psp", ref, cp, amount, d, "credit") \in SoundRows
      /\ G!mkTx("bank", ref, cp, amount, d, "credit") \in SoundRows
      /\ G!mkTx("bank", ref, cp, amount, d, "debit") \in SoundRows
      /\ G!mkTx("psp", ref, cp, amount, d, "debit") \in SoundRows
    BY <1>1, PlainRow
<1> QED
    BY <1>2 DEF Drawn, G!Order, G!Line

\* What a row may be meant as.
LEMMA TruthNames ==
    /\ G!Nothing \in Truths
    /\ \A label \in Nat : G!Match(label) \in Truths
    /\ \A type \in DiscrepancyTypes : G!Injected(type) \in Truths
BY SMTT(20) DEF Truths

\* The bounds of each draw.
LEMMA DrawBounds ==
    /\ GroupSellers \in Nat \ {0}
    /\ \A cp \in Sellers : cp \in GroupSellers..(GroupSellers + 299)
    /\ \A d \in Days : d \in 0..29
    /\ \A shift \in Shifts : shift \in 0..3
    /\ \A late \in Delays : late \in 4..10
    /\ \A rate \in FeeRates : rate \in 800..2499
    /\ \A rate \in CutRates : rate \in 3000..6999
    /\ \A part \in Portions : part \in Nat \ {0}
    /\ \A k \in GroupSizes : k \in 2..8
    /\ \A first \in GroupDays : first \in 0..19
    /\ \A off \in Offsets : off \in 0..4
<1>1. G!DrawsAssumption
    BY BooksAssumption
<1>2. GroupSellers \in Nat \ {0}
    BY <1>1 DEF G!DrawsAssumption
<1>3. ASSUME NEW cp \in Sellers PROVE cp \in GroupSellers..(GroupSellers + 299)
    BY <1>1 DEF G!DrawsAssumption
<1>4. ASSUME NEW d \in Days PROVE d \in 0..29
    BY <1>1 DEF G!DrawsAssumption
<1>5. ASSUME NEW shift \in Shifts PROVE shift \in 0..3
    BY <1>1 DEF G!DrawsAssumption
<1>6. ASSUME NEW late \in Delays PROVE late \in 4..10
    BY <1>1, SMTT(20) DEF G!DrawsAssumption
<1>7. ASSUME NEW rate \in FeeRates PROVE rate \in 800..2499
    BY <1>1 DEF G!DrawsAssumption
<1>8. ASSUME NEW rate \in CutRates PROVE rate \in 3000..6999
    BY <1>1 DEF G!DrawsAssumption
<1>9. ASSUME NEW part \in Portions PROVE part \in Nat \ {0}
    BY <1>1 DEF G!DrawsAssumption
<1>10. ASSUME NEW k \in GroupSizes PROVE k \in 2..8
    BY <1>1 DEF G!DrawsAssumption
<1>11. ASSUME NEW first \in GroupDays PROVE first \in 0..19
    BY <1>1 DEF G!DrawsAssumption
<1>12. ASSUME NEW off \in Offsets PROVE off \in 0..4
    BY <1>1 DEF G!DrawsAssumption
<1> QED
    BY <1>2, <1>3, <1>4, <1>5, <1>6, <1>7, <1>8, <1>9, <1>10, <1>11, <1>12, Zenon

\* What is drawn for a slot.
LEMMA DrawTypes ==
    ASSUME NEW cp \in Sellers, NEW amt \in Amounts, NEW d \in Days
    PROVE  /\ cp \in Nat /\ amt \in Nat /\ amt >= 1000 /\ d \in Int
           /\ \A x \in 0..amt : x \in 0..MostOnRow
           /\ \A shift \in Shifts : shift \in Int
           /\ \A late \in Delays : late \in Int
<1>1. /\ GroupSellers \in Nat /\ cp \in GroupSellers..(GroupSellers + 299)
      /\ d \in 0..29
      /\ \A shift \in Shifts : shift \in 0..3
      /\ \A late \in Delays : late \in 4..10
    BY DrawBounds
<1>2. amt \in Nat /\ amt >= 1000 /\ amt <= MostOnRow
    BY AmountType, MostType
<1> QED
    BY <1>1, <1>2, MostType

\* A cut leaves something of the amount.
LEMMA CutTypes ==
    ASSUME NEW amt \in Amounts
    PROVE  /\ \A rate \in FeeRates : G!FeeCut(amt, rate) \in 0..amt
           /\ \A rate \in CutRates : G!ShortCut(amt, rate) \in 0..amt
<1>1. amt \in Nat /\ amt >= 1000
    BY AmountType
<1>3. ASSUME NEW rate \in Nat, rate < 10000
      PROVE  /\ (amt * rate) \div 10000 \in Nat
             /\ (amt * rate) \div 10000 < amt
    <2>1. PICK s \in Nat : 10000 = rate + s /\ s > 0
        BY <1>3
    <2>2. /\ amt * 10000 = amt * rate + amt * s
          /\ amt * rate \in Nat /\ amt * s \in Nat
        BY <1>1, <2>1
    <2>3. amt * s > 0
        <3>1. PICK r \in Nat : s = r + 1
            BY <2>1
        <3>2. amt * s = amt * r + amt /\ amt * r \in Nat
            BY <1>1, <3>1
        <3> QED
            BY <1>1, <3>2
    <2>4. amt * rate < 10000 * amt
        BY <1>1, <2>2, <2>3
    <2> QED
        BY <1>1, <2>2, <2>4, Quotient, QuotientBounds
<1>4. ASSUME NEW rate \in FeeRates
      PROVE  G!FeeCut(amt, rate) \in 0..amt
    <2>1. rate \in Nat /\ rate < 10000
        <3>1. rate \in 800..2499
            BY BooksAssumption, SMTT(20) DEF G!DrawsAssumption
        <3> QED
            BY <3>1
    <2> DEFINE cut == (amt * rate) \div 10000
    <2>2. G!FeeCut(amt, rate) \in {cut, cut + 1}
        BY DEF G!FeeCut
    <2>3. cut \in Nat /\ cut < amt
        BY <1>3, <2>1
    <2> HIDE DEF cut
    <2> QED
        BY <1>1, <2>2, <2>3
<1>5. ASSUME NEW rate \in CutRates
      PROVE  G!ShortCut(amt, rate) \in 0..amt
    <2>1. rate \in Nat /\ rate < 10000
        <3>1. rate \in 3000..6999
            BY BooksAssumption DEF G!DrawsAssumption
        <3> QED
            BY <3>1
    <2> QED
        BY <1>1, <1>3, <2>1 DEF G!ShortCut
<1> QED
    BY <1>4, <1>5

\* A slot of any case emits up to four sound rows.
LEMMA SlotEmits ==
    ASSUME budget.pairs \in Nat, budget.groups \in Nat,
           slots.filled \in Nat, groups \in Nat, NEW cp \in Sellers,
           NEW amt \in Amounts, NEW d \in Days, NEW shift \in Shifts,
           \/ G!Commission(cp, amt, d, shift) \/ G!Partial(cp, amt, d, shift)
           \/ G!Duplicate(cp, amt, d, shift) \/ G!Refund(cp, amt, d, shift)
           \/ G!Unknown(cp, amt, d, shift) \/ G!Unreferenced(cp, amt, d, shift)
           \/ G!TwoPairs(cp, amt, d, shift)
           \/ G!MissingBesideShort(cp, amt, d, shift)
           \/ G!Clean(cp, amt, d, shift)
    PROVE  Emits(4) /\ \E case : G!Slot(case)
<1>1. /\ cp \in Nat /\ amt \in Nat /\ amt >= 1000 /\ d \in Int /\ shift \in Int
      /\ \A x \in 0..amt : x \in 0..MostOnRow
      /\ d + shift \in Int /\ d + shift + 2 \in Int /\ amt \in 0..MostOnRow
    BY DrawTypes
<1>2. /\ G!Ref \in Nat /\ G!RefA \in Nat /\ G!RefB \in Nat /\ G!RefY \in Nat
      /\ G!AlienRef \in Nat /\ G!NoRef \in Nat /\ G!Stranger \in Nat
    BY RefTypes, NoRefNamed
<1>3. /\ G!Nothing \in Truths /\ G!Match(G!Ref) \in Truths
      /\ \A type \in DiscrepancyTypes : G!Injected(type) \in Truths
    BY <1>2, TruthNames
<1>4. \A a, b, c, e \in Drawn :
          /\ <<a, b>> \in Seq(Drawn) /\ Len(<<a, b>>) = 2
          /\ <<a, b, c>> \in Seq(Drawn) /\ Len(<<a, b, c>>) = 3
          /\ <<a>> \in Seq(Drawn) /\ Len(<<a>>) = 1
          /\ <<a, b, c, e>> \in Seq(Drawn) /\ Len(<<a, b, c, e>>) = 4
    BY ShortLists
<1>5. /\ <<G!Order(G!Ref, cp, amt, d), G!Match(G!Ref)>> \in Drawn
      /\ <<G!Line(G!Ref, cp, amt, d + shift), G!Match(G!Ref)>> \in Drawn
    BY <1>1, <1>2, <1>3, DrawnRow, Zenon
<1>6. G!CleanPair(cp, amt, d, shift) \in Seq(Drawn)
          /\ Len(G!CleanPair(cp, amt, d, shift)) = 2
    BY <1>4, <1>5 DEF G!CleanPair
<1>7. /\ "commission" \in DiscrepancyTypes /\ "partial" \in DiscrepancyTypes
      /\ "duplicate" \in DiscrepancyTypes /\ "refund" \in DiscrepancyTypes
      /\ "unknown" \in DiscrepancyTypes /\ "ambiguous" \in DiscrepancyTypes
      /\ "missing" \in DiscrepancyTypes
    BY DEF DiscrepancyTypes
<1>8. ASSUME NEW case, NEW type \in DiscrepancyTypes, NEW cut \in 0..amt,
             G!Short(case, type, cp, amt, cut, d, shift)
      PROVE  Emits(4) /\ G!Slot(case)
    <2> DEFINE order == <<G!Order(G!Ref, cp, amt, d), G!Injected(type)>>
               line == <<G!Line(G!Ref, cp, amt - cut, d + shift), G!Nothing>>
    <2>1. amt - cut \in 0..MostOnRow
        BY <1>1
    <2>2. order \in Drawn /\ line \in Drawn
        BY <1>1, <1>2, <1>3, <2>1, DrawnRow, Zenon
    <2>3. G!Slot(case) /\ G!Emit(<<order, line>>)
        BY <1>8 DEF G!Short
    <2> HIDE DEF order, line
    <2> QED
        BY <2>2, <2>3, ListedRows
<1>9. CASE G!Commission(cp, amt, d, shift)
    <2>1. PICK rate \in FeeRates :
              G!Short(0, "commission", cp, amt, G!FeeCut(amt, rate), d, shift)
        BY <1>9 DEF G!Commission
    <2>2. G!FeeCut(amt, rate) \in 0..amt
        BY CutTypes
    <2> QED
        BY <1>7, <1>8, <2>1, <2>2
<1>10. CASE G!Partial(cp, amt, d, shift)
    <2>1. PICK rate \in CutRates :
              G!Short(1, "partial", cp, amt, G!ShortCut(amt, rate), d, shift)
        BY <1>10 DEF G!Partial
    <2>2. G!ShortCut(amt, rate) \in 0..amt
        BY CutTypes
    <2> QED
        BY <1>7, <1>8, <2>1, <2>2
<1>11. CASE G!Duplicate(cp, amt, d, shift)
    <2> DEFINE order == <<G!Order(G!Ref, cp, amt, d), G!Match(G!Ref)>>
               again == <<G!Order(G!Ref, cp, amt, d), G!Injected("duplicate")>>
               line == <<G!Line(G!Ref, cp, amt, d + shift), G!Match(G!Ref)>>
    <2>1. order \in Drawn /\ line \in Drawn
        BY <1>5
    <2>2. again \in Drawn
        BY <1>1, <1>2, <1>3, <1>7, DrawnRow, Zenon
    <2>3. G!Slot(3) /\ G!Emit(<<order, again, line>>)
        BY <1>11 DEF G!Duplicate
    <2> HIDE DEF order, again, line
    <2> QED
        BY <2>1, <2>2, <2>3, ListedRows
<1>12. CASE G!Refund(cp, amt, d, shift)
    <2> DEFINE debit == <<G!mkTx("bank", G!Ref, cp, amt, d + shift + 2, "debit"),
                          G!Injected("refund")>>
    <2>1. debit \in Drawn
        BY <1>1, <1>2, <1>3, <1>7, DrawnRow, Zenon
    <2>2. /\ G!Emit(G!CleanPair(cp, amt, d, shift) \o <<debit>>)
          /\ G!Slot(5)
        BY <1>12 DEF G!Refund
    <2> HIDE DEF debit
    <2>3. <<debit>> \in Seq(Drawn) /\ Len(<<debit>>) = 1
        BY <1>4, <2>1
    <2>4. Emits(4)
        <3> DEFINE pair == G!CleanPair(cp, amt, d, shift)
                   rest == <<debit>>
        <3>1. /\ pair \in Seq(Drawn) /\ rest \in Seq(Drawn)
              /\ Len(pair) + Len(rest) <= 4 /\ 4 \in Nat
              /\ G!Emit(pair \o rest)
            BY <1>6, <2>2, <2>3
        <3> HIDE DEF pair, rest
        <3> QED
            BY <3>1, JoinedLists, Zenon
    <2> QED
        BY <2>2, <2>4
<1>13. CASE G!Unknown(cp, amt, d, shift)
    <2>1. PICK amt2 \in Amounts, d2 \in Days :
              G!Emit(G!CleanPair(cp, amt, d, shift) \o
                     << <<G!Line(G!AlienRef, G!Stranger, amt2, d2),
                          G!Injected("unknown")>> >>)
        BY <1>13 DEF G!Unknown
    <2> DEFINE line == <<G!Line(G!AlienRef, G!Stranger, amt2, d2),
                         G!Injected("unknown")>>
    <2>2. amt2 \in 0..MostOnRow /\ d2 \in Int
        <3>1. amt2 \in Nat /\ d2 \in Int /\ \A x \in 0..amt2 : x \in 0..MostOnRow
            BY DrawTypes
        <3> QED
            BY <3>1
    <2>3. line \in Drawn
        BY <1>2, <1>3, <1>7, <2>2, DrawnRow
    <2>4. G!Emit(G!CleanPair(cp, amt, d, shift) \o <<line>>) /\ G!Slot(7)
        BY <1>13, <2>1 DEF G!Unknown
    <2> HIDE DEF line
    <2>5. <<line>> \in Seq(Drawn) /\ Len(<<line>>) = 1
        BY <1>4, <2>3
    <2>6. Emits(4)
        <3> DEFINE pair == G!CleanPair(cp, amt, d, shift)
                   rest == <<line>>
        <3>1. /\ pair \in Seq(Drawn) /\ rest \in Seq(Drawn)
              /\ Len(pair) + Len(rest) <= 4 /\ 4 \in Nat
              /\ G!Emit(pair \o rest)
            BY <1>6, <2>4, <2>5
        <3> HIDE DEF pair, rest
        <3> QED
            BY <3>1, JoinedLists, Zenon
    <2> QED
        BY <2>4, <2>6
<1>14. CASE G!Unreferenced(cp, amt, d, shift)
    <2> DEFINE order == <<G!Order(G!Ref, cp, amt, d), G!Match(G!Ref)>>
               line == <<G!Line(G!NoRef, cp, amt, d + shift), G!Match(G!Ref)>>
    <2>1. order \in Drawn
        BY <1>5
    <2>2. line \in Drawn
        BY <1>1, <1>2, <1>3, DrawnRow, Zenon
    <2>3. G!Slot(8) /\ G!Emit(<<order, line>>)
        BY <1>14 DEF G!Unreferenced
    <2> HIDE DEF order, line
    <2> QED
        BY <2>1, <2>2, <2>3, ListedRows
<1>15. CASE G!TwoPairs(cp, amt, d, shift)
    <2> DEFINE orderA == <<G!Order(G!RefA, cp, amt, d), G!Injected("ambiguous")>>
               orderB == <<G!Order(G!RefB, cp, amt, d), G!Injected("ambiguous")>>
               line == <<G!Line(G!NoRef, cp, amt, d + shift),
                         G!Injected("ambiguous")>>
    <2>1. orderA \in Drawn /\ orderB \in Drawn /\ line \in Drawn
        BY <1>1, <1>2, <1>3, <1>7, DrawnRow, Zenon
    <2>2. G!Slot(9) /\ G!Emit(<<orderA, line, orderB, line>>)
        BY <1>15 DEF G!TwoPairs
    <2> HIDE DEF orderA, orderB, line
    <2> QED
        BY <2>1, <2>2, ListedRows
<1>16. CASE G!MissingBesideShort(cp, amt, d, shift)
    <2>1. PICK rate \in CutRates :
              LET part == amt - G!ShortCut(amt, rate)
              IN  /\ G!Slot(12)
                  /\ G!Emit(<< <<G!Order(G!Ref, cp, part, d),
                                 G!Injected("missing")>>,
                               <<G!Order(G!RefY, cp, amt, d),
                                 G!Injected("partial")>>,
                               <<G!Line(G!RefY, cp, part, d + shift),
                                 G!Nothing>> >>)
        BY <1>16 DEF G!MissingBesideShort
    <2> DEFINE part == amt - G!ShortCut(amt, rate)
               order == <<G!Order(G!Ref, cp, part, d), G!Injected("missing")>>
               orderY == <<G!Order(G!RefY, cp, amt, d), G!Injected("partial")>>
               line == <<G!Line(G!RefY, cp, part, d + shift), G!Nothing>>
    <2>2. part \in 0..MostOnRow
        <3>1. G!ShortCut(amt, rate) \in 0..amt
            BY CutTypes
        <3> QED
            BY <1>1, <3>1
    <2> HIDE DEF part
    <2>3. order \in Drawn /\ orderY \in Drawn /\ line \in Drawn
        BY <1>1, <1>2, <1>3, <1>7, <2>2, DrawnRow, Zenon
    <2>4. G!Slot(12) /\ G!Emit(<<order, orderY, line>>)
        BY <2>1 DEF part
    <2> HIDE DEF order, orderY, line
    <2> QED
        BY <2>3, <2>4, ListedRows
<1>17. CASE G!Clean(cp, amt, d, shift)
    <2> DEFINE pair == G!CleanPair(cp, amt, d, shift)
    <2>1. G!Slot(14) /\ G!Emit(pair)
        BY <1>17 DEF G!Clean
    <2>2. pair \in Seq(Drawn) /\ Len(pair) <= 4
        BY <1>6
    <2> HIDE DEF pair
    <2> QED
        BY <2>1, <2>2 DEF Emits
<1> QED
    BY <1>9, <1>10, <1>11, <1>12, <1>13, <1>14, <1>15, <1>16, <1>17

\* g holds the totals of the parts of a list of amounts.
DrawnTotals(amount, g) ==
    g = [s \in SUBSET DOMAIN amount |->
            IF s = {} THEN 0
            ELSE amount[CHOOSE x \in s : TRUE] + g[s \ {CHOOSE x \in s : TRUE}]]

\* What the generator adds up is read off such a function.
LEMMA DrawnTotalsMeaning ==
    ASSUME NEW amount, NEW g, DrawnTotals(amount, g)
    PROVE  \E h : DrawnTotals(amount, h) /\ h[DOMAIN amount] = G!TotalOf(amount)
BY DEF DrawnTotals, G!TotalOf, G!MapThenSumSet, G!MapThenFoldSet

\* So it is a sum.
LEMMA DrawnTotal ==
    ASSUME NEW amount, IsFiniteSet(DOMAIN amount)
    PROVE  G!TotalOf(amount) = Sum(amount, DOMAIN amount)
<1>1. PICK g : Sums(amount, g, SUBSET DOMAIN amount)
    BY SumMeaning
<1>2. \A h : DrawnTotals(amount, h) <=> Sums(amount, h, SUBSET DOMAIN amount)
    BY DEF DrawnTotals, Sums, Added, Some
<1>3. PICK h : /\ DrawnTotals(amount, h)
               /\ h[DOMAIN amount] = G!TotalOf(amount)
    BY <1>1, <1>2, DrawnTotalsMeaning
<1> QED
    BY <1>2, <1>3, SumMeaning

\* So does one whose line, if any, comes late or in parts.
LEMMA LateSlotEmits ==
    ASSUME budget.pairs \in Nat, budget.groups \in Nat,
           slots.filled \in Nat, groups \in Nat, NEW cp \in Sellers,
           NEW amt \in Amounts, NEW d \in Days,
           \/ G!Timing(cp, amt, d) \/ G!Missing(cp, amt, d)
           \/ G!Split(cp, amt, d) \/ G!Reversal(cp, amt, d)
           \/ G!LateChecks(cp, amt, d)
    PROVE  Emits(4) /\ \E case : G!Slot(case)
<1>1. /\ cp \in Nat /\ amt \in Nat /\ amt >= 1000 /\ d \in Int
      /\ \A x \in 0..amt : x \in 0..MostOnRow
      /\ amt \in 0..MostOnRow
    BY DrawTypes
<1>2. /\ G!Ref \in Nat /\ G!RefA \in Nat /\ G!RefB \in Nat
      /\ G!NoRef \in Nat
    BY RefTypes, NoRefNamed
<1>3. /\ G!Nothing \in Truths /\ G!Match(G!Ref) \in Truths
      /\ G!Injected("timing") \in Truths /\ G!Injected("missing") \in Truths
      /\ G!Injected("ambiguous") \in Truths
    <2>1. \A type \in DiscrepancyTypes : G!Injected(type) \in Truths
        BY TruthNames
    <2> QED
        BY <1>2, <2>1, TruthNames DEF DiscrepancyTypes
<1>4. CASE G!Timing(cp, amt, d)
    <2>1. PICK late \in Delays :
              /\ G!Slot(2)
              /\ G!Emit(<< <<G!Order(G!Ref, cp, amt, d), G!Injected("timing")>>,
                           <<G!Line(G!Ref, cp, amt, d + late), G!Nothing>> >>)
        BY <1>4 DEF G!Timing
    <2> DEFINE order == <<G!Order(G!Ref, cp, amt, d), G!Injected("timing")>>
               line == <<G!Line(G!Ref, cp, amt, d + late), G!Nothing>>
    <2>2. d + late \in Int
        <3>1. late \in Int
            BY DrawTypes
        <3> QED
            BY <1>1, <3>1
    <2>3. order \in Drawn /\ line \in Drawn
        BY <1>1, <1>2, <1>3, <2>2, DrawnRow, Zenon
    <2>4. G!Slot(2) /\ G!Emit(<<order, line>>)
        BY <2>1
    <2> HIDE DEF order, line
    <2> QED
        BY <2>3, <2>4, ListedRows
<1>5. CASE G!Missing(cp, amt, d)
    <2> DEFINE order == <<G!Order(G!Ref, cp, amt, d), G!Injected("missing")>>
    <2>1. order \in Drawn
        BY <1>1, <1>2, <1>3, DrawnRow, Zenon
    <2>2. G!Slot(4) /\ G!Emit(<<order>>)
        BY <1>5 DEF G!Missing
    <2> HIDE DEF order
    <2> QED
        BY <2>1, <2>2, ListedRows
<1>6. CASE G!Reversal(cp, amt, d)
    <2>1. PICK later \in {0, 1} :
              /\ G!Slot(11)
              /\ G!Emit(<< <<G!Order(G!Ref, cp, amt, d), G!Match(G!Ref)>>,
                           <<G!mkTx("psp", G!Ref, cp, amt, d + later, "debit"),
                             G!Match(G!Ref)>> >>)
        BY <1>6 DEF G!Reversal
    <2> DEFINE order == <<G!Order(G!Ref, cp, amt, d), G!Match(G!Ref)>>
               debit == <<G!mkTx("psp", G!Ref, cp, amt, d + later, "debit"),
                          G!Match(G!Ref)>>
    <2>2. d + later \in Int
        BY <1>1
    <2>3. order \in Drawn /\ debit \in Drawn
        BY <1>1, <1>2, <1>3, <2>2, DrawnRow, Zenon
    <2>4. G!Slot(11) /\ G!Emit(<<order, debit>>)
        BY <2>1
    <2> HIDE DEF order, debit
    <2> QED
        BY <2>3, <2>4, ListedRows
<1>7. CASE G!LateChecks(cp, amt, d)
    <2> DEFINE orderA == <<G!Order(G!RefA, cp, amt, d), G!Injected("timing")>>
               orderB == <<G!Order(G!RefB, cp, amt, d + 7),
                           G!Injected("ambiguous")>>
               lineA == <<G!Line(G!NoRef, cp, amt, d + 8),
                          G!Injected("ambiguous")>>
               lineB == <<G!Line(G!NoRef, cp, amt, d + 16), G!Nothing>>
    <2>1. d + 7 \in Int /\ d + 8 \in Int /\ d + 16 \in Int
        BY <1>1
    <2>2. orderA \in Drawn /\ orderB \in Drawn
        BY <1>1, <1>2, <1>3, <2>1, DrawnRow, Zenon
    <2>3. lineA \in Drawn /\ lineB \in Drawn
        BY <1>1, <1>2, <1>3, <2>1, DrawnRow, Zenon
    <2>4. G!Slot(13) /\ G!Emit(<<orderA, orderB, lineA, lineB>>)
        BY <1>7 DEF G!LateChecks
    <2> HIDE DEF orderA, orderB, lineA, lineB
    <2> QED
        BY <2>2, <2>3, <2>4, ListedRows
<1>8. CASE G!Split(cp, amt, d)
    <2>1. PICK parts \in [1..1 -> Portions] \cup [1..2 -> Portions] :
              LET k == Len(parts) + 1
                  last == amt - G!TotalOf(parts)
              IN  /\ last > 0
                  /\ G!Slot(10)
                  /\ \E shift \in [1..k -> Shifts] :
                         G!Emit(<< <<G!Order(G!Ref, cp, amt, d),
                                     G!Match(G!Ref)>> >> \o
                              [j \in 1..k |->
                                  <<G!Line(G!Ref, cp,
                                           IF j < k THEN parts[j] ELSE last,
                                           d + shift[j]),
                                    G!Match(G!Ref)>>])
        BY <1>8 DEF G!Split
    <2> DEFINE k == Len(parts) + 1
               last == amt - G!TotalOf(parts)
               order == <<G!Order(G!Ref, cp, amt, d), G!Match(G!Ref)>>
    <2>2. /\ k \in {2, 3} /\ DOMAIN parts = 1..(k - 1)
          /\ \A j \in DOMAIN parts : parts[j] \in Portions
        <3>1. CASE parts \in [1..1 -> Portions]
            <4>1. parts \in Seq(Portions) /\ Len(parts) = 1
                BY <3>1, FunctionIsList
            <4> QED
                BY <3>1, <4>1
        <3>2. CASE parts \in [1..2 -> Portions]
            <4>1. parts \in Seq(Portions) /\ Len(parts) = 2
                BY <3>2, FunctionIsList
            <4> QED
                BY <3>2, <4>1
        <3> QED
            BY <3>1, <3>2
    <2>3. \A j \in DOMAIN parts : parts[j] \in Nat
        BY <2>2, DrawBounds
    <2>4. IsFiniteSet(DOMAIN parts)
        BY <2>2, FS_Interval
    <2>5. /\ G!TotalOf(parts) \in Nat
          /\ \A j \in DOMAIN parts : parts[j] <= G!TotalOf(parts)
        <3>1. G!TotalOf(parts) = Sum(parts, DOMAIN parts)
            BY <2>4, DrawnTotal
        <3>2. Sum(parts, DOMAIN parts) \in Nat
            BY <2>3, <2>4, SumNat
        <3>3. ASSUME NEW j \in DOMAIN parts
              PROVE  parts[j] <= Sum(parts, DOMAIN parts)
            <4>1. Sum(parts, DOMAIN parts)
                      = parts[j] + Sum(parts, DOMAIN parts \ {j})
                BY <2>3, <2>4, SumRemove
            <4>2. Sum(parts, DOMAIN parts \ {j}) \in Nat
                <5>1. IsFiniteSet(DOMAIN parts \ {j})
                    BY <2>4, FS_Subset
                <5> QED
                    BY <2>3, <5>1, SumNat
            <4> QED
                BY <2>3, <4>1, <4>2
        <3> QED
            BY <3>1, <3>2, <3>3
    <2>6. PICK shift \in [1..k -> Shifts] :
              G!Emit(<<order>> \o
                     [j \in 1..k |->
                         <<G!Line(G!Ref, cp, IF j < k THEN parts[j] ELSE last,
                                  d + shift[j]),
                           G!Match(G!Ref)>>])
        BY <2>1
    <2> DEFINE line(j) == <<G!Line(G!Ref, cp, IF j < k THEN parts[j] ELSE last,
                                   d + shift[j]),
                            G!Match(G!Ref)>>
               lines == [j \in 1..k |-> line(j)]
    <2>7. ASSUME NEW j \in 1..k PROVE line(j) \in Drawn
        <3> DEFINE paid == IF j < k THEN parts[j] ELSE last
        <3>1. last > 0
            BY <2>1
        <3>2. j < k => j \in DOMAIN parts
            BY <2>2
        <3> HIDE DEF last, k
        <3>3. paid \in 0..amt
            BY <1>1, <2>3, <2>5, <3>1, <3>2 DEF last
        <3>4. paid \in 0..MostOnRow
            BY <1>1, <3>3
        <3>5. shift[j] \in Int
            BY DrawTypes
        <3>6. d + shift[j] \in Int
            BY <1>1, <3>5
        <3> HIDE DEF paid
        <3>7. <<G!Line(G!Ref, cp, paid, d + shift[j]), G!Match(G!Ref)>> \in Drawn
            BY <1>1, <1>2, <1>3, <3>4, <3>6, DrawnRow, Zenon
        <3> QED
            BY <3>7 DEF paid
    <2>8. order \in Drawn
        BY <1>1, <1>2, <1>3, DrawnRow, Zenon
    <2>9. G!Emit(<<order>> \o lines) /\ G!Slot(10)
        BY <2>1, <2>6
    <2> HIDE DEF line, order, k
    <2>10. lines \in Seq(Drawn) /\ Len(lines) = k
        BY <2>2, <2>7
    <2> HIDE DEF lines
    <2>11. <<order>> \in Seq(Drawn) /\ Len(<<order>>) = 1
        BY <2>8
    <2> DEFINE first == <<order>>
    <2>12. /\ first \in Seq(Drawn) /\ Len(first) + Len(lines) <= 4 /\ 4 \in Nat
           /\ G!Emit(first \o lines)
        BY <2>2, <2>9, <2>10, <2>11
    <2> HIDE DEF first
    <2>13. Emits(4)
        BY <2>10, <2>12, JoinedLists, Zenon
    <2> QED
        BY <2>9, <2>13
<1> QED
    BY <1>4, <1>5, <1>6, <1>7, <1>8

\* Days from the first day of a group to an order.
LEMMA OffsetType ==
    ASSUME NEW off \in Offsets
    PROVE  off \in Int
<1>1. off \in 0..4
    BY BooksAssumption DEF G!DrawsAssumption
<1> QED
    BY <1>1

\* A group emits its orders, up to eight, a stray one and the payout.
LEMMA GroupEmits ==
    ASSUME budget.pairs \in Nat, budget.groups \in Nat,
           slots.filled \in Nat, groups \in Nat, G!Group
    PROVE  Emits(10)
<1>1. PICK k \in GroupSizes, first \in GroupDays, rate \in FeeRates,
           stray \in 0..1 :
       \E amount \in [1..k -> Amounts], offset \in [1..(k + stray) -> Offsets] :
           G!Emit(G!GroupRows(k, first, rate, stray, amount, offset))
    BY Zenon DEF G!Group
<1>2. /\ k \in 2..8 /\ k \in Nat /\ k + stray \in 1..9
      /\ first \in Int /\ rate \in 800..2499
    <2>1. k \in 2..8
        BY DrawBounds
    <2>2. first \in 0..19
        BY DrawBounds
    <2>3. rate \in 800..2499
        BY DrawBounds
    <2>4. k \in Nat /\ k + stray \in 1..9
        BY <2>1
    <2>5. first \in Int
        BY <2>2
    <2> QED
        BY <2>1, <2>3, <2>4, <2>5
<1>3. PICK amount \in [1..k -> Amounts], offset \in [1..(k + stray) -> Offsets] :
           G!Emit(G!GroupRows(k, first, rate, stray, amount, offset))
    BY <1>1, Zenon
<1> DEFINE day == first + (IF groups >= GroupSellers THEN 35 ELSE 0)
           gross == G!TotalOf(amount)
           commission == (gross * rate) \div 10000
           meant == IF stray = 1 THEN G!Injected("ambiguous")
                    ELSE G!Match(G!PayoutRef)
           order(j) == <<G!Order(G!OrderRef(j), G!GroupSeller,
                                 amount[IF j <= k THEN j ELSE 1],
                                 day + offset[j]), meant>>
           orders == [j \in 1..(k + stray) |-> order(j)]
           paid == G!Payout(gross, commission, day + 7)
           last == << <<paid, meant>> >>
<1>4. G!Emit(orders \o last)
    <2>1. orders \o last = G!GroupRows(k, first, rate, stray, amount, offset)
        BY DEF G!GroupRows
    <2> HIDE DEF orders, last
    <2> QED
        BY <1>3, <2>1
<1>5. day \in Int /\ day + 7 \in Int
    BY <1>2
<1>6. meant \in Truths
    <2>1. G!PayoutRef \in Nat /\ "ambiguous" \in DiscrepancyTypes
        BY RefTypes DEF DiscrepancyTypes
    <2> QED
        BY <2>1, TruthNames
<1>7. gross \in 0..MostOnRow
    <2>1. IsFiniteSet(1..k) /\ Cardinality(1..k) = k
        BY <1>2, FS_Interval
    <2>2. \A j \in 1..k : amount[j] \in Nat /\ amount[j] <= G!maxAmount
        BY AmountType
    <2>3. /\ Sum(amount, 1..k) \in Nat
          /\ Sum(amount, 1..k) <= G!maxAmount * Cardinality(1..k)
        BY <2>1, <2>2, MostType, SumBound
    <2>4. gross = Sum(amount, 1..k)
        BY <2>1, DrawnTotal
    <2>5. G!maxAmount * k <= MostOnRow
        <3>1. PICK r \in Nat : 8 = k + r
            BY <1>2
        <3>2. /\ G!maxAmount * 8 = G!maxAmount * k + G!maxAmount * r
              /\ G!maxAmount * r \in Nat /\ G!maxAmount * k \in Nat
            BY <1>2, <3>1, MostType
        <3> QED
            BY <3>2, MostType
    <2> HIDE DEF gross
    <2>6. G!maxAmount * k \in Nat
        BY <1>2, MostType
    <2> QED
        BY <2>1, <2>3, <2>4, <2>5, <2>6, MostType
<1> HIDE DEF gross, day, meant
<1>8. commission \in 0..gross
    <2>1. gross \in Nat /\ rate \in Nat /\ rate < 10000
        BY <1>2, <1>7, MostType
    <2>2. PICK r \in Nat : 10000 = rate + r
        BY <2>1
    <2>3. /\ gross * 10000 = gross * rate + gross * r
          /\ gross * rate \in Nat /\ gross * r \in Nat
        BY <2>1, <2>2
    <2>4. commission \in Nat /\ 10000 * commission <= gross * rate
        BY <2>3, Quotient
    <2> HIDE DEF commission
    <2> QED
        BY <2>1, <2>3, <2>4
<1> HIDE DEF commission
<1>9. <<paid, meant>> \in Drawn
    <2>1. paid \in SoundRows
        BY <1>5, <1>7, <1>8, PayoutRow
    <2> HIDE DEF paid
    <2> QED
        BY <1>6, <2>1 DEF Drawn
<1>10. ASSUME NEW j \in 1..(k + stray)
       PROVE  order(j) \in Drawn
    <2> DEFINE paying == amount[IF j <= k THEN j ELSE 1]
    <2>1. paying \in Amounts
        BY <1>2
    <2>2. paying \in 0..MostOnRow
        <3> HIDE DEF paying
        <3>1. paying \in Nat /\ paying <= G!maxAmount
            BY <2>1, AmountType
        <3> QED
            BY <3>1, MostType
    <2>3. offset[j] \in Int
        <3>1. offset[j] \in Offsets
            OBVIOUS
        <3> QED
            BY <3>1, OffsetType
    <2>4. day + offset[j] \in Int
        BY <1>5, <2>3
    <2>5. G!OrderRef(j) \in Nat /\ G!GroupSeller \in Nat
        <3>1. j \in Nat
            BY <1>2
        <3> QED
            BY <3>1, RefTypes
    <2> HIDE DEF paying
    <2>6. <<G!Order(G!OrderRef(j), G!GroupSeller, paying, day + offset[j]), meant>>
              \in Drawn
        BY <1>6, <2>2, <2>4, <2>5, DrawnRow
    <2> QED
        BY <2>6 DEF paying
<1> HIDE DEF order, paid
<1>11. orders \in Seq(Drawn) /\ Len(orders) = k + stray
    <2>1. k + stray \in Nat
        BY <1>2
    <2> QED
        BY <1>10, <2>1
<1>12. last \in Seq(Drawn) /\ Len(last) = 1
    BY <1>9
<1> HIDE DEF orders, last
<1>13. Len(orders) + Len(last) <= 10 /\ 10 \in Nat
    BY <1>2, <1>11, <1>12
<1> QED
    BY <1>4, <1>11, <1>12, <1>13, JoinedLists, Zenon

\* Each of n rows carries no more than a payout.
LEMMA BookWithinLimit ==
    ASSUME NEW n \in Nat, BookOfAtMost(n), MostOnRow * n <= MaxMoney
    PROVE  Acceptable(all)
<1> DEFINE w == [k \in DOMAIN all |-> all[k].amount + all[k].commission]
<1>1. /\ all \in Seq(Transaction) /\ Len(all) \in Nat /\ Len(all) <= n
      /\ DOMAIN all = 1..Len(all)
    BY DEF BookOfAtMost
<1>2. IsFiniteSet(DOMAIN all) /\ Cardinality(DOMAIN all) = Len(all)
    <2> DEFINE m == Len(all)
    <2>1. m \in Nat /\ DOMAIN all = 1..m
        BY <1>1
    <2> HIDE DEF m
    <2>2. IsFiniteSet(1..m) /\ Cardinality(1..m) = m
        BY <2>1, FS_Interval
    <2> QED
        BY <2>1, <2>2 DEF m
<1>3. ASSUME NEW k \in DOMAIN all
      PROVE  ValidateMoney(all[k]) /\ w[k] \in Nat /\ w[k] <= MostOnRow
    <2>1. all[k] \in SoundRows
        BY DEF BookOfAtMost
    <2>2. all[k].amount \in Nat /\ all[k].commission \in Nat
        BY <2>1 DEF SoundRows, ValidateMoney, Transaction
    <2> QED
        BY <2>1, <2>2 DEF SoundRows
<1>4. Total(all) = Sum(w, DOMAIN all)
    BY <1>2, TotalIsSum
<1> HIDE DEF w
<1>5. /\ Sum(w, DOMAIN all) \in Nat
      /\ Sum(w, DOMAIN all) <= MostOnRow * Cardinality(DOMAIN all)
    BY <1>2, <1>3, MostType, SumBound
<1>6. MostOnRow * Len(all) <= MostOnRow * n
    <2>1. PICK r \in Nat : n = Len(all) + r
        <3>1. n - Len(all) \in Nat /\ n = Len(all) + (n - Len(all))
            BY <1>1
        <3> QED
            BY <3>1
    <2>2. /\ MostOnRow * n = MostOnRow * Len(all) + MostOnRow * r
          /\ MostOnRow * r \in Nat /\ MostOnRow * Len(all) \in Nat
        BY <1>1, <2>1, MostType
    <2> QED
        BY <2>2
<1>7. Total(all) <= MaxMoney
    <2>1. MaxMoney \in Nat
        BY LimitsAssumption
    <2>2. MostOnRow * n \in Nat /\ MostOnRow * Len(all) \in Nat
        BY <1>1, MostType
    <2> QED
        BY <1>2, <1>4, <1>5, <1>6, <2>1, <2>2
<1>8. \A k, l \in DOMAIN all : all[k].id = all[l].id => k = l
    BY DEF BookOfAtMost
<1> QED
    BY <1>3, <1>7, <1>8 DEF Acceptable

\* How far the book has come, and that the engine starts when it is complete.
BudgetKept ==
    /\ budget \in Budgets
    /\ slots.filled \in 0..budget.pairs
    /\ groups \in 0..budget.groups

RowsAdded == 4 * slots.filled + 10 * groups

DrawnInv == BudgetKept /\ BookOfAtMost(RowsAdded) /\ (~G!Complete => Start)

ErrorInv == DrawnInv /\ PlaceInv /\ Classified /\ NeverRefusesItsResult

\* A budget is a number of slots and one of groups.
LEMMA BudgetTypes ==
    ASSUME BudgetKept
    PROVE  /\ budget.pairs \in Nat /\ budget.groups \in Nat
           /\ slots.filled \in Nat /\ groups \in Nat
           /\ slots.filled <= budget.pairs /\ groups <= budget.groups
           /\ RowsAdded \in Nat
           /\ MostOnRow * RowsAdded <= MaxMoney
<1>1. budget \in [pairs : Nat, groups : 0..2 * GroupSellers]
    BY BooksAssumption DEF G!DrawsAssumption, BudgetKept
<1>2. budget.pairs \in Nat /\ budget.groups \in Nat
    BY <1>1
<1>3. /\ slots.filled \in Nat /\ groups \in Nat
      /\ slots.filled <= budget.pairs /\ groups <= budget.groups
    BY <1>2 DEF BudgetKept
<1>4. RowsAdded \in Nat
    BY <1>3 DEF RowsAdded
<1> DEFINE most == 4 * budget.pairs + 10 * budget.groups
<1>5. MostOnRow * most <= MaxMoney
    BY BudgetsAssumption DEF BudgetKept
<1>6. PICK r \in Nat : most = RowsAdded + r
    <2>1. most - RowsAdded \in Nat /\ most = RowsAdded + (most - RowsAdded)
        BY <1>2, <1>3 DEF RowsAdded
    <2> QED
        BY <2>1
<1>7. /\ MostOnRow * most = MostOnRow * RowsAdded + MostOnRow * r
      /\ MostOnRow * r \in Nat /\ MostOnRow * RowsAdded \in Nat
    BY <1>4, <1>6, MostType
<1>8. MostOnRow * RowsAdded <= MaxMoney
    <2>1. MaxMoney \in Nat
        BY LimitsAssumption
    <2> HIDE DEF most
    <2> QED
        BY <1>5, <1>7, <2>1
<1> QED
    BY <1>2, <1>3, <1>4, <1>8

\* The rows of a step of the generator join the book, which stays within what
\* its budget allows; the engine does not move.
LEMMA GenerateDraws ==
    ASSUME DrawnInv, Generate
    PROVE  DrawnInv' /\ all' \in Seq(Transaction) /\ Start'
<1>n. PICK n \in Nat : n = RowsAdded
    BY BudgetTypes DEF DrawnInv
<1>1. BudgetKept /\ BookOfAtMost(n) /\ (~G!Complete => Start)
    BY <1>n DEF DrawnInv
<1>2. /\ budget.pairs \in Nat /\ budget.groups \in Nat
      /\ slots.filled \in Nat /\ groups \in Nat
      /\ slots.filled <= budget.pairs /\ groups <= budget.groups
    BY <1>1, BudgetTypes
<1>3. \/ /\ Emits(4) /\ \E case : G!Slot(case)
      \/ /\ Emits(10) /\ G!Group
    <2>1. G!Next
        BY DEF Generate
    <2>2. CASE G!Group
        BY <1>2, <2>2, GroupEmits
    <2>3. CASE ~ G!Group
        BY <1>2, <2>1, <2>3, SlotEmits, LateSlotEmits DEF G!Next
    <2> QED
        BY <2>2, <2>3
<1>4. PICK c \in {4, 10} :
          /\ Emits(c) /\ budget' = budget /\ ~ G!Complete
          /\ BudgetKept' /\ RowsAdded' = n + c
    <2>1. CASE Emits(4) /\ \E case : G!Slot(case)
        <3>1. /\ slots.filled < budget.pairs
              /\ slots'.filled = slots.filled + 1
              /\ budget' = budget /\ groups' = groups
            BY <2>1 DEF G!Slot
        <3>2. BudgetKept'
            BY <1>1, <1>2, <3>1 DEF BudgetKept
        <3>3. RowsAdded' = n + 4
            BY <1>n, <1>2, <3>1 DEF RowsAdded
        <3>4. ~ G!Complete
            BY <1>2, <3>1 DEF G!Complete
        <3> QED
            BY <2>1, <3>1, <3>2, <3>3, <3>4
    <2>2. CASE Emits(10) /\ G!Group
        <3>1. /\ groups < budget.groups /\ groups' = groups + 1
              /\ budget' = budget /\ slots' = slots
            BY <2>2 DEF G!Group
        <3>2. BudgetKept'
            BY <1>1, <1>2, <3>1 DEF BudgetKept
        <3>3. RowsAdded' = n + 10
            BY <1>n, <1>2, <3>1 DEF RowsAdded
        <3>4. ~ G!Complete
            BY <1>2, <3>1 DEF G!Complete
        <3> QED
            BY <2>2, <3>1, <3>2, <3>3, <3>4
    <2> QED
        BY <1>3, <2>1, <2>2
<1>5. Start'
    <2>1. Start
        BY <1>1, <1>4
    <2> QED
        BY <2>1 DEF Start, Generate, EmptyMap
<1>6. PICK drawn \in Seq(Drawn) : Len(drawn) <= c /\ G!Emit(drawn)
    BY <1>4 DEF Emits
<1>7. BookOfAtMost(n + c)'
    BY <1>1, <1>6, EmitSound
<1>8. BookOfAtMost(RowsAdded)'
    BY <1>4, <1>7 DEF BookOfAtMost
<1>9. all' \in Seq(Transaction)
    BY <1>7 DEF BookOfAtMost
<1> QED
    BY <1>4, <1>5, <1>8, <1>9 DEF DrawnInv

\* The engine reads its argument and writes none of it.
LEMMA ArgumentStays ==
    [Next]_vars => all' = all
BY DEF Next, Returned, Accept, Reject, ExactPair, ExactDone, SplitMatch,
       SplitDone, TolerantPair, NextTier, TolerantDone, PayoutOverCap,
       PayoutUnexplained, PayoutAmbiguous, PayoutMatched, GroupsDone,
       Classify, Finish, vars, poolVars

\* A step of the engine leaves the book of the generator alone.
LEMMA ReconcileDraws ==
    ASSUME DrawnInv, [Next]_vars, G!Complete \/ UNCHANGED vars,
           UNCHANGED <<budget, slots, groups>>
    PROVE  DrawnInv'
<1>1. all' = all
    BY ArgumentStays
<1>2. (~G!Complete => Start)'
    <2>1. G!Complete' <=> G!Complete
        BY DEF G!Complete
    <2>2. CASE G!Complete
        BY <2>1, <2>2
    <2>3. CASE UNCHANGED vars
        BY <2>1, <2>3 DEF DrawnInv, Start, vars, EmptyMap
    <2> QED
        BY <2>2, <2>3
<1>3. BudgetKept'
    BY DEF DrawnInv, BudgetKept
<1>4. BookOfAtMost(RowsAdded)'
    BY <1>1 DEF DrawnInv, BookOfAtMost, RowsAdded, SoundRows
<1> QED
    BY <1>2, <1>3, <1>4 DEF DrawnInv

\* The engine starts with the empty book.
LEMMA ErrorStarts ==
    ASSUME BInit
    PROVE  ErrorInv
<1>1. all = <<>> /\ Start
    BY DEF BInit, G!Init
<1>2. all \in Seq(Transaction) /\ Len(all) = 0 /\ DOMAIN all = {}
    BY <1>1
<1>3. PlaceInv
    BY <1>1, <1>2, StartPlaces
<1>4. /\ budget \in Budgets /\ slots.filled = 0 /\ groups = 0
    BY DEF BInit, G!Init
<1>5. budget \in [pairs : Nat, groups : 0..2 * GroupSellers]
    BY <1>4, BooksAssumption DEF G!DrawsAssumption
<1>6. budget.pairs \in Nat /\ budget.groups \in Nat
    <2>1. GroupSellers \in Nat
        BY BooksAssumption DEF G!DrawsAssumption
    <2> QED
        BY <1>5, <2>1
<1>7. BudgetKept /\ RowsAdded = 0
    BY <1>4, <1>6 DEF BudgetKept, RowsAdded
<1>8. BookOfAtMost(RowsAdded)
    BY <1>2, <1>7 DEF BookOfAtMost
<1> QED
    BY <1>1, <1>3, <1>7, <1>8
       DEF ErrorInv, DrawnInv, Start, Classified, NeverRefusesItsResult

\* Every step keeps the book sound and the result accepted.
LEMMA ErrorStays ==
    ASSUME ErrorInv, [BNext]_benchVars
    PROVE  ErrorInv'
<1>1. CASE Generate
    <2>1. DrawnInv' /\ (all \in Seq(Transaction))' /\ Start'
        BY <1>1, GenerateDraws DEF ErrorInv
    <2>2. PlaceInv'
        BY <2>1, StartPlaces, PTL
    <2>3. (Classified /\ NeverRefusesItsResult)'
        BY <2>1 DEF Start, Classified, NeverRefusesItsResult
    <2> QED
        BY <2>1, <2>2, <2>3 DEF ErrorInv
<1>2. CASE Reconcile \/ UNCHANGED benchVars
    <2>1. /\ [Next]_vars
          /\ G!Complete \/ UNCHANGED vars
          /\ UNCHANGED <<budget, slots, groups>>
        BY <1>2 DEF Reconcile, benchVars
    <2>2. DrawnInv'
        BY <2>1, ReconcileDraws DEF ErrorInv
    <2>3. PlaceInv'
        BY <2>1, StepPlaces DEF ErrorInv
    <2>4. (Classified /\ NeverRefusesItsResult)'
        BY <2>1, StepVerdicts DEF ErrorInv
    <2> QED
        BY <2>2, <2>3, <2>4 DEF ErrorInv
<1> QED
    BY <1>1, <1>2 DEF BNext

\* What is drawn is what engine.Run takes.
LEMMA DrawnAcceptable ==
    ASSUME ErrorInv
    PROVE  Acceptable(all)
<1>1. RowsAdded \in Nat /\ MostOnRow * RowsAdded <= MaxMoney
    BY BudgetTypes DEF ErrorInv, DrawnInv
<1> QED
    BY <1>1, BookWithinLimit DEF ErrorInv, DrawnInv

\* Whatever the generator draws, engine.Run accepts the book and returns a
\* result: its money is sound and its total inside the limit, its IDs are
\* distinct, and the check of the result cannot fail (score.go:160).
THEOREM GeneratedBooksNeverFail == BSpec => []NeverAnError
<1>1. BInit => ErrorInv
    BY ErrorStarts
<1>2. ErrorInv /\ [BNext]_benchVars => ErrorInv'
    BY ErrorStays
<1>3. ErrorInv => NeverAnError
    BY DrawnAcceptable DEF ErrorInv, NeverRefusesItsResult, NeverAnError
<1> QED
    BY <1>1, <1>2, <1>3, PTL DEF BSpec
=============================================================================
