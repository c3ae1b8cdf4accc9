------------------------------ MODULE Records ------------------------------
(***************************************************************************)
(* The rows of a reconciliation book and what internal/domain computes     *)
(* from one or two of them: the money contract of a row, the distance in   *)
(* days, the amount tolerance, basis points, and the order in which        *)
(* internal/matching sorts each side of the book.                          *)
(*                                                                         *)
(* Amounts are whole kurus.  A value date is a day number: ingestion       *)
(* parses a date without a time, so every instant of the program is a UTC  *)
(* midnight.  A reference and a counterparty are natural numbers, ordered  *)
(* as the program orders the strings; reference 0 is the empty reference.  *)
(***************************************************************************)
EXTENDS Integers, FiniteSets, FiniteSetsExt

CONSTANTS
    MatchWindowDays,    \* domain.MatchWindowDays (3)
    AmountHorizonDays,  \* domain.AmountHorizonDays (30)
    ToleranceDivisor,   \* 10000 / domain.TolerantAmountBP (200)
    GroupWindowDays,    \* groupWindowDays (14)
    GroupMemberCap,     \* groupMemberCap (20)
    MaxMoney            \* math.MaxInt64

ASSUME LimitsAssumption ==
    /\ MatchWindowDays \in Nat
    /\ AmountHorizonDays \in Nat
    /\ ToleranceDivisor \in Nat \ {0}
    /\ GroupWindowDays \in Nat
    /\ GroupMemberCap \in Nat
    /\ MaxMoney \in Nat

NoRef == 0

Sources == {"bank", "marketplace", "psp"}
Directions == {"credit", "debit"}
Currencies == {"TRY", "other"}

(***************************************************************************)
(* A transaction as the engine receives it.  Currency and the money fields *)
(* are not yet validated.                                                  *)
(***************************************************************************)
Transaction ==
    [id : Nat, source : Sources, ref : Nat, cp : Nat, currency : Currencies,
     amount : Int, day : Int, dir : Directions, gross : Int, commission : Int]

(***************************************************************************)
(* Transaction.ValidateMoney: TRY only, nothing negative, and for a        *)
(* marketplace line gross - commission = net.                              *)
(***************************************************************************)
ValidateMoney(t) ==
    /\ t.currency = "TRY"
    /\ t.amount >= 0 /\ t.gross >= 0 /\ t.commission >= 0
    /\ t.source = "marketplace" =>
           /\ t.commission <= t.gross
           /\ t.gross - t.commission = t.amount

IsExpected(t) == t.source = "psp"

AbsDiff(x, y) == IF x < y THEN y - x ELSE x - y

DayDiff(t, u) == AbsDiff(t.day, u.day)

TolerantLimit(amount) == amount \div ToleranceDivisor

\* Callers supply 0 <= part <= whole and whole > 0.
BasisPoints(part, whole) == (part * 10000) \div whole

\* Two rows carry the same reference for the same counterparty; an empty
\* reference agrees with nothing.
RefsAgree(t, u) == t.ref # NoRef /\ t.ref = u.ref /\ t.cp = u.cp

(***************************************************************************)
(* The total order of sortTxs: date, reference, counterparty, amount,      *)
(* direction, source, gross and only then the ID.  Directions and sources  *)
(* compare as the strings "credit" < "debit" and "bank" < "marketplace" <  *)
(* "psp".                                                                  *)
(***************************************************************************)
DirectionOrder == [credit |-> 1, debit |-> 2]
SourceOrder == [bank |-> 1, marketplace |-> 2, psp |-> 3]

SortKey(t) ==
    <<t.day, t.ref, t.cp, t.amount, DirectionOrder[t.dir],
      SourceOrder[t.source], t.gross, t.id>>

Before(t, u) ==
    LET k == SortKey(t)  l == SortKey(u)
    IN  \E n \in 1..8 : k[n] < l[n] /\ \A m \in 1..(n - 1) : k[m] = l[m]

\* The book order of classification: the sorted expected side, then the
\* sorted actual side.
Precedes(t, u) ==
    IF IsExpected(t) = IsExpected(u) THEN Before(t, u) ELSE IsExpected(t)

\* What the rows S of the book b add up to.
SumOf(b, S) == MapThenSumSet(LAMBDA i : b[i].amount, S)
=============================================================================
