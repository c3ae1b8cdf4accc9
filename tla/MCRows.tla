------------------------------- MODULE MCRows -------------------------------
(***************************************************************************)
(* Families of small books for the model checker.  A family is every book  *)
(* with at most so many rows of each of two sets of row templates; a       *)
(* template may be used more than once.                                    *)
(***************************************************************************)
EXTENDS Records, Sequences

Row(source, ref, amount, day, dir) ==
    [id |-> 0, source |-> source, ref |-> ref, cp |-> 1, currency |-> "TRY",
     amount |-> amount, day |-> day, dir |-> dir, gross |-> 0, commission |-> 0]

Payout(ref, gross, commission, day) ==
    [Row("marketplace", ref, gross - commission, day, "credit")
        EXCEPT !.gross = gross, !.commission = commission]

\* The multisets of at most n templates, each as a sorted sequence.
UpTo(n, T) ==
    UNION {{s \in [1..k -> T] : \A j \in 1..(k - 1) : ~Before(s[j + 1], s[j])} :
              k \in 0..n}

Numbered(s) == [k \in 1..Len(s) |-> [s[k] EXCEPT !.id = k]]

Family(n, T, m, U) == {Numbered(s \o t) : s \in UpTo(n, T), t \in UpTo(m, U)}
=============================================================================
