----------------------------- MODULE MCBenchmark -----------------------------
(***************************************************************************)
(* Books of two slots, or of two groups, of one seller.  8 % of 1001 is    *)
(* rounded below the fee band; orders of 2002 paid short leave lines of    *)
(* 1003 and of 1001, inside the tolerance of another order and equal to    *)
(* it; days 0 and 29 are inside the horizon, 0 and 29 + 3 are not.  Groups *)
(* of four have other sets of orders with the same sum.                    *)
(***************************************************************************)
EXTENDS Benchmark

TwoSlotsOrTwoGroups == {[pairs |-> 2, groups |-> 0], [pairs |-> 0, groups |-> 2]}
=============================================================================
