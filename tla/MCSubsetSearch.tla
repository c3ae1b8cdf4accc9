--------------------------- MODULE MCSubsetSearch ---------------------------
(***************************************************************************)
(* Every list of up to five amounts that collide, sums beyond the money    *)
(* limit included.                                                         *)
(***************************************************************************)
EXTENDS SubsetSearch

SmallAmounts == {1, 2, 3, 5}
SmallTargets == 1..9
=============================================================================
