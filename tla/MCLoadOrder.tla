---------------------------- MODULE MCLoadOrder ----------------------------
(***************************************************************************)
(* Books whose rows tie on a long prefix of the sort key, so that which    *)
(* row comes first is decided by each of its last components: reference,   *)
(* amount, source and gross.                                               *)
(***************************************************************************)
EXTENDS LoadOrder, MCRows

TiedOrders ==
    {Row("psp", 1, 3000, 1, "credit"), Row("psp", 7, 900, 2, "credit"),
     Row("psp", 0, 1000, 1, "credit")}

TiedLines ==
    {Row("bank", 1, 900, 2, "credit"), Row("bank", 1, 2700, 2, "credit"),
     Row("bank", 7, 900, 3, "credit"), Row("bank", 0, 1000, 3, "credit"),
     Payout(7, 1000, 100, 3), Payout(7, 3000, 2100, 3), Payout(8, 1000, 0, 3)}

TiedBooks == Family(2, TiedOrders, 2, TiedLines)
=============================================================================
