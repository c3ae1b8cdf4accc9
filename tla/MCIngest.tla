----------------------------- MODULE MCIngest -----------------------------
(***************************************************************************)
(* Files whose keys collide: equal lines in one file, one content under    *)
(* two counterparties, two keys in opposite orders, a rejected line.       *)
(***************************************************************************)
EXTENDS Ingest, TLC

CONSTANTS l1, l2, l3

Of(content, counterparty) ==
    [content |-> content, counterparty |-> counterparty, valid |-> TRUE]
Bad(content) == [content |-> content, counterparty |-> 1, valid |-> FALSE]

SmallFiles ==
    {<<Of("a", 1)>>, <<Of("a", 2)>>, <<Of("a", 1), Of("a", 2)>>,
     <<Of("a", 2), Of("a", 1)>>, <<Of("a", 1), Of("b", 1)>>,
     <<Of("b", 1), Of("a", 1)>>, <<Of("a", 1), Bad("a"), Of("a", 1), Of("b", 2)>>,
     <<Bad("b")>>}

LoadSymmetry == Permutations(Loads)
=============================================================================
