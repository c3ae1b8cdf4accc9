------------------------------ MODULE MCStore ------------------------------
(***************************************************************************)
(* One order of 1000, a payout of gross 1000 with a commission, and a bank *)
(* line that pays the order under its reference.  The outcomes are those   *)
(* of engine.Run: the line takes the order from the payout.                *)
(***************************************************************************)
EXTENDS Store, TLC

CONSTANTS order, payout, line, r1, r2, r3, server, cli

Book == {order, payout, line}

EngineOutcome ==
    [B \in SUBSET Book |->
        IF {order, line} \subseteq B
        THEN [matches |-> {{order, line}}, fees |-> {}, left |-> B \ {order, line}]
        ELSE IF {order, payout} \subseteq B
        THEN [matches |-> {{order, payout}}, fees |-> {{order, payout}},
              left |-> {}]
        ELSE [matches |-> {}, fees |-> {}, left |-> B]]

\* The order and the payout are reported in one file, the bank line in another.
Reports == {{order, payout}, {line}}

OneServer == [r \in Runs |-> server]
ServerAndCommand == [r \in Runs |-> IF r = r3 THEN cli ELSE server]

Requests == Permutations(Runs)
ServerRequests == Permutations(Runs \ {r3})
=============================================================================
