------------------------------ MODULE MCUpgrade ------------------------------
(***************************************************************************)
(* The books and outcomes of MCStore: a `recon run` (r3) beside requests   *)
(* to a server.  The server and an `ingest` start on a database without    *)
(* tables, of the first schema version, or of the second.  The bank line   *)
(* pays the order in a kind of match, and leaves the payout with a type of *)
(* discrepancy, that the first version does not know.                      *)
(***************************************************************************)
EXTENDS Upgrade, MCStore

CONSTANTS serve, ingest

AfterServe == [r \in Runs |-> IF r = r3 THEN {} ELSE {serve}]

NewEntries ==
    {[table |-> "match_group", of |-> {order, line}],
     [table |-> "discrepancy", of |-> {payout}]}
=============================================================================
