------------------------------- MODULE Ledger -------------------------------
(***************************************************************************)
(* What the database promises its readers, whatever runs and requests do:  *)
(* transactions are only added, and what is stored as the result is the    *)
(* whole result of one run over all rows of some moment (store.SaveResult, *)
(* ADR 0005).  A later result is over a later book.                        *)
(***************************************************************************)
EXTENDS Results

VARIABLES
    rows,    \* the transactions
    stored,  \* the stored result
    matched  \* the transactions whose status is 'matched'

vars == <<rows, stored, matched>>

Init == rows = {} /\ stored = {} /\ matched = {}

Add ==
    /\ rows' \in {rows \cup S : S \in SUBSET Rows}
    /\ UNCHANGED <<stored, matched>>

Replace ==
    /\ \E B \in SUBSET rows :
           /\ Covered(stored) \subseteq B
           /\ stored' = Entries(B)
           /\ matched' = MatchedIn(B)
    /\ UNCHANGED rows

Next == Add \/ Replace

Spec == Init /\ [][Next]_vars
=============================================================================
