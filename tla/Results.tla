------------------------------ MODULE Results ------------------------------
(***************************************************************************)
(* What store.SaveResult writes for one run of the engine: the rows of the *)
(* tables match_group, match_member and discrepancy.  The engine is a pure *)
(* function of the transactions it is given (engine.Run), so its result is *)
(* a constant function of the book.                                        *)
(*                                                                         *)
(* A transaction is an ID.  The member rows of a match are written and     *)
(* deleted together, so one entry stands for all of them.                  *)
(***************************************************************************)
EXTENDS FiniteSets

CONSTANTS
    Rows,    \* transactions that files may bring
    Outcome  \* book -> [matches, fees (the matches with a commission), left]

\* What EngineProofs shows of every run: each row of the book in one match or
\* left over with a discrepancy.
ASSUME OutcomeAssumption ==
    \A B \in SUBSET Rows :
        /\ Outcome[B].matches \subseteq SUBSET Rows
        /\ Outcome[B].fees \subseteq Outcome[B].matches
        /\ (UNION Outcome[B].matches) \cup Outcome[B].left = B
        /\ (UNION Outcome[B].matches) \cap Outcome[B].left = {}
        /\ \A S, T \in Outcome[B].matches : S # T => S \cap T = {}

Tables == {"match_group", "match_member", "fee", "discrepancy"}

\* The rows of discrepancy that belong to a match are called fees here.
Entry == [table : Tables, of : SUBSET Rows]

\* What a run over the book B writes.
Entries(B) ==
    {[table |-> t, of |-> S] :
        t \in {"match_group", "match_member"}, S \in Outcome[B].matches}
    \cup {[table |-> "fee", of |-> S] : S \in Outcome[B].fees}
    \cup {[table |-> "discrepancy", of |-> {i}] : i \in Outcome[B].left}

\* The transactions a run over B sets to 'matched'.
MatchedIn(B) == UNION Outcome[B].matches

\* The transactions some entry of E accounts for.
Covered(E) == UNION {e.of : e \in E}
=============================================================================
