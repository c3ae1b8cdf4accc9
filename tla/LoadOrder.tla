----------------------------- MODULE LoadOrder -----------------------------
(***************************************************************************)
(* Two runs of the engine over one book that was loaded in two orders.     *)
(* The store numbers rows in the order a file lists them, so the runs see  *)
(* the same rows under other IDs.  The package comment of internal/        *)
(* matching says the result depends on the load order only among rows      *)
(* identical in every field the engine reads.                              *)
(***************************************************************************)
EXTENDS Records, Sequences

CONSTANT Inputs

\* Books as the store hands them out: no ID is given twice.
ASSUME LoadedAssumption ==
    /\ Inputs \subseteq Seq(Transaction)
    /\ \A txs \in Inputs : \A k, l \in DOMAIN txs : txs[k].id = txs[l].id => k = l

VARIABLES
    all1, book1, rank1, open1, phase1, pass1, tier1, edges1, walk1, matches1,
    capped1, unsure1, fees1, typed1,
    all2, book2, rank2, open2, phase2, pass2, tier2, edges2, walk2, matches2,
    capped2, unsure2, fees2, typed2

One == INSTANCE Guarantees WITH
    all <- all1, book <- book1, rank <- rank1, open <- open1, phase <- phase1,
    pass <- pass1, tier <- tier1, edges <- edges1, walk <- walk1,
    matches <- matches1, capped <- capped1, unsure <- unsure1,
    fees <- fees1, typed <- typed1

Two == INSTANCE Guarantees WITH
    all <- all2, book <- book2, rank <- rank2, open <- open2, phase <- phase2,
    pass <- pass2, tier <- tier2, edges <- edges2, walk <- walk2,
    matches <- matches2, capped <- capped2, unsure <- unsure2,
    fees <- fees2, typed <- typed2

vars1 == <<all1, book1, rank1, open1, phase1, pass1, tier1, edges1,
           walk1, matches1, capped1, unsure1, fees1, typed1>>
vars2 == <<all2, book2, rank2, open2, phase2, pass2, tier2, edges2,
           walk2, matches2, capped2, unsure2, fees2, typed2>>
vars == <<vars1, vars2>>

\* The argument with its rows listed in the order of p and numbered anew.
Reordered(txs, p) == [k \in DOMAIN txs |-> [txs[p[k]] EXCEPT !.id = k]]

Permutations(n) == {p \in [1..n -> 1..n] : \A i, j \in 1..n : p[i] = p[j] => i = j}

Init ==
    /\ One!Init
    /\ Two!Start
    /\ \E p \in Permutations(Len(all1)) : all2 = Reordered(all1, p)

\* The runs share nothing, so they may go on step by step; one that has
\* returned waits for the other.
Next == One!Next /\ Two!Next

Spec == Init /\ [][Next]_vars

-----------------------------------------------------------------------------
(* The outcome of a run without the IDs: how many rows of one content share *)
(* one fate.                                                                *)

\* The fields the engine reads: not the ID, and the commission of a payout
\* only.
Content(t) ==
    [t EXCEPT !.id = 0,
              !.commission = IF t.source = "marketplace" THEN @ ELSE 0]

Fate(book, matches, capped, typed, i) ==
    LET mine == {n \in DOMAIN matches : i \in matches[n].rows}
    IN  [matched |-> {[kind |-> matches[n].kind, score |-> matches[n].score,
                       partners |-> {Content(book[j]) : j \in matches[n].rows \ {i}}] :
                          n \in mine},
         capped |-> i \in capped,
         discrepancy |-> IF i \in DOMAIN typed THEN {typed[i]} ELSE {}]

Outcome(book, matches, capped, typed) ==
    LET fate == [i \in DOMAIN book |->
                    <<Content(book[i]), Fate(book, matches, capped, typed, i)>>]
    IN  [f \in {fate[i] : i \in DOMAIN book} |->
            Cardinality({i \in DOMAIN book : fate[i] = f})]

\* Whatever order the rows are loaded in, the run is accepted or refused
\* alike, and rows of the same content end in the same matches and with the
\* same discrepancies (TestEngineResultDependsOnContentNotLoadOrder).
ContentDecides ==
    {phase1, phase2} \subseteq {"done", "failed"} =>
        /\ phase1 = phase2
        /\ Outcome(book1, matches1, capped1, typed1)
               = Outcome(book2, matches2, capped2, typed2)
=============================================================================
