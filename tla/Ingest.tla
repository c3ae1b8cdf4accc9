------------------------------- MODULE Ingest -------------------------------
(***************************************************************************)
(* ingestion.Ingest and store.SaveBatch: several files, or one file        *)
(* several times, are read into the table transaction, by processes that   *)
(* know nothing of each other.                                             *)
(*                                                                         *)
(* A line is the fields its dedup key is made of (source, reference,       *)
(* amount, date, direction), here its content, and the others, of which    *)
(* the model keeps the counterparty.  The key is a SHA-256 over the        *)
(* content, and for the n-th line of one content in a file over that and   *)
(* n; no two of them are taken to collide.                                 *)
(***************************************************************************)
EXTENDS Naturals, FiniteSets, Sequences

CONSTANTS
    Contents, Counterparties,
    Files,    \* the files that are read: sequences of lines
    Loads     \* the calls of Ingest

\* A line that cannot be parsed, or breaks the money contract, is rejected.
Line == [content : Contents, counterparty : Counterparties, valid : BOOLEAN]

ASSUME FilesAssumption == Files \subseteq Seq(Line)

VARIABLES
    table,  \* table transaction, committed: dedup key -> line
    at,     \* where a load is
    file,   \* the file it reads
    todo,   \* the lines of that file it has still to insert
    fresh   \* the rows its open transaction has inserted

vars == <<table, at, file, todo, fresh>>

Key == Contents \X Nat

Empty == [k \in {} |-> 0]

-----------------------------------------------------------------------------
(* parseRows *)

\* Mutant: a line that cannot be parsed is kept as far as it was read.
EveryLine(f) == DOMAIN f

Parsed(f) == {k \in DOMAIN f : f[k].valid}

\* The lines of f with the content of line k, up to k.
Equals(f, k) == {j \in Parsed(f) : j <= k /\ f[j].content = f[k].content}

\* Mutant: equal lines of one file are not told apart.
UnnumberedKey(f, k) == <<f[k].content, 1>>

\* The dedup key; OccurrenceKey from the second equal line on.
DedupKey(f, k) == <<f[k].content, Cardinality(Equals(f, k))>>

Keys(f) == {DedupKey(f, k) : k \in Parsed(f)}

-----------------------------------------------------------------------------
Init ==
    /\ table = Empty
    /\ at = [l \in Loads |-> "new"]
    /\ file = [l \in Loads |-> <<>>]
    /\ todo = [l \in Loads |-> {}]
    /\ fresh = [l \in Loads |-> Empty]

\* The whole file is parsed before the transaction is opened.
Open(l) ==
    /\ at[l] = "new"
    /\ \E f \in Files :
           /\ file' = [file EXCEPT ![l] = f]
           /\ todo' = [todo EXCEPT ![l] = Parsed(f)]
    /\ at' = [at EXCEPT ![l] = "open"]
    /\ UNCHANGED <<table, fresh>>

\* A file with a wrong header is refused.
Refuse(l) ==
    /\ at[l] = "new"
    /\ at' = [at EXCEPT ![l] = "failed"]
    /\ UNCHANGED <<table, file, todo, fresh>>

Put(map, key, line) ==
    [k \in DOMAIN map \cup {key} |-> IF k = key THEN line ELSE map[k]]

\* Mutant: the row of an existing key is written again.
Overwrite(l) ==
    /\ at[l] = "open"
    /\ \E k \in todo[l] :
           /\ \A j \in todo[l] : k <= j
           /\ \A m \in Loads \ {l} : DedupKey(file[l], k) \notin DOMAIN fresh[m]
           /\ fresh' = [fresh EXCEPT ![l] = Put(@, DedupKey(file[l], k), file[l][k])]
           /\ todo' = [todo EXCEPT ![l] = @ \ {k}]
    /\ UNCHANGED <<table, at, file>>

\* INSERT ... ON CONFLICT DO NOTHING of the next line: it waits for another
\* open transaction that has inserted the key, and skips a key that is there.
Insert(l) ==
    /\ at[l] = "open"
    /\ \E k \in todo[l] :
           LET key == DedupKey(file[l], k)
           IN  /\ \A j \in todo[l] : k <= j
               /\ \A m \in Loads \ {l} : key \notin DOMAIN fresh[m]
               /\ fresh' = IF key \in DOMAIN table THEN fresh
                           ELSE [fresh EXCEPT ![l] = Put(@, key, file[l][k])]
               /\ todo' = [todo EXCEPT ![l] = @ \ {k}]
    /\ UNCHANGED <<table, at, file>>

\* The rejected lines and the counts of the batch are written, and all is
\* committed.
Commit(l, stage) ==
    /\ at[l] = "open"
    /\ todo[l] = {}
    /\ table' = [k \in DOMAIN table \cup DOMAIN fresh[l] |->
                    IF k \in DOMAIN fresh[l] THEN fresh[l][k] ELSE table[k]]
    /\ fresh' = [fresh EXCEPT ![l] = Empty]
    /\ at' = [at EXCEPT ![l] = stage]
    /\ UNCHANGED <<file, todo>>

Save(l) == Commit(l, "saved")

\* The acknowledgement of the COMMIT is lost: SaveBatch returns an error for a
\* file that is stored.
LoseAck(l) == Commit(l, "lost")

\* Mutant: the rows are inserted outside a transaction.
KeepInserted(l) ==
    /\ at[l] = "open"
    /\ table' = [k \in DOMAIN table \cup DOMAIN fresh[l] |->
                    IF k \in DOMAIN fresh[l] THEN fresh[l][k] ELSE table[k]]
    /\ fresh' = [fresh EXCEPT ![l] = Empty]
    /\ at' = [at EXCEPT ![l] = "failed"]
    /\ UNCHANGED <<file, todo>>

\* A statement fails, the connection or the process is lost, or the load is
\* the victim of a deadlock (two files that list two keys in opposite orders).
Fail(l) ==
    /\ at[l] = "open"
    /\ fresh' = [fresh EXCEPT ![l] = Empty]
    /\ at' = [at EXCEPT ![l] = "failed"]
    /\ UNCHANGED <<table, file, todo>>

Next ==
    \E l \in Loads :
        Open(l) \/ Refuse(l) \/ Insert(l) \/ Save(l) \/ LoseAck(l) \/ Fail(l)

Spec == Init /\ [][Next]_vars

-----------------------------------------------------------------------------
\* Only lines that hold the money contract are stored.
Sound == {line \in Line : line.valid}

\* The files that are committed, whether their loads know it or not.
Saved == {l \in Loads : at[l] \in {"saved", "lost"}}

TypeOK ==
    /\ table \in [DOMAIN table -> Sound] /\ DOMAIN table \subseteq Key
    /\ at \in [Loads -> {"new", "open", "saved", "lost", "failed"}]
    /\ file \in [Loads -> Seq(Line)]
    /\ DOMAIN todo = Loads /\ DOMAIN fresh = Loads
    /\ \A l \in Loads :
           /\ todo[l] \subseteq Parsed(file[l])
           /\ fresh[l] \in [DOMAIN fresh[l] -> Sound]
           /\ DOMAIN fresh[l] \subseteq Key

\* The table holds the keys of the files that were saved and no others:
\* nothing of a failed file stays, nothing of a saved one is missing,
\* whatever the loads that ran beside it did (ADR 0004).
TableIsSaved == DOMAIN table = UNION {Keys(file[l]) : l \in Saved}

\* A content is stored as often as the file that lists it most lists it: equal
\* lines of one file are all kept, and no line is doubled by another file or a
\* second reading (README, bank_test.go).
Times(f, c) == Cardinality({k \in Parsed(f) : f[k].content = c})

StoredAsListed ==
    \A c \in Contents :
        LET stored == Cardinality({key \in DOMAIN table : key[1] = c})
        IN  /\ \A l \in Saved : Times(file[l], c) <= stored
            /\ stored > 0 => \E l \in Saved : Times(file[l], c) = stored

\* Guarantee 4: saving a file that was saved before changes no transaction, also
\* when it is read again because its COMMIT seemed to fail.
SavedBefore(l) == \E m \in Saved : file[m] = file[l]

ReadingAgainAddsNothing ==
    [][\A l \in Loads :
           (Save(l) \/ LoseAck(l)) /\ SavedBefore(l) => UNCHANGED table]_vars
=============================================================================
