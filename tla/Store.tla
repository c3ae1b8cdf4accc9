------------------------------- MODULE Store -------------------------------
(***************************************************************************)
(* Reconciliation runs against one database: POST reconciliation-runs of   *)
(* the server (server.reconcile), `recon run` and `recon demo`.  A run     *)
(* loads the book, computes, and saves its result in one transaction of    *)
(* PostgreSQL at its default level, READ COMMITTED:                        *)
(*                                                                         *)
(*   - a statement sees what was committed when it began, and what its own *)
(*     transaction did;                                                    *)
(*   - it then waits for every row it is to change that another open       *)
(*     transaction has changed, and passes over rows that are gone.        *)
(*                                                                         *)
(* So a statement is two steps: it looks, and it acts.  What a transaction *)
(* inserts is invisible until it commits.  A transaction may fail at any   *)
(* time: a lost connection, a constraint, a request that is cancelled, a   *)
(* deadlock's victim, a crash of the process.                              *)
(***************************************************************************)
EXTENDS Results

CONSTANTS
    Runs,     \* attempts to reconcile: requests and command lines
    Home,     \* the process of a run
    Files,    \* the transactions a file may bring
    Lingers   \* whether a COMMIT may still be under way when its run gave up

ASSUME FilesAssumption == Files \subseteq SUBSET Rows

Processes == {Home[r] : r \in Runs}

VARIABLES
    rows,     \* table transaction: the IDs
    db,       \* tables match_group, match_member, discrepancy: [run, entry]
    matched,  \* the transactions whose status is 'matched'
    busy,     \* the processes whose run lock (handler.runMu) is taken
    at,       \* where a run is
    reply,    \* what its caller was told
    book,     \* the transactions it loaded
    looked,   \* its current statement has begun
    seen,     \* the result rows that statement saw
    gone,     \* the result rows its transaction has deleted
    span      \* the transactions whose status it resets

vars == <<rows, db, matched, busy, at, reply, book, looked, seen, gone, span>>

tables == <<rows, db, matched>>
txn == <<looked, seen, gone, span>>

Stages == {"request", "load", "discrepancies", "members", "groups",
           "statuses", "insert", "commit", "answer", "error", "ended"}
Replies == {"none", "ok", "failed", "refused"}

\* The DELETE statements of SaveResult in their order.
Clears == [discrepancies |-> {"discrepancy", "fee"},
           members       |-> {"match_member"},
           groups        |-> {"match_group"}]
Following == [discrepancies |-> "members", members |-> "groups",
              groups |-> "statuses"]

Entered == [run : Runs, entry : Entry]

Written(r, B) == {[run |-> r, entry |-> e] : e \in Entries(B)}

In(T) == {t \in db : t.entry.table \in T}

Init ==
    /\ rows = {} /\ db = {} /\ matched = {} /\ busy = {}
    /\ at = [r \in Runs |-> "request"]
    /\ reply = [r \in Runs |-> "none"]
    /\ book = [r \in Runs |-> {}]
    /\ looked = [r \in Runs |-> FALSE]
    /\ seen = [r \in Runs |-> {}]
    /\ gone = [r \in Runs |-> {}]
    /\ span = [r \in Runs |-> {}]

-----------------------------------------------------------------------------
(* The run lock.  It is tried, not waited for.  A command line has a        *)
(* process, hence a lock, of its own.                                       *)

Move(r, from, to) == at[r] = from /\ at' = [at EXCEPT ![r] = to]

Start(r) ==
    /\ Home[r] \notin busy
    /\ Move(r, "request", "load")
    /\ busy' = busy \cup {Home[r]}
    /\ UNCHANGED <<tables, reply, book, txn>>

\* 409 Conflict.
Refuse(r) ==
    /\ Home[r] \in busy
    /\ Move(r, "request", "ended")
    /\ reply' = [reply EXCEPT ![r] = "refused"]
    /\ UNCHANGED <<tables, busy, book, txn>>

\* Mutant: the lock is only released after a success.
KeepLock(r, answer) ==
    /\ reply' = [reply EXCEPT ![r] = answer]
    /\ busy' = IF answer = "ok" THEN busy \ {Home[r]} ELSE busy

\* The caller is told, and the lock is free again.
End(r, answer) ==
    /\ reply' = [reply EXCEPT ![r] = answer]
    /\ busy' = busy \ {Home[r]}

-----------------------------------------------------------------------------
(* A run: load, compute, save *)

\* The transaction of run r is over.
Close(r) ==
    /\ looked' = [looked EXCEPT ![r] = FALSE]
    /\ seen' = [seen EXCEPT ![r] = {}]
    /\ gone' = [gone EXCEPT ![r] = {}]
    /\ span' = [span EXCEPT ![r] = {}]

\* Mutant: the rows of a file that is being ingested are read, too.
DirtyLoad(r) ==
    /\ Move(r, "load", "discrepancies")
    /\ book' = [book EXCEPT ![r] = Rows]
    /\ UNCHANGED <<tables, busy, reply, txn>>

\* LoadTransactions is one SELECT.  The engine is pure; it needs no step.
Load(r) ==
    /\ Move(r, "load", "discrepancies")
    /\ book' = [book EXCEPT ![r] = rows]
    /\ UNCHANGED <<tables, busy, reply, txn>>

\* A DELETE, or the UPDATE of all statuses, begins.
Look(r) ==
    /\ at[r] \in DOMAIN Clears \cup {"statuses"}
    /\ ~looked[r]
    /\ looked' = [looked EXCEPT ![r] = TRUE]
    /\ IF at[r] = "statuses"
       THEN span' = [span EXCEPT ![r] = rows] /\ UNCHANGED seen
       ELSE seen' = [seen EXCEPT ![r] = In(Clears[at[r]])] /\ UNCHANGED span
    /\ UNCHANGED <<tables, busy, at, reply, book, gone>>

\* No other open transaction has deleted a row of S.
Free(r, S) == \A q \in Runs \ {r} : gone[q] \cap S = {}

\* The rows that reference a match of S by their foreign key.
Referring(S) ==
    {t \in In({"match_member", "fee"}) :
        \E g \in S : g.run = t.run /\ g.entry.of = t.entry.of}

\* Mutant: the schema has no foreign keys.
NoForeignKey(r) == r \in Runs

Unreferenced(r) == Referring(seen[r] \cap db) \subseteq gone[r]

\* A DELETE acts.  Matches can go only if nothing refers to them any more.
Clear(r) ==
    /\ at[r] \in DOMAIN Clears
    /\ looked[r]
    /\ Free(r, seen[r])
    /\ at[r] = "groups" => Free(r, Referring(seen[r])) /\ Unreferenced(r)
    /\ gone' = [gone EXCEPT ![r] = @ \cup (seen[r] \cap db)]
    /\ Move(r, at[r], Following[at[r]])
    /\ looked' = [looked EXCEPT ![r] = FALSE]
    /\ seen' = [seen EXCEPT ![r] = {}]
    /\ UNCHANGED <<tables, busy, reply, book, span>>

\* The transactions whose rows run r has locked by its UPDATE.
Locked(r) == IF at[r] \in {"insert", "commit"} THEN span[r] ELSE {}

\* The UPDATE acts.
Reset(r) ==
    /\ looked[r]
    /\ \A q \in Runs \ {r} : Locked(q) \cap span[r] = {}
    /\ Move(r, "statuses", "insert")
    /\ UNCHANGED <<tables, busy, reply, book, txn>>

\* Mutant: the schema does not keep a transaction out of a second match.
NotUnique(r) == r \in Runs

\* The INSERTs: a transaction is a member of one match only.
Unique(r) ==
    \A t \in In({"match_member"}) \ gone[r] :
        t.entry.of \cap MatchedIn(book[r]) = {}

Insert(r) ==
    /\ Unique(r)
    /\ Move(r, "insert", "commit")
    /\ UNCHANGED <<tables, busy, reply, book, txn>>

\* Mutant: the statuses are not reset.
KeepStatuses(r) ==
    /\ db' = (db \ gone[r]) \cup Written(r, book[r])
    /\ matched' = matched \cup MatchedIn(book[r])
    /\ Close(r)
    /\ UNCHANGED <<rows, book>>

\* What a COMMIT makes visible.
Apply(r) ==
    /\ db' = (db \ gone[r]) \cup Written(r, book[r])
    /\ matched' = (matched \ span[r]) \cup MatchedIn(book[r])
    /\ Close(r)
    /\ UNCHANGED <<rows, book>>

\* Mutant: the lock covers the database only, not what is recorded after it.
CommitAndUnlock(r) ==
    /\ reply[r] = "none"
    /\ Move(r, "commit", "answer")
    /\ Apply(r)
    /\ busy' = busy \ {Home[r]}
    /\ UNCHANGED reply

Commit(r) ==
    /\ reply[r] = "none"
    /\ Move(r, "commit", "answer")
    /\ Apply(r)
    /\ UNCHANGED <<busy, reply>>

Answer(r) ==
    /\ Move(r, "answer", "ended")
    /\ End(r, "ok")
    /\ UNCHANGED <<tables, book, txn>>

-----------------------------------------------------------------------------
(* Failures *)

\* The transaction is open, if any, and the run has not given it up.
Working(r) ==
    /\ at[r] \notin {"request", "answer", "error", "ended"}
    /\ reply[r] = "none"

\* Mutant: the statements are not in one transaction.
PartlySaved(r) ==
    /\ Working(r)
    /\ at' = [at EXCEPT ![r] = "error"]
    /\ db' = db \ gone[r]
    /\ Close(r)
    /\ UNCHANGED <<rows, matched, busy, reply, book>>

\* Mutant: the transaction of a failed run keeps its connection.
LeaveOpen(r) ==
    /\ Working(r)
    /\ End(r, "failed")
    /\ UNCHANGED <<tables, at, book, txn>>

\* Rolled back; the run knows an error.
Fail(r) ==
    /\ Working(r)
    /\ at' = [at EXCEPT ![r] = "error"]
    /\ Close(r)
    /\ UNCHANGED <<tables, busy, reply, book>>

\* Committed, but the acknowledgement is lost: to the run, an error.
LoseAck(r) ==
    /\ reply[r] = "none"
    /\ Move(r, "commit", "error")
    /\ Apply(r)
    /\ UNCHANGED <<busy, reply>>

\* The caller gets the error.
Excuse(r) ==
    /\ Move(r, "error", "ended")
    /\ End(r, "failed")
    /\ UNCHANGED <<tables, book, txn>>

\* The caller hangs up, which cancels the request's context: SaveResult
\* returns while its COMMIT is still under way in the database.
GiveUp(r) ==
    /\ Lingers
    /\ at[r] = "commit" /\ reply[r] = "none"
    /\ End(r, "failed")
    /\ UNCHANGED <<tables, at, book, txn>>

\* That COMMIT takes effect after all.
LateCommit(r) ==
    /\ reply[r] = "failed"
    /\ Move(r, "commit", "ended")
    /\ Apply(r)
    /\ UNCHANGED <<busy, reply>>

\* Or it does not.
LateRollback(r) ==
    /\ reply[r] = "failed"
    /\ Move(r, "commit", "ended")
    /\ Close(r)
    /\ UNCHANGED <<tables, busy, reply, book>>

\* A file is ingested (module Ingest): its rows appear at once.
Ingest ==
    /\ \E S \in Files : rows' = rows \cup S
    /\ UNCHANGED <<db, matched, busy, at, reply, book, txn>>

-----------------------------------------------------------------------------
Next ==
    \/ Ingest
    \/ \E r \in Runs :
           \/ Start(r) \/ Refuse(r)
           \/ Load(r) \/ Look(r) \/ Clear(r) \/ Reset(r) \/ Insert(r)
           \/ Commit(r) \/ Answer(r)
           \/ Fail(r) \/ LoseAck(r) \/ Excuse(r)
           \/ GiveUp(r) \/ LateCommit(r) \/ LateRollback(r)

Spec == Init /\ [][Next]_vars

\* The statement of run r breaks a constraint.
Broken(r) ==
    \/ at[r] = "insert" /\ ~Unique(r)
    \/ at[r] = "groups" /\ looked[r] /\ ~Unreferenced(r)

-----------------------------------------------------------------------------
(* Correctness *)

TypeOK ==
    /\ rows \subseteq Rows /\ matched \subseteq rows
    /\ db \subseteq Entered
    /\ busy \subseteq Processes
    /\ at \in [Runs -> Stages]
    /\ reply \in [Runs -> Replies]
    /\ book \in [Runs -> SUBSET Rows]
    /\ looked \in [Runs -> BOOLEAN]
    /\ seen \in [Runs -> SUBSET Entered]
    /\ gone \in [Runs -> SUBSET Entered]
    /\ span \in [Runs -> SUBSET Rows]

\* Nobody ever reads a mixture of two runs, or a part of one: the stored
\* result, and every status, is what one run wrote (ADR 0005: two runs never
\* race on the replace-in-place transaction).
ResultIsWhole ==
    \/ db = {} /\ matched = {}
    \/ \E r \in Runs : db = Written(r, book[r]) /\ matched = MatchedIn(book[r])

\* A caller is told of success while what its run computed is what is stored.
AnsweredIsStored ==
    \A r \in Runs : at[r] = "answer" =>
        db = Written(r, book[r]) /\ matched = MatchedIn(book[r])

\* Whoever writes, no transaction is ever a member of two matches (guarantee
\* 2, ADR 0004: no code path can bypass the schema).
NoDoubleMatch ==
    \A s, t \in In({"match_member"}) :
        s # t => s.entry.of \cap t.entry.of = {}

\* Whoever writes, a member or fee never outlives its match.
NoOrphans ==
    \A t \in In({"match_member", "fee"}) :
        \E g \in In({"match_group"}) :
            g.run = t.run /\ g.entry.of = t.entry.of

\* The database as its readers see it.
L == INSTANCE Ledger WITH stored <- {t.entry : t \in db}

\* Every step of every run is one of the ledger's, or invisible.
KeepsTheLedger == L!Spec
=============================================================================
