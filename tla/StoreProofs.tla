----------------------------- MODULE StoreProofs -----------------------------
(***************************************************************************)
(* Theorems about the results in the database.  First, whoever writes      *)
(* them: any number of processes and runs, with every failure of module    *)
(* Store, COMMITs that outlive their run included.  Then about starting    *)
(* the program beside them (module Upgrade), for any number of starters:   *)
(* the schema changes as a whole, and who migrates first is never refused  *)
(* by an old check.                                                        *)
(*                                                                         *)
(* Last, while one process writes them and a COMMIT ends before its run    *)
(* does: what ADR 0005 relies on.  Run mixed_runs shows that without the   *)
(* first assumption they fail.  And about that process (module Server):    *)
(* its counters and its gauges.                                            *)
(***************************************************************************)
EXTENDS Upgrade, Server, FiniteSetTheorems, TLAPS

-----------------------------------------------------------------------------
(* What a run writes *)

\* Every row it writes has its type, and only members of its book are matched.
LEMMA WrittenType ==
    ASSUME NEW r \in Runs, NEW B \in SUBSET Rows
    PROVE  /\ Written(r, B) \subseteq Entered
           /\ MatchedIn(B) \subseteq B
<1>1. /\ Outcome[B].matches \subseteq SUBSET Rows
      /\ Outcome[B].fees \subseteq Outcome[B].matches
      /\ (UNION Outcome[B].matches) \cup Outcome[B].left = B
    BY OutcomeAssumption
<1>2. Outcome[B].left \subseteq Rows
    BY <1>1
<1>3. Entries(B) \subseteq Entry
    BY <1>1, <1>2 DEF Entries, Entry, Tables
<1> QED
    BY <1>1, <1>3 DEF Written, Entered, MatchedIn

-----------------------------------------------------------------------------
(* Types *)

\* A run only ever knows rows of the table.
BookInv == TypeOK /\ \A r \in Runs : book[r] \subseteq rows

\* At the beginning no run has loaded anything.
LEMMA InitBook == Init => BookInv
BY DEF Init, BookInv, TypeOK, Stages, Replies, Processes

\* A COMMIT writes rows of the right types.
LEMMA ApplyBook ==
    ASSUME BookInv, NEW r \in Runs, Apply(r)
    PROVE  /\ db' \subseteq Entered
           /\ matched' \subseteq rows
           /\ looked' \in [Runs -> BOOLEAN]
           /\ seen' \in [Runs -> SUBSET Entered]
           /\ gone' \in [Runs -> SUBSET Entered]
           /\ span' \in [Runs -> SUBSET Rows]
<1>1. Written(r, book[r]) \subseteq Entered /\ MatchedIn(book[r]) \subseteq rows
    BY WrittenType DEF BookInv, TypeOK
<1> QED
    BY <1>1 DEF Apply, Close, BookInv, TypeOK

\* BookInv is inductive.
LEMMA StepBook ==
    ASSUME BookInv, [Next]_vars
    PROVE  BookInv'
<1> USE DEF BookInv, TypeOK, Stages, Replies, tables, txn
<1>1. CASE UNCHANGED vars
    BY <1>1 DEF vars
<1>2. CASE Ingest
    BY <1>2, FilesAssumption DEF Ingest
<1>3. ASSUME NEW r \in Runs, Start(r) PROVE BookInv'
    BY <1>3 DEF Start, Move, Processes
<1>4. ASSUME NEW r \in Runs, Refuse(r) PROVE BookInv'
    BY <1>4 DEF Refuse, Move
<1>5. ASSUME NEW r \in Runs, Load(r) PROVE BookInv'
    BY <1>5 DEF Load, Move
<1>6. ASSUME NEW r \in Runs, Look(r) PROVE BookInv'
    BY <1>6 DEF Look, In
<1>7. ASSUME NEW r \in Runs, Clear(r) PROVE BookInv'
    <2>1. Following[at[r]] \in Stages
        BY <1>7 DEF Clear, Clears, Following
    <2> QED
        BY <1>7, <2>1 DEF Clear, Move
<1>8. ASSUME NEW r \in Runs, Reset(r) PROVE BookInv'
    BY <1>8 DEF Reset, Move
<1>9. ASSUME NEW r \in Runs, Insert(r) PROVE BookInv'
    BY <1>9 DEF Insert, Move
<1>10. ASSUME NEW r \in Runs, Commit(r) PROVE BookInv'
    BY <1>10, ApplyBook DEF Commit, Move, Apply
<1>11. ASSUME NEW r \in Runs, Answer(r) PROVE BookInv'
    BY <1>11 DEF Answer, Move, End
<1>12. ASSUME NEW r \in Runs, Fail(r) PROVE BookInv'
    BY <1>12 DEF Fail, Close
<1>13. ASSUME NEW r \in Runs, LoseAck(r) PROVE BookInv'
    BY <1>13, ApplyBook DEF LoseAck, Move, Apply
<1>14. ASSUME NEW r \in Runs, GiveUp(r) PROVE BookInv'
    BY <1>14 DEF GiveUp, End
<1>15. ASSUME NEW r \in Runs, LateCommit(r) PROVE BookInv'
    BY <1>15, ApplyBook DEF LateCommit, Move, Apply
<1>16. ASSUME NEW r \in Runs, LateRollback(r) PROVE BookInv'
    BY <1>16 DEF LateRollback, Move, Close
<1>17. ASSUME NEW r \in Runs, Excuse(r) PROVE BookInv'
    BY <1>17 DEF Excuse, Move, End
<1> QED
    BY <1>1, <1>2, <1>3, <1>4, <1>5, <1>6, <1>7, <1>8, <1>9, <1>10, <1>11,
       <1>12, <1>13, <1>14, <1>15, <1>16, <1>17 DEF Next

\* The variables hold values of their types, whatever runs do at once.
THEOREM TypeCorrect == Spec => []TypeOK
<1>1. BookInv => TypeOK
    BY DEF BookInv
<1> QED
    BY <1>1, InitBook, StepBook, PTL DEF Spec

-----------------------------------------------------------------------------
(* No double match *)

\* The transactions of its book are among those whose status a run resets.
Spans ==
    \A r \in Runs :
        at[r] \in {"insert", "commit"} \/ (at[r] = "statuses" /\ looked[r]) =>
            book[r] \subseteq span[r]

\* No two runs have reset the status of one transaction and not committed.
Apart == \A r, q \in Runs : r # q => Locked(r) \cap Locked(q) = {}

\* What the unique index allowed stays allowed until the COMMIT.
Insertable == \A r \in Runs : at[r] = "commit" => Unique(r)

MatchInv == BookInv /\ Spans /\ Apart /\ Insertable /\ NoDoubleMatch

\* At the beginning nothing is stored.
LEMMA InitMatch == Init => MatchInv
BY InitBook DEF Init, MatchInv, Spans, Apart, Insertable, NoDoubleMatch, Locked, In

\* The members a run writes are pairwise disjoint, and are of its book.
LEMMA WrittenMembers ==
    ASSUME NEW r \in Runs, NEW B \in SUBSET Rows,
           NEW s \in Written(r, B), s.entry.table = "match_member"
    PROVE  /\ s.entry.of \subseteq MatchedIn(B)
           /\ \A t \in Written(r, B) :
                 t.entry.table = "match_member" /\ s # t =>
                     s.entry.of \cap t.entry.of = {}
<1>1. ASSUME NEW t \in Written(r, B), t.entry.table = "match_member"
      PROVE  /\ t = [run |-> r,
                     entry |-> [table |-> "match_member", of |-> t.entry.of]]
             /\ t.entry.of \in Outcome[B].matches
    <2>1. PICK e \in Entries(B) : t = [run |-> r, entry |-> e]
        BY DEF Written
    <2>2. e.table = "match_member"
        BY <2>1, <1>1
    <2>3. PICK S \in Outcome[B].matches : e = [table |-> "match_member", of |-> S]
        BY <2>2 DEF Entries
    <2> QED
        BY <2>1, <2>3
<1>2. \A S, T \in Outcome[B].matches : S # T => S \cap T = {}
    BY OutcomeAssumption
<1>3. s.entry.of \subseteq MatchedIn(B)
    BY <1>1 DEF MatchedIn
<1>4. ASSUME NEW t \in Written(r, B), t.entry.table = "match_member", s # t
      PROVE  s.entry.of \cap t.entry.of = {}
    <2>1. s.entry.of # t.entry.of
        BY <1>1, <1>4
    <2> QED
        BY <1>1, <1>2, <1>4, <2>1
<1> QED
    BY <1>3, <1>4

\* A COMMIT keeps the invariant: nobody else holds a transaction of its book.
LEMMA ApplyMatch ==
    ASSUME MatchInv, NEW r \in Runs, Apply(r), at[r] = "commit",
           NEW stage \in {"answer", "error", "ended"},
           at' = [at EXCEPT ![r] = stage]
    PROVE  Spans' /\ Apart' /\ Insertable' /\ NoDoubleMatch'
<1> USE DEF MatchInv, BookInv, TypeOK
<1>1. /\ db' = (db \ gone[r]) \cup Written(r, book[r])
      /\ gone' = [gone EXCEPT ![r] = {}]
      /\ span' = [span EXCEPT ![r] = {}]
      /\ looked' = [looked EXCEPT ![r] = FALSE]
      /\ book' = book
    BY DEF Apply, Close
<1>2. \A q \in Runs \ {r} : /\ at'[q] = at[q] /\ span'[q] = span[q]
                            /\ looked'[q] = looked[q] /\ gone'[q] = gone[q]
    BY <1>1
<1>3. at'[r] = stage
    OBVIOUS
<1>4. MatchedIn(book[r]) \subseteq span[r]
    BY WrittenType DEF Spans
<1>5. \A q \in Runs : MatchedIn(book[q]) \subseteq book[q]
    BY WrittenType
<1>6. Spans'
    BY <1>1, <1>2, <1>3 DEF Spans
<1>7. Apart'
    BY <1>2, <1>3 DEF Apart, Locked
<1>8. Insertable'
    <2> SUFFICES ASSUME NEW q \in Runs, at'[q] = "commit",
                        NEW t \in In({"match_member"})' \ gone'[q]
                 PROVE  t.entry.of \cap MatchedIn(book[q]) = {}
        BY <1>1 DEF Insertable, Unique
    <2>1. q # r /\ at[q] = "commit"
        BY <1>2, <1>3
    <2>2. CASE t \in db
        BY <2>1, <2>2, <1>1, <1>2 DEF Insertable, Unique, In
    <2>3. CASE t \in Written(r, book[r])
        <3>1. t.entry.of \subseteq span[r]
            BY <2>3, <1>4, WrittenMembers DEF In
        <3>2. MatchedIn(book[q]) \subseteq span[q]
            BY <2>1, <1>5 DEF Spans
        <3>3. span[r] \cap span[q] = {}
            BY <2>1 DEF Apart, Locked
        <3> QED
            BY <3>1, <3>2, <3>3
    <2> QED
        BY <2>2, <2>3, <1>1 DEF In
<1>9. NoDoubleMatch'
    <2> SUFFICES ASSUME NEW s \in In({"match_member"})',
                        NEW t \in In({"match_member"})', s # t
                 PROVE  s.entry.of \cap t.entry.of = {}
        BY DEF NoDoubleMatch
    <2>1. CASE s \in db \ gone[r] /\ t \in db \ gone[r]
        BY <2>1 DEF NoDoubleMatch, In
    <2>2. CASE s \in Written(r, book[r]) /\ t \in Written(r, book[r])
        BY <2>2, WrittenMembers DEF In
    <2>3. \A u \in db \ gone[r], w \in Written(r, book[r]) :
              u.entry.table = "match_member" /\ w.entry.table = "match_member"
                  => u.entry.of \cap w.entry.of = {}
        BY WrittenMembers DEF Insertable, Unique, In
    <2> QED
        BY <2>1, <2>2, <2>3, <1>1 DEF In
<1> QED
    BY <1>6, <1>7, <1>8, <1>9

\* MatchInv is inductive.
LEMMA StepMatch ==
    ASSUME MatchInv, [Next]_vars
    PROVE  MatchInv'
<1>0. BookInv'
    BY StepBook DEF MatchInv
<1> SUFFICES Spans' /\ Apart' /\ Insertable' /\ NoDoubleMatch'
    BY <1>0 DEF MatchInv
<1> USE DEF MatchInv, BookInv, TypeOK, tables, txn
<1>1. ASSUME UNCHANGED <<db, at, book, looked, gone, span>>
      PROVE  Spans' /\ Apart' /\ Insertable' /\ NoDoubleMatch'
    BY <1>1 DEF Spans, Apart, Insertable, Unique, Locked, NoDoubleMatch, In
\* A run that is not about to commit moves to a stage before its INSERTs.
<1>2. ASSUME NEW r \in Runs, UNCHANGED <<db, span>>,
             NEW stage \in Stages \ {"insert", "commit"},
             at' = [at EXCEPT ![r] = stage],
             \A q \in Runs \ {r} : looked'[q] = looked[q] /\ book'[q] = book[q]
                                   /\ gone'[q] = gone[q],
             stage = "statuses" => ~looked'[r]
      PROVE  Spans' /\ Apart' /\ Insertable' /\ NoDoubleMatch'
    <2>1. at'[r] = stage /\ \A q \in Runs \ {r} : at'[q] = at[q]
        BY <1>2
    <2>2. NoDoubleMatch'
        BY <1>2 DEF NoDoubleMatch, In
    <2>3. Spans' /\ Apart'
        BY <1>2, <2>1 DEF Spans, Apart, Locked
    <2>4. Insertable'
        BY <1>2, <2>1 DEF Insertable, Unique, In
    <2> QED
        BY <2>2, <2>3, <2>4
<1>3. CASE UNCHANGED vars \/ Ingest
    BY <1>3, <1>1, FilesAssumption DEF vars, Ingest
<1>4. ASSUME NEW r \in Runs,
             Start(r) \/ Refuse(r) \/ Load(r) \/ Answer(r) \/ Excuse(r)
      PROVE  Spans' /\ Apart' /\ Insertable' /\ NoDoubleMatch'
    BY <1>4, <1>2 DEF Start, Refuse, Load, Answer, Excuse, Move, End, Stages
<1>5. ASSUME NEW r \in Runs, Look(r)
      PROVE  Spans' /\ Apart' /\ Insertable' /\ NoDoubleMatch'
    <2>1. at[r] \notin {"insert", "commit"}
        BY <1>5 DEF Look, Clears
    <2>2. UNCHANGED <<db, at, book, gone>>
        BY <1>5 DEF Look
    <2>3. at[r] = "statuses" => book'[r] \subseteq span'[r]
        BY <1>5 DEF Look
    <2>4. \A q \in Runs \ {r} : span'[q] = span[q] /\ looked'[q] = looked[q]
        BY <1>5 DEF Look
    <2>5. Spans' /\ Apart'
        BY <2>1, <2>2, <2>3, <2>4 DEF Spans, Apart, Locked
    <2> QED
        BY <2>2, <2>5 DEF Insertable, Unique, NoDoubleMatch, In
<1>6. ASSUME NEW r \in Runs, Clear(r)
      PROVE  Spans' /\ Apart' /\ Insertable' /\ NoDoubleMatch'
    <2>1. Following[at[r]] \in Stages \ {"insert", "commit"}
        BY <1>6 DEF Clear, Clears, Following, Stages
    <2>2. \A q \in Runs \ {r} : looked'[q] = looked[q] /\ gone'[q] = gone[q]
        BY <1>6 DEF Clear
    <2>3. ~looked'[r]
        BY <1>6 DEF Clear
    <2> QED
        BY <1>6, <2>1, <2>2, <2>3, <1>2 DEF Clear, Move
<1>7. ASSUME NEW r \in Runs, Reset(r)
      PROVE  Spans' /\ Apart' /\ Insertable' /\ NoDoubleMatch'
    <2>1. /\ at' = [at EXCEPT ![r] = "insert"]
          /\ \A q \in Runs \ {r} : Locked(q) \cap span[r] = {}
          /\ at[r] = "statuses" /\ looked[r]
          /\ UNCHANGED <<db, book, looked, gone, span>>
        BY <1>7 DEF Reset, Move
    <2>2. Spans' /\ Apart'
        BY <2>1 DEF Spans, Apart, Locked
    <2> QED
        BY <2>1, <2>2 DEF Insertable, Unique, NoDoubleMatch, In
<1>8. ASSUME NEW r \in Runs, Insert(r)
      PROVE  Spans' /\ Apart' /\ Insertable' /\ NoDoubleMatch'
    BY <1>8 DEF Insert, Move, Spans, Apart, Locked, Insertable, Unique,
                NoDoubleMatch, In
<1>9. ASSUME NEW r \in Runs, Commit(r) \/ LoseAck(r) \/ LateCommit(r)
      PROVE  Spans' /\ Apart' /\ Insertable' /\ NoDoubleMatch'
    BY <1>9, ApplyMatch DEF Commit, LoseAck, LateCommit, Move
<1>10. ASSUME NEW r \in Runs, Fail(r) \/ LateRollback(r)
       PROVE  Spans' /\ Apart' /\ Insertable' /\ NoDoubleMatch'
    <2>1. /\ \/ at' = [at EXCEPT ![r] = "error"]
             \/ at' = [at EXCEPT ![r] = "ended"]
          /\ db' = db /\ book' = book
          /\ Close(r)
        BY <1>10 DEF Fail, LateRollback, Move
    <2>2. \A q \in Runs \ {r} : /\ looked'[q] = looked[q] /\ at'[q] = at[q]
                                /\ gone'[q] = gone[q] /\ span'[q] = span[q]
        BY <2>1 DEF Close
    <2>3. at'[r] \in {"error", "ended"}
        BY <2>1
    <2>4. Spans' /\ Apart'
        BY <2>1, <2>2, <2>3 DEF Spans, Apart, Locked
    <2> QED
        BY <2>1, <2>2, <2>3, <2>4 DEF Insertable, Unique, NoDoubleMatch, In
<1>11. ASSUME NEW r \in Runs, GiveUp(r)
       PROVE  Spans' /\ Apart' /\ Insertable' /\ NoDoubleMatch'
    BY <1>11, <1>1 DEF GiveUp
<1> QED
    BY <1>3, <1>4, <1>5, <1>6, <1>7, <1>8, <1>9, <1>10, <1>11 DEF Next

\* No transaction is ever a member of two matches, in whatever way the runs of
\* several processes interleave and fail.
THEOREM NeverMatchedTwice == Spec => []NoDoubleMatch
<1>1. MatchInv => NoDoubleMatch
    BY DEF MatchInv
<1> QED
    BY <1>1, InitMatch, StepMatch, PTL DEF Spec

-----------------------------------------------------------------------------
(* No orphans *)

Over == {"answer", "error", "ended"}

\* What is stored, seen or deleted was written by a run that is over, so a run
\* never adds a member to a match someone else has deleted.
Past ==
    /\ \A t \in db : at[t.run] \in Over
    /\ \A r \in Runs : \A t \in seen[r] \cup gone[r] : at[t.run] \in Over

\* A DELETE sees rows of its own tables.
Tidy ==
    /\ \A r \in Runs : looked[r] => at[r] \notin {"request", "load"}
    /\ \A r \in Runs : ~looked[r] => seen[r] = {}
    /\ \A r \in Runs : at[r] \in DOMAIN Clears =>
           \A t \in seen[r] : t.entry.table \in Clears[at[r]]

\* Who has deleted a match has deleted what refers to it.
Backed ==
    \A r \in Runs : \A g \in gone[r] :
        g.entry.table = "match_group" => Referring({g}) \subseteq gone[r]

OrphanInv == BookInv /\ Past /\ Tidy /\ Backed /\ NoOrphans

\* At the beginning nothing is stored, seen or deleted.
LEMMA InitOrphan == Init => OrphanInv
BY InitBook DEF Init, OrphanInv, Past, Tidy, Backed, NoOrphans, In

\* The members and fees a run writes come with their match.
LEMMA WrittenGroups ==
    ASSUME NEW r \in Runs, NEW B \in SUBSET Rows, NEW t \in Written(r, B),
           t.entry.table \in {"match_member", "fee"}
    PROVE  \E g \in Written(r, B) :
               /\ g.entry.table = "match_group"
               /\ g.run = t.run /\ g.entry.of = t.entry.of
<1>1. PICK e \in Entries(B) : t = [run |-> r, entry |-> e]
    BY DEF Written
<1>2. PICK S \in Outcome[B].matches : e.of = S
    BY <1>1, OutcomeAssumption DEF Entries
<1> DEFINE g == [run |-> r, entry |-> [table |-> "match_group", of |-> S]]
<1>3. g \in Written(r, B)
    BY DEF Written, Entries
<1> QED
    BY <1>1, <1>2, <1>3

\* A row knows the run that wrote it.
LEMMA WrittenRun ==
    ASSUME NEW r \in Runs, NEW B, NEW t \in Written(r, B)
    PROVE  t.run = r
BY DEF Written

\* A COMMIT keeps the invariant: its rows belong to no match that others have
\* deleted.
LEMMA ApplyOrphan ==
    ASSUME OrphanInv, NEW r \in Runs, Apply(r), at[r] = "commit",
           NEW stage \in Over, at' = [at EXCEPT ![r] = stage]
    PROVE  Past' /\ Tidy' /\ Backed' /\ NoOrphans'
<1> USE DEF OrphanInv, BookInv, TypeOK, Entered
<1>1. /\ db' = (db \ gone[r]) \cup Written(r, book[r])
      /\ gone' = [gone EXCEPT ![r] = {}]
      /\ seen' = [seen EXCEPT ![r] = {}]
      /\ looked' = [looked EXCEPT ![r] = FALSE]
    BY DEF Apply, Close
<1>2. \A q \in Runs \ {r} : /\ at'[q] = at[q] /\ seen'[q] = seen[q]
                            /\ looked'[q] = looked[q] /\ gone'[q] = gone[q]
    BY <1>1
<1>3. /\ at'[r] = stage /\ gone'[r] = {} /\ seen'[r] = {} /\ ~looked'[r]
    BY <1>1
<1>4. \A q \in Runs : at[q] \in Over => at'[q] \in Over
    BY <1>2, <1>3
<1>5. \A t \in Written(r, book[r]) : t.run = r
    BY WrittenRun
<1>6. Past'
    <2>1. \A t \in db' : at'[t.run] \in Over
        BY <1>1, <1>3, <1>4, <1>5 DEF Past
    <2>2. \A q \in Runs : \A t \in seen'[q] \cup gone'[q] : at'[t.run] \in Over
        BY <1>2, <1>3, <1>4 DEF Past
    <2> QED
        BY <2>1, <2>2 DEF Past
<1>7. Tidy'
    BY <1>2, <1>3 DEF Tidy, Over, Clears
<1>8. Backed'
    <2> SUFFICES ASSUME NEW q \in Runs, NEW g \in gone'[q],
                        g.entry.table = "match_group", NEW t \in Referring({g})'
                 PROVE  t \in gone'[q]
        BY DEF Backed
    <2>1. q # r /\ g \in gone[q]
        BY <1>2, <1>3
    <2>2. at[g.run] \in Over
        BY <2>1 DEF Past
    <2>3. g.run # r
        BY <2>2 DEF Over
    <2>4. t.run = g.run
        BY DEF Referring
    <2>5. t \in db
        BY <2>3, <2>4, <1>1, <1>5 DEF Referring, In
    <2>6. t \in Referring({g})
        BY <2>5 DEF Referring, In
    <2> QED
        BY <2>1, <2>6, <1>2 DEF Backed
<1>9. NoOrphans'
    <2> SUFFICES ASSUME NEW t \in In({"match_member", "fee"})'
                 PROVE  \E g \in In({"match_group"})' :
                            g.run = t.run /\ g.entry.of = t.entry.of
        BY DEF NoOrphans
    <2>1. CASE t \in db \ gone[r]
        <3>1. PICK g \in In({"match_group"}) :
                  g.run = t.run /\ g.entry.of = t.entry.of
            BY <2>1 DEF NoOrphans, In
        <3>2. t \in Referring({g})
            BY <2>1, <3>1 DEF Referring, In
        <3>3. g \notin gone[r]
            BY <2>1, <3>1, <3>2 DEF Backed, In
        <3> QED
            BY <1>1, <3>1, <3>3 DEF In
    <2>2. CASE t \in Written(r, book[r])
        BY <2>2, <1>1, WrittenGroups DEF In
    <2> QED
        BY <2>1, <2>2, <1>1 DEF In
<1> QED
    BY <1>6, <1>7, <1>8, <1>9

\* OrphanInv is inductive.
LEMMA StepOrphan ==
    ASSUME OrphanInv, [Next]_vars
    PROVE  OrphanInv'
<1>0. BookInv'
    BY StepBook DEF OrphanInv
<1> SUFFICES Past' /\ Tidy' /\ Backed' /\ NoOrphans'
    BY <1>0 DEF OrphanInv
<1> USE DEF OrphanInv, BookInv, TypeOK, Entered, tables, txn
\* A step that neither looks nor deletes.
<1>1. ASSUME UNCHANGED <<db, seen, gone, looked>>,
             \A q \in Runs : at[q] \in Over => at'[q] \in Over,
             \A q \in Runs : looked'[q] => at'[q] \notin {"request", "load"},
             \A q \in Runs : at'[q] = at[q] \/ ~looked[q]
                             \/ at'[q] \notin DOMAIN Clears
      PROVE  Past' /\ Tidy' /\ Backed' /\ NoOrphans'
    <2>1. Past'
        BY <1>1 DEF Past
    <2>2. Tidy'
        BY <1>1 DEF Tidy
    <2> QED
        BY <1>1, <2>1, <2>2 DEF Backed, NoOrphans, In, Referring
<1>2. CASE UNCHANGED vars \/ Ingest
    BY <1>2, <1>1 DEF vars, Ingest, Tidy
<1>3. ASSUME NEW r \in Runs,
             Start(r) \/ Refuse(r) \/ Load(r) \/ Answer(r) \/ Excuse(r)
             \/ GiveUp(r)
      PROVE  Past' /\ Tidy' /\ Backed' /\ NoOrphans'
    <2>1. \/ at' = at
          \/ /\ at[r] = "request" /\ at' = [at EXCEPT ![r] = "load"]
          \/ /\ at[r] = "request" /\ at' = [at EXCEPT ![r] = "ended"]
          \/ /\ at[r] = "load" /\ at' = [at EXCEPT ![r] = "discrepancies"]
          \/ /\ at[r] \in {"answer", "error"}
             /\ at' = [at EXCEPT ![r] = "ended"]
        BY <1>3 DEF Start, Refuse, Load, Answer, Excuse, GiveUp, Move
    <2>2. UNCHANGED <<db, seen, gone, looked>>
        BY <1>3 DEF Start, Refuse, Load, Answer, Excuse, GiveUp
    <2>3. looked[r] => at[r] \notin {"request", "load"}
        BY DEF Tidy
    <2> QED
        BY <2>1, <2>2, <2>3, <1>1 DEF Over, Tidy, Clears
<1>4. ASSUME NEW r \in Runs, Look(r)
      PROVE  Past' /\ Tidy' /\ Backed' /\ NoOrphans'
    <2>1. /\ UNCHANGED <<db, at, gone>>
          /\ at[r] \in DOMAIN Clears \cup {"statuses"} /\ ~looked[r]
          /\ looked' = [looked EXCEPT ![r] = TRUE]
        BY <1>4 DEF Look
    <2>2. seen'[r] \subseteq db
        BY <1>4 DEF Look, In, Tidy
    <2>3. at[r] \in DOMAIN Clears =>
              \A t \in seen'[r] : t.entry.table \in Clears[at[r]]
        BY <1>4 DEF Look, In, Clears
    <2>4. \A q \in Runs \ {r} : seen'[q] = seen[q] /\ looked'[q] = looked[q]
        BY <1>4 DEF Look
    <2>5. Past'
        BY <2>1, <2>2, <2>4 DEF Past
    <2>6. Tidy'
        BY <2>1, <2>3, <2>4 DEF Tidy, Clears
    <2> QED
        BY <2>1, <2>5, <2>6 DEF Backed, NoOrphans, In, Referring
<1>5. ASSUME NEW r \in Runs, Clear(r)
      PROVE  Past' /\ Tidy' /\ Backed' /\ NoOrphans'
    <2>1. /\ at[r] \in DOMAIN Clears
          /\ at' = [at EXCEPT ![r] = Following[at[r]]]
          /\ looked' = [looked EXCEPT ![r] = FALSE]
          /\ seen' = [seen EXCEPT ![r] = {}]
          /\ gone' = [gone EXCEPT ![r] = @ \cup (seen[r] \cap db)]
          /\ db' = db
        BY <1>5 DEF Clear, Move
    <2>2. at[r] \in {"discrepancies", "members", "groups"}
          /\ Following[at[r]] \in {"members", "groups", "statuses"}
        BY <2>1 DEF Clears, Following
    <2>3. \A q \in Runs : at[q] \in Over => at'[q] \in Over
        BY <2>1, <2>2 DEF Over
    <2>4. Past'
        BY <2>1, <2>3 DEF Past
    <2>5. Tidy'
        BY <2>1, <2>2 DEF Tidy, Clears
    <2>6. Backed'
        <3> SUFFICES ASSUME NEW q \in Runs, NEW g \in gone'[q],
                            g.entry.table = "match_group"
                     PROVE  Referring({g}) \subseteq gone'[q]
            BY <2>1 DEF Backed, Referring, In
        <3>1. CASE g \in gone[q]
            BY <2>1, <3>1 DEF Backed
        <3>2. CASE g \notin gone[q]
            <4>1. q = r /\ g \in seen[r]
                BY <2>1, <3>2
            <4>2. at[r] = "groups"
                BY <4>1, <2>2 DEF Tidy, Clears
            <4>3. Referring(seen[r] \cap db) \subseteq gone[r]
                BY <4>2, <1>5 DEF Clear, Unreferenced
            <4>4. Referring({g}) \subseteq Referring(seen[r] \cap db)
                BY <4>1, <2>1, <3>2 DEF Referring
            <4> QED
                BY <4>1, <4>3, <4>4, <2>1
        <3> QED
            BY <3>1, <3>2
    <2> QED
        BY <2>1, <2>4, <2>5, <2>6 DEF NoOrphans, In
<1>6. ASSUME NEW r \in Runs, Reset(r) \/ Insert(r)
      PROVE  Past' /\ Tidy' /\ Backed' /\ NoOrphans'
    <2>1. \/ at[r] = "statuses" /\ at' = [at EXCEPT ![r] = "insert"]
          \/ at[r] = "insert" /\ at' = [at EXCEPT ![r] = "commit"]
        BY <1>6 DEF Reset, Insert, Move
    <2>2. UNCHANGED <<db, seen, gone, looked>>
        BY <1>6 DEF Reset, Insert
    <2> QED
        BY <2>1, <2>2, <1>1 DEF Over, Tidy, Clears
<1>7. ASSUME NEW r \in Runs, Commit(r) \/ LoseAck(r) \/ LateCommit(r)
      PROVE  Past' /\ Tidy' /\ Backed' /\ NoOrphans'
    BY <1>7, ApplyOrphan DEF Commit, LoseAck, LateCommit, Move, Over
<1>8. ASSUME NEW r \in Runs, Fail(r) \/ LateRollback(r)
      PROVE  Past' /\ Tidy' /\ Backed' /\ NoOrphans'
    <2>1. /\ \/ at' = [at EXCEPT ![r] = "error"]
             \/ at' = [at EXCEPT ![r] = "ended"]
          /\ db' = db
          /\ looked' = [looked EXCEPT ![r] = FALSE]
          /\ seen' = [seen EXCEPT ![r] = {}]
          /\ gone' = [gone EXCEPT ![r] = {}]
        BY <1>8 DEF Fail, LateRollback, Move, Close
    <2>2. Past'
        BY <2>1 DEF Past, Over
    <2>3. Tidy'
        BY <2>1 DEF Tidy, Clears
    <2>4. Backed'
        BY <2>1 DEF Backed, Referring, In
    <2> QED
        BY <2>1, <2>2, <2>3, <2>4 DEF NoOrphans, In
<1> QED
    BY <1>2, <1>3, <1>4, <1>5, <1>6, <1>7, <1>8 DEF Next

\* A member or fee never outlives its match, in whatever way the runs of
\* several processes interleave and fail.
THEOREM NeverAnOrphan == Spec => []NoOrphans
<1>1. OrphanInv => NoOrphans
    BY DEF OrphanInv
<1> QED
    BY <1>1, InitOrphan, StepOrphan, PTL DEF Spec

-----------------------------------------------------------------------------
(* The schema *)

SchemaTypeOK ==
    /\ checks \in [Altered -> Versions]
    /\ step \in [Starters -> Steps]
    /\ held \in [Starters -> SUBSET Altered]

\* Where a starter is says what it has altered, and in what schema.
OfStep(m) ==
    /\ step[m] \in {"create", "creating", "kinds", "done", "failed"} => held[m] = {}
    /\ step[m] \in {"kinds", "types", "commit", "done"} => Exist
    /\ step[m] = "types" => \/ held[m] = {"match_group"} /\ checks = Both("first")
                            \/ held[m] = {} /\ checks = Both("second")
    /\ step[m] = "commit" => \/ held[m] = Altered /\ checks = Both("first")
                             \/ held[m] = {} /\ checks = Both("second")
    /\ step[m] = "done" => checks = Both("second")

\* What one starter has altered is locked for all others.
OneHolder == \A m, n \in Starters : m # n => held[m] \cap held[n] = {}

SchemaInv ==
    /\ SchemaTypeOK
    /\ SchemaIsOfOneVersion
    /\ OneHolder
    /\ \A m \in Starters : OfStep(m)

\* The three schemas differ.
LEMMA VersionsDiffer ==
    /\ \A v \in Versions : /\ Both(v) \in [Altered -> Versions]
                           /\ \A t \in Altered : Both(v)[t] = v
    /\ Both("absent") # Both("first") /\ Both("absent") # Both("second")
    /\ Both("first") # Both("second")
<1>1. \A v \in Versions : /\ Both(v) \in [Altered -> Versions]
                          /\ \A t \in Altered : Both(v)[t] = v
    BY DEF Both
<1>2. "match_group" \in Altered /\ {"absent", "first", "second"} = Versions
    BY DEF Altered, Versions
<1> QED
    BY <1>1, <1>2

\* A starter that alters a table is the only one that can commit.
LEMMA AlterStep ==
    ASSUME SchemaInv, NEW m \in Starters,
           \/ Alter(m, "match_group", "kinds", "types")
           \/ Alter(m, "discrepancy", "types", "commit")
    PROVE  SchemaInv'
<1> USE DEF SchemaInv, SchemaTypeOK
<1>1. checks' = checks /\ Exist' = Exist
    BY DEF Alter, Exist
<1>2. /\ step' \in [Starters -> Steps] /\ held' \in [Starters -> SUBSET Altered]
      /\ \A n \in Starters \ {m} : step'[n] = step[n] /\ held'[n] = held[n]
    BY DEF Alter, Go, Steps, Altered
<1>3. SchemaIsOfOneVersion'
    BY <1>1 DEF SchemaIsOfOneVersion
<1>4. OneHolder'
    BY <1>2 DEF OneHolder, Alter, Alone
<1>5. \A n \in Starters \ {m} : OfStep(n)'
    BY <1>1, <1>2 DEF OfStep
<1>6. Exist
    BY DEF Alter, Go, OfStep
<1>7. checks \in {Both("first"), Both("second")}
    BY <1>6 DEF SchemaIsOfOneVersion, Versions, Exist
<1>8. OfStep(m)'
    <2>1. CASE Alter(m, "match_group", "kinds", "types")
        <3>1. step[m] = "kinds" /\ held[m] = {} /\ step'[m] = "types"
            BY <2>1 DEF Alter, Go, OfStep
        <3>2. CASE checks = Both("second")
            <4>1. checks["match_group"] = "second"
                BY <3>2, VersionsDiffer DEF Altered, Versions
            <4>2. held' = held
                BY <2>1, <4>1 DEF Alter
            <4> QED
                BY <1>1, <1>6, <3>1, <3>2, <4>2 DEF OfStep
        <3>3. CASE checks = Both("first")
            <4>1. checks["match_group"] = "first"
                BY <3>3, VersionsDiffer DEF Altered, Versions
            <4>2. held'[m] = {"match_group"}
                BY <2>1, <3>1, <4>1 DEF Alter
            <4> QED
                BY <1>1, <1>6, <3>1, <3>3, <4>2 DEF OfStep
        <3> QED
            BY <1>7, <3>2, <3>3
    <2>2. CASE Alter(m, "discrepancy", "types", "commit")
        <3>1. step[m] = "types" /\ step'[m] = "commit"
            BY <2>2 DEF Alter, Go
        <3>2. CASE held[m] = {} /\ checks = Both("second")
            <4>1. checks["discrepancy"] = "second"
                BY <3>2, VersionsDiffer DEF Altered, Versions
            <4>2. held' = held
                BY <2>2, <4>1 DEF Alter
            <4> QED
                BY <1>1, <1>6, <3>1, <3>2, <4>2 DEF OfStep
        <3>3. CASE held[m] = {"match_group"} /\ checks = Both("first")
            <4>1. checks["discrepancy"] = "first"
                BY <3>3, VersionsDiffer DEF Altered, Versions
            <4>2. held'[m] = Altered
                BY <2>2, <3>3, <4>1 DEF Alter, Altered
            <4> QED
                BY <1>1, <1>6, <3>1, <3>3, <4>2 DEF OfStep
        <3> QED
            BY <3>1, <3>2, <3>3 DEF OfStep
    <2> QED
        BY <2>1, <2>2
<1> QED
    BY <1>1, <1>2, <1>3, <1>4, <1>5, <1>8

\* A commit of 0002 replaces both checks or none; nobody else is about to.
LEMMA MigratedStep ==
    ASSUME SchemaInv, NEW m \in Starters, Migrated(m)
    PROVE  SchemaInv'
<1> USE DEF SchemaInv, SchemaTypeOK
<1>1. /\ step[m] = "commit" /\ step'[m] = "done" /\ held'[m] = {}
      /\ step' \in [Starters -> Steps] /\ held' \in [Starters -> SUBSET Altered]
      /\ \A n \in Starters \ {m} : step'[n] = step[n] /\ held'[n] = held[n]
    BY DEF Migrated, Go, Steps
<1>2. checks' = Both("second")
    <2>1. CASE held[m] = Altered
        BY <2>1 DEF Migrated, Both
    <2>2. CASE held[m] = {} /\ checks = Both("second")
        <3>1. \A t \in Altered : checks[t] = "second"
            BY <2>2, VersionsDiffer DEF Versions
        <3> QED
            BY <2>2, <3>1 DEF Migrated, Both
    <2> QED
        BY <1>1, <2>1, <2>2 DEF OfStep
<1>3. SchemaIsOfOneVersion' /\ checks' \in [Altered -> Versions]
    BY <1>2, VersionsDiffer DEF SchemaIsOfOneVersion, Versions
<1>4. OneHolder'
    BY <1>1 DEF OneHolder
<1>5. Exist'
    BY <1>2, VersionsDiffer DEF Exist
<1>6. OfStep(m)'
    BY <1>1, <1>2, <1>5 DEF OfStep
<1>7. ASSUME NEW n \in Starters \ {m} PROVE OfStep(n)'
    <2>1. CASE held[m] = Altered
        <3>1. held[n] = {}
            BY <2>1 DEF OneHolder
        <3> QED
            BY <1>1, <1>2, <1>5, <3>1 DEF OfStep, Altered
    <2>2. CASE held[m] = {} /\ checks = Both("second")
        <3>1. checks # Both("first")
            BY <2>2, VersionsDiffer
        <3> QED
            BY <1>1, <1>2, <1>5, <3>1 DEF OfStep
    <2> QED
        BY <1>1, <2>1, <2>2 DEF OfStep
<1> QED
    BY <1>1, <1>3, <1>4, <1>6, <1>7

\* A step that creates the tables, or changes nothing in the schema.
LEMMA FirstFileStep ==
    ASSUME SchemaInv, NEW m \in Starters,
           Keep(m) \/ Create(m) \/ Created(m) \/ TooLate(m) \/ Abort(m)
    PROVE  SchemaInv'
<1> USE DEF SchemaInv, SchemaTypeOK
<1>1. /\ step' \in [Starters -> Steps] /\ held' \in [Starters -> SUBSET Altered]
      /\ \A n \in Starters \ {m} : step'[n] = step[n] /\ held'[n] = held[n]
      /\ held'[m] = {}
      /\ step'[m] \in {"creating", "kinds", "failed"}
    BY DEF Keep, Create, Created, TooLate, Abort, Go, Steps, OfStep
<1>2. \/ checks' = checks /\ (step'[m] = "kinds" => Exist)
      \/ ~Exist /\ checks' = Both("first")
    BY DEF Keep, Create, Created, TooLate, Abort, Go
<1>3. SchemaIsOfOneVersion' /\ checks' \in [Altered -> Versions]
    BY <1>2, VersionsDiffer DEF SchemaIsOfOneVersion, Versions
<1>4. OneHolder'
    BY <1>1 DEF OneHolder
<1>5. ASSUME NEW n \in Starters PROVE OfStep(n)'
    <2>1. CASE n = m
        <3>1. step'[m] = "kinds" => Exist'
            BY <1>2, VersionsDiffer DEF Exist
        <3> QED
            BY <1>1, <2>1, <3>1 DEF OfStep
    <2>2. CASE n # m /\ checks' = checks
        BY <1>1, <2>2 DEF OfStep, Exist
    <2>3. CASE n # m /\ ~Exist
        BY <1>1, <2>3 DEF OfStep
    <2> QED
        BY <1>2, <2>1, <2>2, <2>3
<1> QED
    BY <1>1, <1>3, <1>4, <1>5

\* Runs change nothing in the schema.
LEMMA RunStep ==
    ASSUME SchemaInv, UNCHANGED schemaVars
    PROVE  SchemaInv'
BY DEF SchemaInv, SchemaTypeOK, SchemaIsOfOneVersion, OneHolder, OfStep, Exist,
       schemaVars

LEMMA SchemaAlways == UpgradeSpec => []SchemaInv
<1>1. UpgradeInit => SchemaInv
    BY VersionsDiffer
       DEF UpgradeInit, SchemaInv, SchemaTypeOK, SchemaIsOfOneVersion, OneHolder,
           OfStep, Steps
<1>2. SchemaInv /\ [UpgradeNext]_upgradeVars => SchemaInv'
    BY AlterStep, MigratedStep, FirstFileStep, RunStep
       DEF UpgradeNext, upgradeVars
<1> QED
    BY <1>1, <1>2, PTL DEF UpgradeSpec

\* However many commands start at once, and wherever they fail, the checks of
\* the two tables are of one version for whoever reads them.
THEOREM OneVersionAlways == UpgradeSpec => []SchemaIsOfOneVersion
BY SchemaAlways, PTL DEF SchemaInv

-----------------------------------------------------------------------------
(* Runs on the schema *)

\* Every step of a starter leaves the runs alone, and every other is one of
\* theirs: what holds of Store holds beside any number of starters.
THEOREM UpgradeImplementsStore == UpgradeSpec => Spec
<1>1. UpgradeInit => Init
    BY DEF UpgradeInit
<1>2. ASSUME NEW m \in Starters,
             \/ Keep(m) \/ Create(m) \/ Created(m) \/ TooLate(m)
             \/ Alter(m, "match_group", "kinds", "types")
             \/ Alter(m, "discrepancy", "types", "commit")
             \/ Migrated(m) \/ Abort(m)
      PROVE  UNCHANGED vars
    BY <1>2 DEF Keep, Create, Created, TooLate, Alter, Migrated, Abort
<1>3. ASSUME NEW r \in Runs, Work(r) PROVE Next
    BY <1>3 DEF Work, Next
<1>4. [UpgradeNext]_upgradeVars => [Next]_vars
    BY <1>2, <1>3 DEF UpgradeNext, Next, upgradeVars, vars
<1> QED
    BY <1>1, <1>4, PTL DEF UpgradeSpec, Spec

\* The schema's constraints hold for every reader while commands start.
THEOREM ConstraintsHold == UpgradeSpec => [](NoDoubleMatch /\ NoOrphans)
BY UpgradeImplementsStore, NeverMatchedTwice, NeverAnOrphan, PTL

\* A run of a process that migrates starts after that.
Prepared == \A r \in Runs : at[r] # "request" => Ready(r)

\* Migrated is for ever.
LEMMA DoneStays ==
    ASSUME SchemaTypeOK, [UpgradeNext]_upgradeVars, NEW m \in Starters,
           step[m] = "done"
    PROVE  step'[m] = "done"
<1>1. ASSUME NEW n \in Starters,
             \/ Keep(n) \/ Create(n) \/ Created(n) \/ TooLate(n)
             \/ Alter(n, "match_group", "kinds", "types")
             \/ Alter(n, "discrepancy", "types", "commit")
             \/ Migrated(n) \/ Abort(n)
      PROVE  step'[m] = "done"
    BY <1>1 DEF Keep, Create, Created, TooLate, Alter, Migrated, Abort, Go,
                SchemaTypeOK
<1> QED
    BY <1>1 DEF UpgradeNext, upgradeVars, schemaVars

LEMMA PreparedStep ==
    ASSUME SchemaTypeOK, TypeOK, Prepared, [UpgradeNext]_upgradeVars
    PROVE  Prepared'
<1>1. ASSUME NEW r \in Runs, Ready(r) PROVE Ready(r)'
    BY <1>1, DoneStays, StartersAssumption DEF Ready
<1>2. ASSUME NEW r \in Runs, at[r] = "request", at'[r] # "request" PROVE Ready(r)
    <2>1. ASSUME NEW q \in Runs, at[q] # "request",
                 \E stage : at' = [at EXCEPT ![q] = stage]
          PROVE  FALSE
        BY <1>2, <2>1 DEF TypeOK
    <2>2. ASSUME NEW q \in Runs, Start(q) /\ Ready(q) PROVE Ready(r)
        BY <1>2, <2>2 DEF Start, Move, TypeOK
    <2>3. at' # at
        BY <1>2
    <2>4. ASSUME NEW q \in Runs,
                 \/ Work(q) \/ Fail(q) \/ LoseAck(q) \/ Excuse(q)
                 \/ GiveUp(q) \/ LateCommit(q) \/ LateRollback(q)
          PROVE  FALSE
        <3>1. at[q] # "request"
            BY <2>3, <2>4 DEF Work, Load, Look, Clear, Reset, Insert, Commit, Answer,
                         Fail, LoseAck, Excuse, GiveUp, LateCommit, LateRollback,
                         Move, Working, Clears
        <3>2. \E stage : at' = [at EXCEPT ![q] = stage]
            BY <2>3, <2>4 DEF Work, Load, Look, Clear, Reset, Insert, Commit, Answer,
                         Fail, LoseAck, Excuse, GiveUp, LateCommit, LateRollback,
                         Move
        <3> QED
            BY <2>1, <3>1, <3>2
    <2>5. ASSUME NEW m \in Starters,
                 \/ Keep(m) \/ Create(m) \/ Created(m) \/ TooLate(m)
                 \/ Alter(m, "match_group", "kinds", "types")
                 \/ Alter(m, "discrepancy", "types", "commit")
                 \/ Migrated(m) \/ Abort(m)
          PROVE  FALSE
        BY <2>3, <2>5 DEF Keep, Create, Created, TooLate, Alter, Migrated, Abort,
                          vars
    <2> QED
        BY <2>2, <2>3, <2>4, <2>5 DEF UpgradeNext, upgradeVars, vars, Ingest
<1> QED
    BY <1>1, <1>2 DEF Prepared

\* An old check refuses a result only in a run of a command that does not
\* migrate, before any other command has: serve never fails for that reason.
THEOREM MigratedIsNeverRefused == UpgradeSpec => []OnlyUnmigratedIsRefused
<1>1. UpgradeInit => Prepared
    BY DEF UpgradeInit, Init, Prepared
<1>2. SchemaInv /\ TypeOK /\ Prepared /\ [UpgradeNext]_upgradeVars => Prepared'
    BY PreparedStep DEF SchemaInv
<1>3. SchemaInv /\ Prepared => OnlyUnmigratedIsRefused
    <2> SUFFICES ASSUME SchemaInv, Prepared, NEW r \in Runs,
                        at[r] = "insert", ~Admitted(r)
                 PROVE  Needs[r] = {} /\ \A m \in Starters : step[m] # "done"
        BY DEF OnlyUnmigratedIsRefused
    <2>1. checks # Both("second")
        BY VersionsDiffer DEF Admitted, Altered, Versions
    <2>2. \A m \in Starters : step[m] # "done"
        BY <2>1 DEF SchemaInv, OfStep
    <2>3. Needs[r] = {}
        BY <2>2, StartersAssumption DEF Prepared, Ready
    <2> QED
        BY <2>2, <2>3
<1>4. UpgradeSpec => []TypeOK
    BY UpgradeImplementsStore, TypeCorrect, PTL
<1> QED
    BY <1>1, <1>2, <1>3, <1>4, SchemaAlways, PTL DEF UpgradeSpec

-----------------------------------------------------------------------------
(* One process, and no lingering commit *)

\* All runs share one run lock.
OneProcess == \E p : \A r \in Runs : Home[r] = p

Active(r) == at[r] \notin {"request", "ended"}

\* The lock is held for the active run, and there is only one.
Solo ==
    /\ \A r \in Runs : Active(r) => Home[r] \in busy
    /\ \A r \in Runs : at[r] # "ended" => reply[r] = "none"
    /\ \A r, q \in Runs : Active(r) /\ Active(q) => r = q

\* The transaction of a run has deleted the whole result, table by table.
Deleting ==
    \A r \in Runs :
        /\ at[r] \in DOMAIN Clears /\ looked[r] => In(Clears[at[r]]) \subseteq seen[r]
        /\ at[r] = "members" => In({"discrepancy", "fee"}) \subseteq gone[r]
        /\ at[r] = "groups" =>
               In({"discrepancy", "fee", "match_member"}) \subseteq gone[r]
        /\ at[r] \in {"statuses", "insert", "commit"} => db \subseteq gone[r]
        /\ at[r] \in {"insert", "commit"} \/ (at[r] = "statuses" /\ looked[r]) =>
               matched \subseteq span[r]

\* What is stored is about transactions a later run knows.
Known ==
    /\ \A t \in db : t.entry.of \subseteq rows
    /\ \A r \in Runs : Active(r) /\ at[r] \notin {"load", "answer", "error"} =>
           \A t \in db : t.entry.of \subseteq book[r]

\* Run r has written what is stored.
Wrote(r) == db = Written(r, book[r]) /\ matched = MatchedIn(book[r])

Stored ==
    /\ \/ db = {} /\ matched = {}
       \/ \E r \in Runs : at[r] \in Over /\ Wrote(r)
    /\ \A r \in Runs : at[r] = "answer" => Wrote(r)

SoloInv == OrphanInv /\ Solo /\ Deleting /\ Known /\ Stored

\* At the beginning no run is active.
LEMMA InitSolo == Init => SoloInv
BY InitOrphan DEF Init, SoloInv, Solo, Active, Deleting, Known, Stored, Clears

-----------------------------------------------------------------------------
\* What a run writes is about its book.
LEMMA WrittenOf ==
    ASSUME NEW r \in Runs, NEW B \in SUBSET Rows, NEW t \in Written(r, B)
    PROVE  t.entry.of \subseteq B
<1>1. PICK e \in Entries(B) : t = [run |-> r, entry |-> e]
    BY DEF Written
<1>2. /\ (UNION Outcome[B].matches) \cup Outcome[B].left = B
      /\ Outcome[B].fees \subseteq Outcome[B].matches
    BY OutcomeAssumption
<1>3. e.of \subseteq B
    BY <1>2 DEF Entries
<1> QED
    BY <1>1, <1>3

\* The lock admits one run at a time.
LEMMA StepSolo ==
    ASSUME OneProcess, ~Lingers, SoloInv, [Next]_vars
    PROVE  Solo'
<1> USE DEF SoloInv, OrphanInv, BookInv, TypeOK, Solo, Active
<1>0. \A r, q \in Runs : Home[r] = Home[q]
    BY DEF OneProcess
<1>1. CASE UNCHANGED vars \/ Ingest
    BY <1>1 DEF vars, Ingest
<1>2. ASSUME NEW r \in Runs, Start(r) PROVE Solo'
    <2>1. \A q \in Runs : ~Active(q)
        BY <1>0, <1>2 DEF Start
    <2> QED
        BY <1>2, <2>1 DEF Start, Move
<1>3. ASSUME NEW r \in Runs, Refuse(r) PROVE Solo'
    BY <1>3 DEF Refuse, Move
\* A step of the active run that keeps the lock.
<1>4. ASSUME NEW r \in Runs, Active(r), UNCHANGED <<busy, reply>>,
             \A q \in Runs \ {r} : at'[q] = at[q]
      PROVE  Solo'
    BY <1>4
<1>5. ASSUME NEW r \in Runs,
             Load(r) \/ Look(r) \/ Clear(r) \/ Reset(r) \/ Insert(r)
             \/ Commit(r) \/ Fail(r) \/ LoseAck(r)
             \/ LateCommit(r) \/ LateRollback(r)
      PROVE  Solo'
    <2>1. Active(r) /\ UNCHANGED <<busy, reply>>
        BY <1>5 DEF Load, Look, Clear, Reset, Insert, Commit, Fail, LoseAck,
                    LateCommit, LateRollback, Move, Clears, Working
    <2>2. \A q \in Runs \ {r} : at'[q] = at[q]
        BY <1>5 DEF Load, Look, Clear, Reset, Insert, Commit, Fail, LoseAck,
                    LateCommit, LateRollback, Move
    <2> QED
        BY <2>1, <2>2, <1>4
<1>6. ASSUME NEW r \in Runs, Answer(r) \/ Excuse(r) PROVE Solo'
    <2>1. Active(r) /\ at' = [at EXCEPT ![r] = "ended"]
        BY <1>6 DEF Answer, Excuse, Move
    <2>2. \A q \in Runs \ {r} : reply'[q] = reply[q]
        BY <1>6 DEF Answer, Excuse, End
    <2>3. \A q \in Runs : ~(at'[q] \notin {"request", "ended"})
        BY <2>1
    <2> QED
        BY <2>1, <2>2, <2>3
<1>7. ASSUME NEW r \in Runs, GiveUp(r) PROVE Solo'
    BY <1>7 DEF GiveUp
<1> QED
    BY <1>1, <1>2, <1>3, <1>5, <1>6, <1>7 DEF Next

\* A COMMIT of the active run replaces all that was stored.
LEMMA ApplySolo ==
    ASSUME SoloInv, NEW r \in Runs, Apply(r), at[r] = "commit",
           NEW stage \in Over, at' = [at EXCEPT ![r] = stage]
    PROVE  /\ db' = Written(r, book[r]) /\ matched' = MatchedIn(book[r])
           /\ Deleting' /\ Known' /\ Stored'
<1> USE DEF SoloInv, OrphanInv, BookInv, TypeOK
<1>1. /\ db' = (db \ gone[r]) \cup Written(r, book[r])
      /\ matched' = (matched \ span[r]) \cup MatchedIn(book[r])
      /\ UNCHANGED <<rows, book>>
    BY DEF Apply
<1>2. db \subseteq gone[r] /\ matched \subseteq span[r]
    BY DEF Deleting
<1>3. db' = Written(r, book[r]) /\ matched' = MatchedIn(book[r])
    BY <1>1, <1>2
<1>4. \A q \in Runs : at'[q] \in {"request", "ended", "answer", "error"}
    BY DEF Solo, Active, Over
<1>5. \A q \in Runs : at'[q] = "answer" => q = r
    BY DEF Solo, Active
<1>6. Deleting'
    BY <1>4 DEF Deleting, Clears
<1>7. \A t \in db' : t.entry.of \subseteq book[r]
    BY <1>3, WrittenOf
<1>8. Known'
    BY <1>1, <1>4, <1>7 DEF Known, Active
<1>9. Stored'
    BY <1>1, <1>3, <1>5, ZenonT(40) DEF Stored, Wrote, Written, Over
<1> QED
    BY <1>3, <1>6, <1>8, <1>9

\* What all other steps leave as it is.
LEMMA OtherSteps ==
    ASSUME [Next]_vars
    PROVE  \/ /\ UNCHANGED <<db, matched>>
              /\ rows \subseteq rows'
              /\ \/ rows' = rows
                 \/ Ingest
           \/ \E r \in Runs : Commit(r) \/ LoseAck(r) \/ LateCommit(r)
BY DEF Next, vars, tables, txn, Ingest, Start, Refuse, Load, Look, Clear,
       Reset, Insert, Answer, Fail, Excuse, GiveUp, LateRollback

\* The rest of SoloInv is inductive: only a COMMIT changes the result.
LEMMA StepStored ==
    ASSUME SoloInv, [Next]_vars
    PROVE  Deleting' /\ Known' /\ Stored'
<1> USE DEF SoloInv, OrphanInv, BookInv, TypeOK, tables, txn
\* A step of a run that writes nothing, and is not over before or after it.
<1>1. ASSUME NEW r \in Runs, UNCHANGED <<db, matched, rows>>,
             \A q \in Runs \ {r} : at'[q] = at[q] /\ book'[q] = book[q],
             at[r] \in Over => at'[r] \in Over /\ book'[r] = book[r],
             at'[r] # "answer"
      PROVE  Stored'
    BY <1>1 DEF Stored, Wrote, Written, Over
\* The other runs are where they were.
<1>2. ASSUME NEW r \in Runs, UNCHANGED <<db, matched, rows>>,
             \A q \in Runs \ {r} :
                 /\ at'[q] = at[q] /\ looked'[q] = looked[q]
                 /\ seen'[q] = seen[q] /\ gone'[q] = gone[q]
                 /\ span'[q] = span[q] /\ book'[q] = book[q],
             at'[r] \in {"request", "load", "answer", "error", "ended"}
      PROVE  Deleting' /\ Known'
    BY <1>2 DEF Deleting, Known, Active, In, Clears
<1>3. CASE UNCHANGED vars
    BY <1>3 DEF vars, Deleting, Known, Stored, Wrote, Written, Active, In
<1>4. CASE Ingest
    BY <1>4 DEF Ingest, Deleting, Known, Stored, Wrote, Written, Active, In
<1>5. ASSUME NEW r \in Runs, Start(r) \/ Refuse(r)
      PROVE  Deleting' /\ Known' /\ Stored'
    BY <1>5, <1>1, <1>2 DEF Start, Refuse, Move, Over
<1>6. ASSUME NEW r \in Runs, Load(r)
      PROVE  Deleting' /\ Known' /\ Stored'
    <2>1. ~looked[r]
        BY <1>6 DEF Load, Move, Tidy
    <2>2. Deleting' /\ Known'
        BY <1>6, <2>1 DEF Load, Move, Deleting, Known, Active, In, Clears
    <2> QED
        BY <1>6, <2>2, <1>1 DEF Load, Move, Over
<1>7. ASSUME NEW r \in Runs, Look(r)
      PROVE  Deleting' /\ Known' /\ Stored'
    <2>1. UNCHANGED <<db, matched, rows, at, book, gone>>
        BY <1>7 DEF Look
    <2>2. Deleting'
        BY <1>7, <2>1 DEF Look, Deleting, In, Clears
    <2>3. Known' /\ Stored'
        BY <2>1 DEF Known, Active, Stored, Wrote, Written
    <2> QED
        BY <2>2, <2>3
<1>8. ASSUME NEW r \in Runs, Clear(r)
      PROVE  Deleting' /\ Known' /\ Stored'
    <2>1. /\ at[r] \in DOMAIN Clears /\ looked[r]
          /\ at' = [at EXCEPT ![r] = Following[at[r]]]
          /\ looked' = [looked EXCEPT ![r] = FALSE]
          /\ seen' = [seen EXCEPT ![r] = {}]
          /\ gone' = [gone EXCEPT ![r] = @ \cup (seen[r] \cap db)]
          /\ UNCHANGED <<db, matched, rows, book, span>>
        BY <1>8 DEF Clear, Move
    <2>2. /\ at[r] \in {"discrepancies", "members", "groups"}
          /\ at'[r] = Following[at[r]]
        BY <2>1 DEF Clears
    <2>3. In(Clears[at[r]]) \subseteq gone'[r] /\ gone[r] \subseteq gone'[r]
        BY <2>1 DEF Deleting, In
    <2>4. \A t \in db : t.entry.table \in Tables
        BY DEF Entered, Entry
    <2>5. /\ at'[r] = "members" => In({"discrepancy", "fee"}) \subseteq gone'[r]
          /\ at'[r] = "groups" =>
                 In({"discrepancy", "fee", "match_member"}) \subseteq gone'[r]
          /\ at'[r] = "statuses" => db \subseteq gone'[r]
          /\ at'[r] \in {"members", "groups", "statuses"}
        BY <2>2, <2>3, <2>4 DEF Deleting, Clears, Following, In, Tables
    <2>6. Deleting'
        BY <2>1, <2>5 DEF Deleting, In
    <2>7. Known'
        BY <2>1, <2>2 DEF Known, Active
    <2>8. Stored'
        BY <2>1, <2>2, <2>5, <1>1 DEF Over
    <2> QED
        BY <2>6, <2>7, <2>8
<1>9. ASSUME NEW r \in Runs, Reset(r) \/ Insert(r)
      PROVE  Deleting' /\ Known' /\ Stored'
    <2>1. /\ UNCHANGED <<db, matched, rows, book, looked, seen, gone, span>>
          /\ \/ /\ at[r] = "statuses" /\ looked[r]
                /\ at' = [at EXCEPT ![r] = "insert"]
             \/ at[r] = "insert" /\ at' = [at EXCEPT ![r] = "commit"]
        BY <1>9 DEF Reset, Insert, Move
    <2>2. Deleting'
        BY <2>1 DEF Deleting, In, Clears
    <2>3. Known'
        BY <2>1 DEF Known, Active
    <2> QED
        BY <2>1, <2>2, <2>3, <1>1 DEF Over
<1>10. ASSUME NEW r \in Runs, Commit(r) \/ LoseAck(r) \/ LateCommit(r)
       PROVE  Deleting' /\ Known' /\ Stored'
    BY <1>10, ApplySolo DEF Commit, LoseAck, LateCommit, Move, Over
<1>11. ASSUME NEW r \in Runs,
              Answer(r) \/ Excuse(r) \/ Fail(r) \/ LateRollback(r)
       PROVE  Deleting' /\ Known' /\ Stored'
    <2>1. /\ UNCHANGED <<db, matched, rows, book>>
          /\ \/ at' = [at EXCEPT ![r] = "error"]
             \/ at' = [at EXCEPT ![r] = "ended"]
        BY <1>11 DEF Answer, Excuse, Fail, LateRollback, Move
    <2>2. \A q \in Runs \ {r} :
              /\ looked'[q] = looked[q] /\ seen'[q] = seen[q]
              /\ gone'[q] = gone[q] /\ span'[q] = span[q]
        BY <1>11 DEF Answer, Excuse, Fail, LateRollback, Close
    <2> QED
        BY <2>1, <2>2, <1>1, <1>2 DEF Over
<1>12. ASSUME NEW r \in Runs, GiveUp(r)
       PROVE  Deleting' /\ Known' /\ Stored'
    BY <1>12 DEF GiveUp, Deleting, Known, Stored, Wrote, Written, Active, In
<1> QED
    BY <1>3, <1>4, <1>5, <1>6, <1>7, <1>8, <1>9, <1>10, <1>11, <1>12 DEF Next

\* SoloInv always holds when all runs share one lock.
LEMMA SoloAlways ==
    ASSUME OneProcess, ~Lingers
    PROVE  Spec => []SoloInv
<1>1. SoloInv /\ [Next]_vars => SoloInv'
    BY StepOrphan, StepSolo, StepStored DEF SoloInv
<1> QED
    BY <1>1, InitSolo, PTL DEF Spec

-----------------------------------------------------------------------------
(* What readers and callers see *)

\* With one process, what is stored is the whole result of one run, and the
\* statuses are those of that run, at every moment and after every failure.
THEOREM AlwaysOneWholeResult ==
    ASSUME OneProcess, ~Lingers
    PROVE  Spec => []ResultIsWhole
<1>1. SoloInv => ResultIsWhole
    BY DEF SoloInv, Stored, Wrote, ResultIsWhole
<1> QED
    BY <1>1, SoloAlways, PTL

\* With one process, a caller is told of success while its result is stored.
THEOREM SuccessIsStored ==
    ASSUME OneProcess, ~Lingers
    PROVE  Spec => []AnsweredIsStored
<1>1. SoloInv => AnsweredIsStored
    BY DEF SoloInv, Stored, Wrote, AnsweredIsStored
<1> QED
    BY <1>1, SoloAlways, PTL

\* With one process, the runs implement the ledger: rows are only added, and a
\* result is replaced at one moment by that of a later book.
THEOREM StoreImplementsLedger ==
    ASSUME OneProcess, ~Lingers
    PROVE  Spec => KeepsTheLedger
<1>1. Init => L!Init
    BY DEF Init, L!Init
<1>2. SoloInv /\ [Next]_vars => [L!Next]_(L!vars)
    <2> SUFFICES ASSUME SoloInv, [Next]_vars PROVE [L!Next]_(L!vars)
        OBVIOUS
    <2> USE DEF SoloInv, OrphanInv, BookInv, TypeOK
    <2>1. CASE UNCHANGED <<db, matched, rows>>
        BY <2>1 DEF L!vars
    <2>2. CASE Ingest
        <3>1. UNCHANGED <<db, matched>> /\ \E S \in SUBSET Rows : rows' = rows \cup S
            BY <2>2, FilesAssumption DEF Ingest
        <3> QED
            BY <3>1 DEF L!Next, L!Add
    <2>3. ASSUME NEW r \in Runs, Commit(r) \/ LoseAck(r) \/ LateCommit(r)
          PROVE  L!Next
        <3>1. /\ db' = Written(r, book[r]) /\ matched' = MatchedIn(book[r])
              /\ rows' = rows
            BY <2>3, ApplySolo
               DEF Commit, LoseAck, LateCommit, Move, Over, Apply
        <3>2. {t.entry : t \in db'} = L!Entries(book[r])
            <4>1. L!Entries(book[r]) = Entries(book[r])
                BY DEF Entries, L!Entries
            <4>2. \A t \in Written(r, book[r]) : t.entry \in Entries(book[r])
                BY DEF Written
            <4>3. ASSUME NEW e \in Entries(book[r])
                  PROVE  \E t \in Written(r, book[r]) : t.entry = e
                <5>1. [run |-> r, entry |-> e] \in Written(r, book[r])
                    BY DEF Written
                <5> QED
                    BY <5>1
            <4> QED
                BY <3>1, <4>1, <4>2, <4>3
        <3>3. matched' = L!MatchedIn(book[r])
            BY <3>1 DEF MatchedIn, L!MatchedIn
        <3>4. \A t \in db : t.entry.of \subseteq book[r]
            BY <2>3 DEF Commit, LoseAck, LateCommit, Move, Known, Active
        <3>5. L!Covered({t.entry : t \in db}) \subseteq book[r]
            BY <3>4 DEF L!Covered
        <3> QED
            BY <3>1, <3>2, <3>3, <3>5 DEF L!Next, L!Replace
    <2> QED
        BY <2>1, <2>2, <2>3, OtherSteps
<1> QED
    BY <1>1, <1>2, SoloAlways, PTL DEF Spec, KeepsTheLedger, L!Spec

-----------------------------------------------------------------------------
(* The server around the runs *)

\* Every step of the server is one of Store's, or leaves its variables alone.
LEMMA ServerStep == ASSUME [ServerNext]_serverVars PROVE [Next]_vars
<1>1. CASE UNCHANGED serverVars
    BY <1>1 DEF serverVars, vars
<1>2. CASE Signal \/ Drained \/ Abandon \/ Exit
    BY <1>2 DEF Signal, Drained, Abandon, Exit, vars
<1>3. ASSUME NEW r \in Runs,
             Begin(r) \/ Decline(r) \/ CountAttempt(r) \/ Proceed(r)
             \/ Err(r) \/ CountFailure(r) \/ RunError(r)
             \/ Record(r) \/ Respond(r)
      PROVE  [Next]_vars
    BY <1>3 DEF Begin, Decline, CountAttempt, Proceed, Err, CountFailure, RunError,
                Record, Respond, Next, vars
<1> QED
    BY <1>1, <1>2, <1>3 DEF ServerNext, Next

\* Metrics and shutdown add nothing to what the runs do to the database: every
\* theorem about Store is one about the server.
THEOREM ServerImplementsStore == ServerSpec => Spec
<1>1. ServerInit => Init
    BY DEF ServerInit
<1>2. [ServerNext]_serverVars => [Next]_vars
    BY ServerStep
<1> QED
    BY <1>1, <1>2, PTL DEF ServerSpec, Spec

\* Where a run stands when the server is at it.
LEMMA AtWork ==
    ASSUME SoloInv, NEW r \in Runs, at[r] \notin {"request", "ended"}
    PROVE  /\ reply[r] = "none"
           /\ Home[r] \in busy
           /\ \A q \in Runs \ {r} : at[q] \in {"request", "ended"}
BY DEF SoloInv, Solo, Active

\* A run has counted its attempt and neither failed nor answered.
Running == \E r \in Runs : Active(r) /\ counted[r] = "attempt"

\* The counters, and where a run stands that has counted.
CountInv ==
    /\ attempts \in Nat /\ failures \in Nat
    /\ IsFiniteSet(Succeeded) /\ IsFiniteSet(busy)
    /\ counted \in [Runs -> {"nothing", "attempt", "failure"}]
    /\ \A r \in Runs : at[r] = "request" => counted[r] = "nothing"
    /\ \A r \in Runs : at[r] = "answer" => counted[r] = "attempt"
    /\ attempts = failures + Cardinality(Succeeded) + (IF Running THEN 1 ELSE 0)

\* CountInv is inductive.
LEMMA StepCount ==
    ASSUME SoloInv, CountInv, [ServerNext]_serverVars
    PROVE  CountInv'
<1> USE DEF CountInv
<1>0. /\ Cardinality(Succeeded) \in Nat
      /\ reply \in [Runs -> Replies] /\ at \in [Runs -> Stages]
    BY FS_CardinalityType DEF SoloInv, OrphanInv, BookInv, TypeOK
\* A step that counts nothing, and after which who was active is so.
<1>1. ASSUME UNCHANGED <<countVars, Succeeded>>, IsFiniteSet(busy'),
             \A r \in Runs : Active(r)' <=> Active(r),
             \A r \in Runs : at'[r] = "request" => at[r] = "request",
             \A r \in Runs : at'[r] = "answer" => counted[r] = "attempt"
      PROVE  CountInv'
    <2>1. Running' <=> Running
        BY <1>1 DEF Running, countVars
    <2> QED
        BY <1>1, <2>1 DEF countVars
<1>2. CASE \/ UNCHANGED serverVars
           \/ Ingest /\ UNCHANGED <<metricVars, lifeVars>>
           \/ Signal \/ Drained \/ Abandon \/ Exit
    <2>1. UNCHANGED <<countVars, busy, at, reply>>
        BY <1>2 DEF serverVars, vars, metricVars, Ingest, Signal, Drained,
                    Abandon, Exit
    <2> QED
        BY <2>1, <1>1 DEF Succeeded, Active
<1>3. ASSUME NEW r \in Runs, Proceed(r) \/ Err(r) PROVE CountInv'
    <2>1. /\ UNCHANGED <<countVars, busy, reply>> /\ counted[r] = "attempt"
          /\ at[r] \notin {"request", "ended"}
          /\ \E stage \in Stages \ {"request", "ended"} :
                 at' = [at EXCEPT ![r] = stage]
        <3>1. CASE Load(r) \/ Look(r) \/ Reset(r) \/ Insert(r) \/ Commit(r)
                   \/ Fail(r) \/ LoseAck(r)
            BY <1>0, <1>3, <3>1
            DEF Proceed, Err, Load, Look, Reset, Insert, Commit, Fail, LoseAck,
                Working, Move, Clears, Stages, metricVars
        <3>2. CASE Clear(r)
            <4>1. /\ at[r] \in {"discrepancies", "members", "groups"}
                  /\ Following[at[r]] \in {"members", "groups", "statuses"}
                  /\ at' = [at EXCEPT ![r] = Following[at[r]]]
                BY <3>2 DEF Clear, Move, Clears, Following
            <4>2. Following[at[r]] \in Stages \ {"request", "ended"}
                BY <4>1 DEF Stages
            <4>3. UNCHANGED <<countVars, busy, reply>> /\ counted[r] = "attempt"
                BY <1>3, <3>2 DEF Proceed, Err, Clear, metricVars
            <4> QED
                BY <4>1, <4>2, <4>3
        <3> QED
            BY <1>3, <3>1, <3>2 DEF Proceed, Err
    <2> QED
        BY <1>0, <2>1, <1>1 DEF Succeeded, Active
<1>4. ASSUME NEW r \in Runs, Record(r) PROVE CountInv'
    <2>1. UNCHANGED <<countVars, busy, at, reply>>
        BY <1>4 DEF Record, vars
    <2> QED
        BY <2>1, <1>1 DEF Succeeded, Active
<1>5. ASSUME NEW r \in Runs, Begin(r) PROVE CountInv'
    <2>1. /\ UNCHANGED <<countVars, reply>>
          /\ at[r] = "request" /\ at' = [at EXCEPT ![r] = "load"]
          /\ busy' = busy \cup {Home[r]}
        BY <1>5 DEF Begin, Start, Move, metricVars
    <2>2. counted[r] = "nothing"
        BY <2>1
    <2>3. Running' <=> Running
        BY <1>0, <2>1, <2>2 DEF Running, Active, countVars
    <2>4. IsFiniteSet(busy')
        BY <2>1, FS_AddElement
    <2> QED
        BY <1>0, <2>1, <2>3, <2>4 DEF Succeeded, countVars
<1>6. ASSUME NEW r \in Runs, Decline(r) PROVE CountInv'
    <2>1. /\ UNCHANGED <<countVars, busy>>
          /\ at[r] = "request" /\ at' = [at EXCEPT ![r] = "ended"]
          /\ reply' = [reply EXCEPT ![r] = "refused"]
        BY <1>6 DEF Decline, Refuse, Move, metricVars
    <2>2. reply[r] = "none" /\ counted[r] = "nothing"
        BY <2>1 DEF SoloInv, Solo
    <2>3. Succeeded' = Succeeded
        BY <1>0, <2>1, <2>2 DEF Succeeded
    <2>4. Running' <=> Running
        BY <1>0, <2>1, <2>2 DEF Running, Active, countVars
    <2> QED
        BY <1>0, <2>1, <2>3, <2>4 DEF countVars
<1>7. ASSUME NEW r \in Runs, CountAttempt(r) PROVE CountInv'
    <2>1. /\ UNCHANGED <<at, reply, busy>>
          /\ at[r] = "load" /\ counted[r] = "nothing"
          /\ counted' = [counted EXCEPT ![r] = "attempt"]
          /\ attempts' = attempts + 1 /\ failures' = failures
        BY <1>7 DEF CountAttempt, Tally, vars
    <2>2. ~Running /\ Running'
        BY <2>1, AtWork DEF Running, Active
    <2> QED
        BY <1>0, <2>1, <2>2 DEF Succeeded
<1>8. ASSUME NEW r \in Runs, CountFailure(r) PROVE CountInv'
    <2>1. /\ UNCHANGED <<at, reply, busy>>
          /\ at[r] = "error" /\ counted[r] = "attempt"
          /\ counted' = [counted EXCEPT ![r] = "failure"]
          /\ failures' = failures + 1 /\ attempts' = attempts
        BY <1>8 DEF CountFailure, Tally, vars
    <2>2. Running /\ ~Running'
        BY <2>1, AtWork DEF Running, Active
    <2> QED
        BY <1>0, <2>1, <2>2 DEF Succeeded
\* The last step of the run that holds the lock.
<1>9. ASSUME NEW r \in Runs, at[r] \notin {"request", "ended"}, UNCHANGED countVars,
             at' = [at EXCEPT ![r] = "ended"], busy' = busy \ {Home[r]}
      PROVE  /\ ~Running' /\ IsFiniteSet(busy')
             /\ Running <=> counted[r] = "attempt"
             /\ \A q \in Runs : at'[q] = "request" => at[q] = "request"
             /\ \A q \in Runs : at'[q] # "answer"
    <2>1. \A q \in Runs : at'[q] \in {"request", "ended"}
        BY <1>0, <1>9, AtWork
    <2>2. IsFiniteSet(busy')
        BY <1>9, FS_RemoveElement
    <2>3. Running <=> counted[r] = "attempt"
        BY <1>9, AtWork DEF Running, Active
    <2> QED
        BY <1>0, <1>9, <2>1, <2>2, <2>3 DEF Running, Active
<1>10. ASSUME NEW r \in Runs, RunError(r) PROVE CountInv'
    <2>1. /\ at[r] = "error" /\ counted[r] = "failure"
          /\ at' = [at EXCEPT ![r] = "ended"]
          /\ reply' = [reply EXCEPT ![r] = "failed"]
          /\ busy' = busy \ {Home[r]} /\ UNCHANGED countVars
        BY <1>10 DEF RunError, Excuse, Move, End, metricVars
    <2>2. Succeeded' = Succeeded
        BY <1>0, <2>1, AtWork DEF Succeeded
    <2> QED
        BY <2>1, <2>2, <1>9 DEF countVars
<1>11. ASSUME NEW r \in Runs, Respond(r) PROVE CountInv'
    <2>1. /\ at[r] = "answer" /\ counted[r] = "attempt"
          /\ at' = [at EXCEPT ![r] = "ended"]
          /\ reply' = [reply EXCEPT ![r] = "ok"]
          /\ busy' = busy \ {Home[r]} /\ UNCHANGED countVars
        BY <1>11 DEF Respond, Answer, Move, End, metricVars
    <2>2. Succeeded' = Succeeded \cup {r} /\ r \notin Succeeded
        BY <1>0, <2>1, AtWork DEF Succeeded
    <2>3. /\ IsFiniteSet(Succeeded')
          /\ Cardinality(Succeeded') = Cardinality(Succeeded) + 1
        BY <2>2, FS_AddElement
    <2>4. attempts = failures + Cardinality(Succeeded) + 1
        BY <2>1, <1>9
    <2>5. ~Running' /\ attempts' = attempts /\ failures' = failures
        BY <2>1, <1>9 DEF countVars
    <2>6. attempts' = failures' + Cardinality(Succeeded')
        BY <1>0, <2>3, <2>4, <2>5
    <2>7. attempts' = failures' + Cardinality(Succeeded')
                      + (IF Running' THEN 1 ELSE 0)
        BY <1>0, <2>3, <2>5, <2>6
    <2>8. IsFiniteSet(busy') /\ \A q \in Runs : at'[q] # "answer"
        BY <2>1, <1>9
    <2>9. \A q \in Runs : at'[q] = "request" => counted'[q] = "nothing"
        BY <2>1, <1>9 DEF countVars
    <2> QED
        BY <2>1, <2>3, <2>5, <2>7, <2>8, <2>9 DEF countVars
<1> HIDE DEF CountInv
<1> QED
    BY <1>2, <1>3, <1>4, <1>5, <1>6, <1>7, <1>8, <1>10, <1>11 DEF ServerNext

\* The server's runs keep what Store's runs keep.
LEMMA ServerSolo ==
    ASSUME OneProcess, ~Lingers
    PROVE  ServerSpec => []SoloInv
BY ServerImplementsStore, SoloAlways, PTL

\* With one process, every attempt is a failure, a success or still running,
\* and all of them are when no run holds the lock.
THEOREM CountersAddUp ==
    ASSUME OneProcess, ~Lingers
    PROVE  ServerSpec => []AttemptsAddUp
<1>1. ServerInit => CountInv
    <2> SUFFICES ASSUME ServerInit PROVE CountInv
        OBVIOUS
    <2>1. Succeeded = {} /\ busy = {} /\ attempts = 0 /\ failures = 0 /\ ~Running
        BY DEF ServerInit, Init, Succeeded, Running, Active
    <2> QED
        BY <2>1, FS_EmptySet DEF CountInv, ServerInit, Init
<1>2. SoloInv /\ CountInv /\ [ServerNext]_serverVars => CountInv'
    BY StepCount
<1>3. SoloInv /\ CountInv => AttemptsAddUp
    <2> SUFFICES ASSUME SoloInv, CountInv PROVE AttemptsAddUp
        OBVIOUS
    <2>1. Cardinality(Succeeded) \in Nat /\ Cardinality(busy) \in Nat
        BY FS_CardinalityType DEF CountInv
    <2>2. Running => busy # {}
        BY AtWork DEF Running, Active
    <2>3. Running => Cardinality(busy) # 0
        BY <2>2, FS_EmptySet DEF CountInv
    <2> QED
        BY <2>1, <2>3 DEF CountInv, AttemptsAddUp
<1> QED
    BY <1>1, <1>2, <1>3, ServerSolo, PTL DEF ServerSpec

\* The stages of a run that has not loaded, or has nothing to save any more.
Unloaded == {"request", "load", "error", "ended"}

\* The run in hand has loaded what every answered run had loaded.
Later ==
    \A q \in Succeeded :
        /\ at[q] = "ended"
        /\ book[q] \subseteq rows
        /\ \A r \in Runs :
               at[r] \notin Unloaded => book[q] \subseteq book[r]

GaugeInv == GaugesAgree /\ Later /\ gauges \in [Gauges -> SUBSET Runs]

LEMMA StepGauge ==
    ASSUME SoloInv, GaugeInv, [ServerNext]_serverVars
    PROVE  GaugeInv'
<1> USE DEF GaugeInv
<1>0. /\ reply \in [Runs -> Replies] /\ at \in [Runs -> Stages]
      /\ book \in [Runs -> SUBSET Rows]
      /\ \A r \in Runs : at[r] # "ended" => reply[r] = "none"
    BY DEF SoloInv, Solo, OrphanInv, BookInv, TypeOK
\* A step that records nothing, answers nobody and loads nothing.
<1>1. ASSUME UNCHANGED <<gauges, book, Succeeded>>, rows \subseteq rows',
             \A r \in Runs : at[r] = "answer" => at'[r] = "answer",
             \A r \in Runs : at[r] = "ended" => at'[r] = "ended",
             \A r \in Runs : at'[r] \in Unloaded \/ at[r] \notin Unloaded
      PROVE  GaugeInv'
    <2>1. GaugesAgree'
        BY <1>1 DEF GaugesAgree
    <2>2. \A q \in Succeeded : at'[q] = "ended" /\ book'[q] \subseteq rows'
        BY <1>1 DEF Later, Succeeded
    <2>3. ASSUME NEW q \in Succeeded, NEW r \in Runs,
                 at'[r] \notin Unloaded
          PROVE  book'[q] \subseteq book'[r]
        BY <1>1, <2>3 DEF Later
    <2> QED
        BY <1>1, <2>1, <2>2, <2>3 DEF Later
<1>2. CASE \/ UNCHANGED serverVars
           \/ Ingest /\ UNCHANGED <<metricVars, lifeVars>>
           \/ Signal \/ Drained \/ Abandon \/ Exit
           \/ \E r \in Runs : CountAttempt(r) \/ CountFailure(r)
    <2>1. UNCHANGED <<gauges, book, reply, at>> /\ rows \subseteq rows'
        BY <1>2 DEF serverVars, vars, metricVars, Ingest, Signal, Drained,
                    Abandon, Exit, CountAttempt, CountFailure
    <2>2. Succeeded' = Succeeded
        BY <2>1 DEF Succeeded
    <2> QED
        BY <2>1, <2>2, <1>1
<1>3. ASSUME NEW r \in Runs, Begin(r) \/ Decline(r) PROVE GaugeInv'
    <2>1. /\ UNCHANGED <<gauges, book, rows>>
          /\ at[r] = "request"
          /\ at' = [at EXCEPT ![r] = "load"] \/ at' = [at EXCEPT ![r] = "ended"]
          /\ reply' = reply \/ reply' = [reply EXCEPT ![r] = "refused"]
        BY <1>3 DEF Begin, Decline, Start, Refuse, Move, metricVars, tables
    <2>2. Succeeded' = Succeeded
        BY <1>0, <2>1 DEF Succeeded
    <2> QED
        BY <1>0, <2>1, <2>2, <1>1 DEF Unloaded
<1>4. ASSUME NEW r \in Runs, Look(r) \/ Clear(r) \/ Reset(r) \/ Insert(r),
             UNCHANGED metricVars
      PROVE  GaugeInv'
    <2>1. UNCHANGED <<gauges, book, rows, reply>>
        BY <1>4 DEF Look, Clear, Reset, Insert, metricVars, tables
    <2>2. /\ at[r] \in {"discrepancies", "members", "groups", "statuses", "insert"}
          /\ \/ at' = at
             \/ at' = [at EXCEPT ![r] = "members"]
             \/ at' = [at EXCEPT ![r] = "groups"]
             \/ at' = [at EXCEPT ![r] = "statuses"]
             \/ at' = [at EXCEPT ![r] = "insert"]
             \/ at' = [at EXCEPT ![r] = "commit"]
        BY <1>4 DEF Look, Clear, Reset, Insert, Move, Clears, Following
    <2>3. /\ \A q \in Runs : at[q] \in {"answer", "ended"} => at'[q] = at[q]
          /\ \A q \in Runs : at'[q] \in Unloaded \/ at[q] \notin Unloaded
        BY <1>0, <2>2 DEF Unloaded
    <2>4. Succeeded' = Succeeded
        BY <2>1 DEF Succeeded
    <2> QED
        BY <2>1, <2>3, <2>4, <1>1
<1>5. ASSUME NEW r \in Runs, Load(r), UNCHANGED metricVars PROVE GaugeInv'
    <2>1. /\ UNCHANGED <<gauges, rows, reply>>
          /\ at[r] = "load" /\ at' = [at EXCEPT ![r] = "discrepancies"]
          /\ book' = [book EXCEPT ![r] = rows]
        BY <1>5 DEF Load, Move, metricVars, tables
    <2>2. Succeeded' = Succeeded /\ r \notin Succeeded
        BY <1>0, <2>1 DEF Succeeded
    <2>3. \A q \in Succeeded : book'[q] = book[q]
        BY <2>1, <2>2, <1>0 DEF Succeeded
    <2>4. GaugesAgree'
        BY <1>0, <2>1, <2>2, <2>3 DEF GaugesAgree
    <2>5. Later'
        BY <1>0, <2>1, <2>2, <2>3 DEF Later, Unloaded
    <2> QED
        BY <2>1, <2>4, <2>5
<1>6. ASSUME NEW r \in Runs, Commit(r), UNCHANGED metricVars PROVE GaugeInv'
    <2>1. /\ UNCHANGED <<gauges, rows, reply, book>>
          /\ at[r] = "commit" /\ at' = [at EXCEPT ![r] = "answer"]
        BY <1>6 DEF Commit, Move, Apply, metricVars
    <2> QED
        BY <1>0, <2>1, <1>1 DEF Succeeded, Unloaded
<1>7. ASSUME NEW r \in Runs, Err(r) \/ RunError(r) PROVE GaugeInv'
    <2>1. /\ UNCHANGED <<gauges, rows, book>>
          /\ at[r] \notin {"request", "answer", "ended"}
          /\ \/ at' = [at EXCEPT ![r] = "error"] /\ reply' = reply
             \/ /\ at' = [at EXCEPT ![r] = "ended"]
                /\ reply' = [reply EXCEPT ![r] = "failed"]
        BY <1>7 DEF Err, RunError, Fail, LoseAck, Excuse, Working, Move, End,
                    Apply, tables, metricVars
    <2>2. Succeeded' = Succeeded
        BY <1>0, <2>1, AtWork DEF Succeeded
    <2> QED
        BY <1>0, <2>1, <2>2, <1>1 DEF Unloaded
<1>8. ASSUME NEW r \in Runs, Record(r) PROVE GaugeInv'
    <2>1. /\ at[r] = "answer" /\ UNCHANGED vars
          /\ \E k \in Gauges : gauges' = [gauges EXCEPT ![k] = {r}]
        BY <1>8 DEF Record, Unrecorded
    <2>2. GaugesAgree' /\ Later'
        BY <2>1 DEF vars, GaugesAgree, Later, Succeeded
    <2> QED
        BY <2>1, <2>2
\* The run that is answered is the last one, and all gauges are its.
<1>9. ASSUME NEW r \in Runs, Respond(r) PROVE GaugeInv'
    <2>1. /\ UNCHANGED <<gauges, rows, book>>
          /\ at[r] = "answer" /\ at' = [at EXCEPT ![r] = "ended"]
          /\ reply' = [reply EXCEPT ![r] = "ok"]
          /\ \A k \in Gauges : gauges[k] = {r}
        BY <1>9 DEF Respond, Answer, Move, End, metricVars, tables, Unrecorded
    <2>2. Succeeded' = Succeeded \cup {r}
        BY <1>0, <2>1 DEF Succeeded
    <2>3. \A q \in Runs \ {r} : at[q] \in {"request", "ended"}
        BY <2>1, AtWork
    <2>4. \A q \in Succeeded' : book[q] \subseteq book[r] /\ at'[q] = "ended"
        BY <1>0, <2>1, <2>2 DEF Later, Unloaded
    <2>5. book[r] \subseteq rows
        BY DEF SoloInv, OrphanInv, BookInv
    <2>6. GaugesAgree'
        BY <2>1, <2>2, <2>4 DEF GaugesAgree
    <2>7. Later'
        BY <1>0, <2>1, <2>3, <2>4, <2>5 DEF Later, Unloaded
    <2> QED
        BY <2>1, <2>6, <2>7
<1>10. ASSUME NEW r \in Runs, Proceed(r) PROVE GaugeInv'
    BY <1>4, <1>5, <1>6, <1>10 DEF Proceed, metricVars
<1> HIDE DEF GaugeInv
<1> QED
    BY <1>2, <1>3, <1>7, <1>8, <1>9, <1>10 DEF ServerNext

\* With one process, the gauges are all of one run, the last to succeed, unless
\* one is being recorded.
THEOREM GaugesAreOfOneRun ==
    ASSUME OneProcess, ~Lingers
    PROVE  ServerSpec => []GaugesAgree
<1>1. ServerInit => GaugeInv
    BY DEF ServerInit, Init, GaugeInv, GaugesAgree, Later, Unloaded, Succeeded
<1>2. SoloInv /\ GaugeInv /\ [ServerNext]_serverVars => GaugeInv'
    BY StepGauge
<1>3. GaugeInv => GaugesAgree
    BY DEF GaugeInv
<1> QED
    BY <1>1, <1>2, <1>3, ServerSolo, PTL DEF ServerSpec
=============================================================================
