------------------------------- MODULE Upgrade -------------------------------
(***************************************************************************)
(* Starting the program on a database of any age, while runs of other      *)
(* processes go on (module Store).  `serve`, `ingest` and `demo` migrate   *)
(* before anything else, `recon run` does not.  Store.Migrate executes two *)
(* files, each one transaction of PostgreSQL:                              *)
(*                                                                         *)
(*   0001  creates the tables that do not exist; of two starters that      *)
(*         create them at once, the second is told that they exist;        *)
(*   0002  replaces two CHECK constraints, unless they are new: the one of *)
(*         match_group first, then the one of discrepancy.  Each statement *)
(*         waits until no other transaction has used its table, and keeps  *)
(*         it to itself until the commit.                                  *)
(*                                                                         *)
(* SaveResult uses the two tables in the other order, so a starter and a   *)
(* run may wait for each other: the database makes one of them fail.       *)
(* Requests that find the run lock taken are left to modules Store and     *)
(* Server: they do not reach the database.                                 *)
(***************************************************************************)
EXTENDS Store

CONSTANTS
    Starters,  \* commands that migrate
    Needs,     \* the starters a run comes after: that of its process, or none
    Recent     \* entries of a kind or type the first version's checks lack

ASSUME StartersAssumption ==
    Needs \in [Runs -> SUBSET Starters] /\ Recent \subseteq Entry

VARIABLES
    checks,  \* version of the CHECK of each table, as committed
    step,    \* where Migrate of a starter is
    held     \* tables its open transaction has altered

schemaVars == <<checks, step, held>>
upgradeVars == <<vars, schemaVars>>

Altered == {"match_group", "discrepancy"}
Versions == {"absent", "first", "second"}
Steps == {"create", "creating", "kinds", "types", "commit", "done", "failed"}

Both(version) == [t \in Altered |-> version]

UpgradeInit ==
    /\ Init
    /\ checks \in {Both(v) : v \in Versions}
    /\ step = [m \in Starters |-> "create"]
    /\ held = [m \in Starters |-> {}]

-----------------------------------------------------------------------------
(* Migrate *)

Go(m, from, to) == step[m] = from /\ step' = [step EXCEPT ![m] = to]

Exist == checks # Both("absent")

\* 0001 on tables that exist changes nothing.
Keep(m) ==
    /\ Exist
    /\ Go(m, "create", "kinds")
    /\ UNCHANGED <<checks, held, vars>>

Create(m) ==
    /\ ~Exist
    /\ Go(m, "create", "creating")
    /\ UNCHANGED <<checks, held, vars>>

\* 0001 ends: the tables are there, or another starter was faster.
Created(m) ==
    /\ ~Exist
    /\ Go(m, "creating", "kinds")
    /\ checks' = Both("first")
    /\ UNCHANGED <<held, vars>>

TooLate(m) ==
    /\ Exist
    /\ Go(m, "creating", "failed")
    /\ UNCHANGED <<checks, held, vars>>

\* The tables that run r has used in its open transaction.
Uses(r) ==
    {t \in Altered :
        \/ at[r] \in {"statuses", "insert", "commit"}
        \/ at[r] = "groups" /\ (looked[r] \/ t = "discrepancy")
        \/ at[r] = "members" /\ t = "discrepancy"
        \/ at[r] = "discrepancies" /\ looked[r] /\ t = "discrepancy"}

\* Nobody but m has used or altered t.
Alone(m, t) ==
    /\ \A r \in Runs : t \notin Uses(r)
    /\ \A n \in Starters \ {m} : t \notin held[n]

\* Mutant: every ALTER TABLE commits by itself.
AlterAtOnce(m, t, from, to) ==
    /\ Go(m, from, to)
    /\ IF checks[t] = "second"
       THEN UNCHANGED checks
       ELSE Alone(m, t) /\ checks' = [checks EXCEPT ![t] = "second"]
    /\ UNCHANGED <<held, vars>>

\* One IF of 0002: the CHECK of t is replaced, unless it is new.
Alter(m, t, from, to) ==
    /\ Go(m, from, to)
    /\ IF checks[t] = "second"
       THEN UNCHANGED held
       ELSE Alone(m, t) /\ held' = [held EXCEPT ![m] = @ \cup {t}]
    /\ UNCHANGED <<checks, vars>>

\* Mutant: the file replaces the CHECK of match_group only.
KindsOnly(m) ==
    /\ Go(m, "commit", "done")
    /\ checks' = [checks EXCEPT !["match_group"] = "second"]
    /\ held' = [held EXCEPT ![m] = {}]
    /\ UNCHANGED vars

Migrated(m) ==
    /\ Go(m, "commit", "done")
    /\ checks' = [t \in Altered |-> IF t \in held[m] THEN "second" ELSE checks[t]]
    /\ held' = [held EXCEPT ![m] = {}]
    /\ UNCHANGED vars

\* Any error: nothing of the open file remains, and the command ends.
Abort(m) ==
    /\ step[m] \notin {"done", "failed"}
    /\ step' = [step EXCEPT ![m] = "failed"]
    /\ held' = [held EXCEPT ![m] = {}]
    /\ UNCHANGED <<checks, vars>>

Migrate(m) ==
    \/ Keep(m) \/ Create(m) \/ Created(m) \/ TooLate(m)
    \/ Alter(m, "match_group", "kinds", "types")
    \/ Alter(m, "discrepancy", "types", "commit")
    \/ Migrated(m)

-----------------------------------------------------------------------------
(* Runs *)

\* The process serves, or is the command itself.
Ready(r) == \A m \in Needs[r] : step[m] = "done"

\* The statement that run r is about to begin does not meet a table somebody
\* is altering.
Unlocked(r) ==
    \A m \in Starters :
        /\ at[r] = "discrepancies" => "discrepancy" \notin held[m]
        /\ at[r] = "groups" => "match_group" \notin held[m]

\* The checks have a place for what run r computed.
Admitted(r) ==
    \A e \in Entries(book[r]) \cap Recent :
        checks[IF e.table = "match_group" THEN "match_group" ELSE "discrepancy"]
            = "second"

Work(r) ==
    \/ Load(r) /\ Exist
    \/ Look(r) /\ Unlocked(r)
    \/ Clear(r) \/ Reset(r)
    \/ Insert(r) /\ Admitted(r)
    \/ Commit(r) \/ Answer(r) \/ Excuse(r)

UpgradeNext ==
    \/ \E m \in Starters :
           \/ Keep(m) \/ Create(m) \/ Created(m) \/ TooLate(m)
           \/ Alter(m, "match_group", "kinds", "types")
           \/ Alter(m, "discrepancy", "types", "commit")
           \/ Migrated(m) \/ Abort(m)
    \/ /\ \/ Ingest /\ Exist
          \/ \E r \in Runs :
                 \/ Start(r) /\ Ready(r)
                 \/ Work(r)
                 \/ Fail(r) \/ LoseAck(r)
                 \/ GiveUp(r) \/ LateCommit(r) \/ LateRollback(r)
       /\ UNCHANGED schemaVars

UpgradeSpec == UpgradeInit /\ [][UpgradeNext]_upgradeVars

\* Starter m and run r wait for each other.
Deadlocked(m, r) ==
    /\ step[m] = "types" /\ "match_group" \in held[m] /\ "discrepancy" \in Uses(r)
    /\ at[r] = "groups" /\ ~looked[r]

\* The database refuses what run r is at.
Rejected(r) ==
    \/ at[r] = "load" /\ ~Exist
    \/ at[r] = "insert" /\ ~Admitted(r)
    \/ Broken(r)

\* Migrate and the runs go on as far as the database lets them; it reports
\* what it refuses, decides every COMMIT, and breaks deadlocks.
UpgradeFairSpec ==
    /\ UpgradeSpec
    /\ \A m \in Starters : WF_upgradeVars(Migrate(m))
    /\ \A r \in Runs :
           /\ WF_upgradeVars(Work(r) /\ UNCHANGED schemaVars)
           /\ WF_upgradeVars(Rejected(r) /\ Fail(r) /\ UNCHANGED schemaVars)
           /\ WF_upgradeVars((LateCommit(r) \/ LateRollback(r)) /\ UNCHANGED schemaVars)
           /\ \A m \in Starters :
                  WF_upgradeVars(
                      /\ Deadlocked(m, r)
                      /\ \/ Abort(m)
                         \/ Fail(r) /\ UNCHANGED schemaVars)

-----------------------------------------------------------------------------
(* Correctness *)

\* No reader or starter ever meets one check of the first version beside one
\* of the second.
SchemaIsOfOneVersion == \E v \in Versions : checks = Both(v)

\* A check refuses a result only in a run of a command that does not migrate,
\* and only as long as no other command has migrated (0002: each check lacks
\* the new values until it is replaced).
OnlyUnmigratedIsRefused ==
    \A r \in Runs : at[r] = "insert" /\ ~Admitted(r) =>
        Needs[r] = {} /\ \A m \in Starters : step[m] # "done"

\* Migrate ends, whatever runs hold the tables it waits for.
StartersEnd == \A m \in Starters : <>(step[m] \in {"done", "failed"})
=============================================================================
