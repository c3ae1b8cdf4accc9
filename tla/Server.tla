------------------------------- MODULE Server -------------------------------
(***************************************************************************)
(* `recon serve`: the runs of module Store inside their process, with the  *)
(* metrics it counts (internal/server/metrics.go) and with its shutdown    *)
(* (serve in cmd/recon/main.go).                                           *)
(*                                                                         *)
(* A signal makes the server stop listening and wait for the requests in   *)
(* hand, for a limited time.  Either way serve returns; its deferred Close *)
(* waits for the connections runs hold and gives out no more; then the     *)
(* process is gone, with whatever its other goroutines were at.            *)
(*                                                                         *)
(* Requests whose client hangs up during COMMIT are left to module Store.  *)
(***************************************************************************)
EXTENDS Store, Naturals

VARIABLES
    life,      \* where serve is
    graceful,  \* Shutdown returned without an error
    attempts,  \* metrics.runs
    failures,  \* metrics.failures
    counted,   \* what a run has added to them
    gauges     \* the four gauges of the last run: whose value each shows

countVars == <<attempts, failures, counted>>
metricVars == <<countVars, gauges>>
lifeVars == <<life, graceful>>
serverVars == <<vars, metricVars, lifeVars>>

\* Duration, transactions, match groups, discrepancies, in the order of
\* recordSuccess.
Gauges == 1..4

ServerInit ==
    /\ Init
    /\ life = "up" /\ graceful = FALSE
    /\ attempts = 0 /\ failures = 0
    /\ counted = [r \in Runs |-> "nothing"]
    /\ gauges = [k \in Gauges |-> {}]

-----------------------------------------------------------------------------
(* Requests *)

\* Connections may bring requests until serve has seen them all go idle.
Accepting == life # "exited" /\ ~graceful

Begin(r) ==
    /\ Accepting
    /\ Start(r)
    /\ UNCHANGED <<metricVars, lifeVars>>

\* Mutant: a request that finds the lock taken is counted, too.
DeclineCounted(r) ==
    /\ Accepting
    /\ Refuse(r)
    /\ attempts' = attempts + 1
    /\ UNCHANGED <<failures, counted, gauges, lifeVars>>

Decline(r) ==
    /\ Accepting
    /\ Refuse(r)
    /\ UNCHANGED <<metricVars, lifeVars>>

Tally(r, from, to) == counted[r] = from /\ counted' = [counted EXCEPT ![r] = to]

\* The lock is held; runs.Add.
CountAttempt(r) ==
    /\ life # "exited"
    /\ at[r] = "load"
    /\ Tally(r, "nothing", "attempt")
    /\ attempts' = attempts + 1
    /\ UNCHANGED <<vars, failures, gauges, lifeVars>>

\* The run has a transaction, hence a connection of the pool.
Connected(r) ==
    \/ at[r] \in {"members", "groups", "statuses", "insert", "commit"}
    \/ at[r] = "discrepancies" /\ looked[r]

\* LoadTransactions, and each statement of SaveResult.  A closed pool gives
\* out no connection.
Proceed(r) ==
    /\ life # "exited"
    /\ counted[r] = "attempt"
    /\ life = "closing" => Connected(r)
    /\ Load(r) \/ Look(r) \/ Clear(r) \/ Reset(r) \/ Insert(r) \/ Commit(r)
    /\ UNCHANGED <<metricVars, lifeVars>>

\* One of them returns an error.
Err(r) ==
    /\ life # "exited"
    /\ counted[r] = "attempt"
    /\ Fail(r) \/ LoseAck(r)
    /\ UNCHANGED <<metricVars, lifeVars>>

\* runError: first failures.Add, then the answer and the deferred Unlock.
CountFailure(r) ==
    /\ life # "exited"
    /\ at[r] = "error"
    /\ Tally(r, "attempt", "failure")
    /\ failures' = failures + 1
    /\ UNCHANGED <<vars, attempts, gauges, lifeVars>>

RunError(r) ==
    /\ life # "exited"
    /\ counted[r] = "failure"
    /\ Excuse(r)
    /\ UNCHANGED <<metricVars, lifeVars>>

Unrecorded(r) == {k \in Gauges : gauges[k] # {r}}

\* recordSuccess stores one gauge after the other.
Record(r) ==
    /\ life # "exited"
    /\ at[r] = "answer"
    /\ \E k \in Unrecorded(r) :
           /\ \A l \in Unrecorded(r) : k <= l
           /\ gauges' = [gauges EXCEPT ![k] = {r}]
    /\ UNCHANGED <<vars, countVars, lifeVars>>

Respond(r) ==
    /\ life # "exited"
    /\ Unrecorded(r) = {}
    /\ Answer(r)
    /\ UNCHANGED <<metricVars, lifeVars>>

-----------------------------------------------------------------------------
(* Shutdown *)

Signal ==
    /\ life = "up"
    /\ life' = "draining"
    /\ UNCHANGED <<vars, metricVars, graceful>>

\* Shutdown returns: no request is in hand, and no connection is left.
Drained ==
    /\ life = "draining"
    /\ \A r \in Runs : at[r] \in {"request", "ended"}
    /\ life' = "closing" /\ graceful' = TRUE
    /\ UNCHANGED <<vars, metricVars>>

\* Shutdown gives up after its timeout, or the listener has failed.
Abandon ==
    /\ life \in {"up", "draining"}
    /\ life' = "closing"
    /\ UNCHANGED <<vars, metricVars, graceful>>

\* The pool is closed, and the process ends.
Exit ==
    /\ life = "closing"
    /\ \A r \in Runs : ~Connected(r)
    /\ life' = "exited"
    /\ UNCHANGED <<vars, metricVars, graceful>>

-----------------------------------------------------------------------------
ServerNext ==
    \/ Ingest /\ UNCHANGED <<metricVars, lifeVars>>
    \/ \E r \in Runs :
           \/ Begin(r) \/ Decline(r) \/ CountAttempt(r) \/ Proceed(r)
           \/ Err(r) \/ CountFailure(r) \/ RunError(r)
           \/ Record(r) \/ Respond(r)
    \/ Signal \/ Drained \/ Abandon \/ Exit

ServerSpec == ServerInit /\ [][ServerNext]_serverVars

\* What a closed pool leaves a run: an error.
Starved(r) == life = "closing" /\ at[r] \in {"load", "discrepancies"} /\ ~Connected(r)

\* What the handler does by itself.
Handle(r) ==
    \/ CountAttempt(r) \/ Proceed(r) \/ Record(r) \/ Respond(r)
    \/ CountFailure(r) \/ RunError(r)

\* Handlers and serve go on as far as the database lets them; the database
\* reports broken constraints, the pool that it is closed, and the timer of
\* Shutdown runs out.
ServerFairSpec ==
    /\ ServerSpec
    /\ \A r \in Runs :
           /\ WF_serverVars(Handle(r))
           /\ WF_serverVars((Broken(r) \/ Starved(r)) /\ Err(r))
    /\ WF_serverVars(life = "draining" /\ (Drained \/ Abandon))
    /\ WF_serverVars(Exit)

-----------------------------------------------------------------------------
(* Correctness *)

Succeeded == {r \in Runs : reply[r] = "ok"}

\* The gauges "of the latest successful run" (metrics.go:84-95) are all of one
\* run, and of the last to succeed, except while a run is recorded.
GaugesAgree ==
    (\A r \in Runs : at[r] # "answer") =>
        \/ Succeeded = {} /\ \A k \in Gauges : gauges[k] = {}
        \/ \E r \in Succeeded :
               /\ \A k \in Gauges : gauges[k] = {r}
               /\ \A q \in Succeeded : book[q] \subseteq book[r]

\* Each attempt is a failure, a success, or the one that holds the lock, and a
\* refused request is none (metrics.go:75-80): exactly so whenever the lock is
\* free, and never off by more than the run that holds it.
AttemptsAddUp ==
    LET answered == failures + Cardinality(Succeeded)
    IN  answered <= attempts /\ attempts <= answered + Cardinality(busy)

\* The run lock is released, however a run ends, or goes with its process.
LockIsReleased ==
    \A p \in Processes : p \in busy ~> p \notin busy \/ life = "exited"

\* After a signal the process ends: no connection is waited for in vain.
StopsInTheEnd == life = "draining" ~> life = "exited"
=============================================================================
