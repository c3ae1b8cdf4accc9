# Specification of the reconciliation engine

This directory holds the TLA+ development kept beside `reconpilot`: models of
the program's core, TLC runs that check them on small instances, and theorems
about them proved with TLAPS. Paths are relative to the repository (`src/`).

## 1. Inventory of the system

`reconpilot` takes statement files of three kinds of sources (a payment service
provider, a bank, a marketplace), turns them into transactions, matches what
was *expected* (the PSP rows) with what was *actually* seen (bank and
marketplace rows), and explains every row that stays unmatched.

| component | state it keeps | operations | interacts with |
|---|---|---|---|
| domain (`internal/domain`) | none: records, money contract, tolerances | `ValidateMoney`, `TolerantLimit`, `BasisPoints` | used by everyone |
| ingestion (`internal/ingestion`, `domain/dedup.go`) | none; one file at a time | parse CSV lines, number repeated lines, derive the dedup key | the store inserts its rows |
| matching (`internal/matching`) | the pool: the rows still open, two sorted lists | `MatchExact`, `MatchSplits`, `MatchTolerant`, `MatchGroups` | called in turn by the engine; the passes share only the pool |
| classification (`internal/classification`) | none | `Classify` gives each leftover row one of eight types and a delta | reads the leftover pool, the matches and the contested rows |
| invariant check (`internal/invariants`) | none | `Check` | last step of the engine; refuses the result |
| engine (`internal/engine`) | matches, over-cap payouts, contested rows | `Run` | pure: rows in, result out |
| reporting (`internal/reporting`) | none | totals per discrepancy type | reads a result |
| store (`internal/store`, `internal/ports`) | PostgreSQL tables | `SaveBatch`, `LoadTransactions`, `SaveResult`, `Ping` | server and command line, from separate processes |
| migrations (`internal/store/migrate.go`) | the schema | `Migrate` executes every file, in order, on each start | `serve`, `ingest` and `demo`; `run` and `report` do not migrate |
| HTTP server (`internal/server`) | a run lock | reconcile, report, health, readiness | store, engine, reporting |
| metrics (`internal/server/metrics.go`) | counters and gauges of runs, routes and readiness | count, record, render | HTTP server |
| command line (`cmd/recon`) | `serve`: the listener, the signal, the pool | `ingest`, `run`, `report`, `demo`, `serve` (start and shutdown), `healthcheck` | ingestion, store, migrations, engine, HTTP server; each a process of its own |
| generator (`internal/generator`) | the book being made, its ground truth, the rows reserved per seller | `Generate`: slots with a case each, then payout groups | verification, benchmark |
| verification (`internal/verification`, `cmd/verify`) | none | `Score`: generate, run the engine, tally | generator, engine; a CI gate |
| benchmark and real-data commands (`cmd/benchmark`, `cmd/realrun`) | none | print a tally; convert a public data set | offline tools |

What makes each part correct, and what is hard about it:

* **Passes over one shared pool.** Five passes take rows from the same pool,
  each weaker evidence than the one before. A row must not be taken twice, none
  may vanish, and a weak pass must not take what a stronger one would have. The
  tolerant pass *counts* candidate partners when a tier begins and trusts the
  counts while matches of the same tier take rows; the group pass removes rows
  that made pairs ambiguous, and the tolerant pass then runs a second time.
* **Not choosing.** ADR 0006 forbids picking one of several fits. That is a
  statement about what else is open at the moment of a match *and later*.
* **Contested rows.** An ambiguous payout's candidate orders are remembered, so
  that a later payout does not settle it by elimination.
* **Order of rules.** Classification is a chain of rules; "duplicate", "refund",
  "late split", "partial" and so on must each be tried in the right order, and
  the engine's last step fails the whole run if one delta does not fit its type.
* **Numbers.** Amounts are `int64` kurus; the sums of the report must not wrap. What
  bounds them, the total the engine checks first, also keeps the sums of the group
  search below the limit at which it saturates them.
* **Determinism.** The rows come in load order; the result may depend on it only
  among identical rows.
* **Store and service.** A run loads, computes and saves without holding the
  database; its transaction is many statements, each with a snapshot of its
  own; two processes may run at once; a commit may succeed without the run
  learning of it. The server's lock is tried, not waited for, and covers one
  process.
* **Ingestion.** Files are delivered again, overlap, list equal lines, fail half
  way, and are loaded by several processes at once. A key of five fields and an
  occurrence number decides what is new.

* **Start and stop.** Commands migrate at every start, several at once, while runs
  of other processes hold the tables; `recon run` does not migrate. A signal stops
  the server in the middle of runs: it waits for requests, then for connections.
* **Counters and gauges.** A run adds to them at several places, and a run that was
  saved may count as failed.
* **Ground truth.** The benchmark calls the engine wrong wherever the generator is:
  its rows must not meet by chance, its fees must stay fees after rounding, and the
  tally must expect exactly the records that injections cause besides their own.

`PROJECT.json` lists the individual hazards under `hazards`, each at its line.

## 2. Modules

| module | models | extends |
|---|---|---|
| `Records` | `internal/domain` and the sort order: transactions, the money contract, day distance, tolerance, basis points | |
| `Pool` | `matching.Pool`: the sorted sides, the index by reference, reference conflicts | `Records` |
| `Matching` | what each pass accepts: exact fits, split parts, candidate pairs per tier, rivals, order sets | `Pool` |
| `Classification` | the rule chain of `classifyOne` and the delta check of `invariants.Check` | `Pool` |
| `Engine` | `engine.Run`: the state machine, one action per loop outcome | `Matching`, `Classification` |
| `Guarantees` | the properties of one run | `Engine` |
| `LoadOrder` | two runs over one book loaded in two orders, taking their steps together | two instances of `Guarantees` |
| `SubsetSearch` | `subsetSum` as the code walks it, checked against the sets `Matching` says it finds | `Matching` |
| `Ingest` | `ingestion.Ingest` and `store.SaveBatch`: dedup and occurrence keys, loads as concurrent transactions | |
| `Results` | what one run writes to the tables | |
| `Ledger` | abstract: a book that grows, and the whole result of one run over it | `Results` |
| `Store` | `server.reconcile`, `recon run`, `store.LoadTransactions`, `store.SaveResult`: runs as concurrent transactions; implements `Ledger` with one process | `Results`, an instance of `Ledger` |
| `Server` | `recon serve`: the runs of `Store` inside their process, with its metrics and its shutdown; implements `Store` (proved) | `Store` |
| `Upgrade` | `store.Migrate` of several commands, beside the runs of `Store` | `Store` |
| `Generator` | `generator.Generate`: one action per case of a slot, one for a payout group | `Records` |
| `Benchmark` | `verification.Score`: a generated book, the engine's run over it, the tally | `Engine`, an instance of `Generator` |
| `MCRows`, `MCEngine`, `MCLoadOrder`, `MCSubsetSearch`, `MCIngest`, `MCStore`, `MCServer`, `MCUpgrade`, `MCBenchmark` | the small instances TLC checks | |
| `MatchingProofs` | lemmas: induction, sums over sets, the order of the pool and of the sets found | `Matching` |
| `EngineProofs` | theorems about one run | `Guarantees`, `MatchingProofs` |
| `Plan` | what a generated book is like, in the terms the passes look at it: the vocabulary of the proof that what is intended is matched | `Records` |
| `PlanProofs` | that proof | `BenchmarkProofs`, `Plan` |
| `LoadOrderProofs`, `SubsetSearchProofs`, `BenchmarkProofs`, `IngestProofs`, `StoreProofs` (`Store`, `Upgrade` and `Server`) | theorems | the module they are about |

### State and code

`Engine` keeps the locals of `engine.Run` and of the pass that is running:

| variable | code |
|---|---|
| `all` | the argument `txs` |
| `book`, `rank` | the rows by ID, and their position in the sorted book (`SplitPool`, `sortTxs`) |
| `open` | `pool.Expected` and `pool.Actual` together |
| `phase`, `pass` | the line `Run` is at; which of the two tolerant passes |
| `tier`, `edges`, `walk` | `MatchTolerant`: tier, the candidate pairs behind `degExp`/`degAct`, the rows its loop has still to visit; `walk` also drives `MatchGroups` |
| `matches` | `res.Matches`, in order |
| `capped`, `unsure` | `groupCandidates`; the payouts and orders `MatchGroups` reports as contested |
| `fees`, `typed` | the match-level commissions and the transaction-level discrepancies of `Classify` |

Actions: `Accept`/`Reject` (validation and `SplitPool`), `ExactPair`,
`ExactDone`, `SplitMatch`, `SplitDone`, `TolerantPair`, `NextTier`,
`TolerantDone`, the four outcomes of a payout (`PayoutOverCap`,
`PayoutUnexplained`, `PayoutAmbiguous`, `PayoutMatched`), `GroupsDone`,
`Classify`, `Finish` (`invariants.Check`), `Returned`.

`Ingest` keeps one load per call of `ingestion.Ingest`:

| variable | code |
|---|---|
| `table` | committed rows of `transaction`, by `dedup_key` |
| `at`, `file`, `todo` | where `Ingest`/`SaveBatch` is, the parsed file, the lines `upsertTransactions` has still to insert |
| `fresh` | the rows the load's open transaction has inserted |

Actions: `Open` (parse, then begin), `Refuse` (a wrong header), `Insert`
(`ON CONFLICT (dedup_key) DO NOTHING`: waits for an open transaction that holds
the key), `Save` (commit), `LoseAck` (a commit whose acknowledgement is lost: stored,
but the caller gets an error), `Fail` (any other error, a crash, a deadlock's
victim). A file is tried again by a further load.

`Store` keeps one run per request or command:

| variable | code |
|---|---|
| `rows`, `db`, `matched` | committed: `transaction`, the result tables, `status = 'matched'` |
| `busy` | `handler.runMu` of each process (a command line never contends for its own) |
| `at`, `reply`, `book` | the line of `reconcile`/`SaveResult`, the answer, what `LoadTransactions` returned |
| `looked`, `seen`, `gone`, `span` | the open transaction: its current statement has its snapshot, the rows in it, the rows deleted, the rows whose status is reset |

Actions: `Start`/`Refuse` (TryLock), `Load`, `Look` and `Clear` for each of the
three DELETEs, `Look` and `Reset` for the UPDATE, `Insert`, `Commit`, `Answer`;
`Fail` or `LoseAck`, then `Excuse` (the answer and the deferred Unlock); `GiveUp`,
`LateCommit`, `LateRollback`; `Ingest` of others.

`Server` adds the process around the runs of one server:

| variable | code |
|---|---|
| `life`, `graceful` | where `serve` is (`up`, `draining` in `Shutdown`, `closing` in the deferred `Close`, `exited`); whether `Shutdown` returned without an error |
| `attempts`, `failures` | `metrics.runs`, `metrics.failures` |
| `counted` | where the handler of a request is between the two: nothing counted, its attempt, its failure too |
| `gauges` | the four gauges `recordSuccess` stores: for each, the run whose value it shows |

Actions: `Begin`/`Decline` (TryLock), `CountAttempt` (`runs.Add`), `Proceed` (the
statements of `Store`), `Err` (`Fail` or `LoseAck`), `CountFailure` (`failures.Add`),
`RunError` (the answer and the Unlock), `Record` (one gauge), `Respond`; `Signal`, `Drained`, `Abandon`, `Exit`.

`Upgrade` adds the schema and those who change it:

| variable | code |
|---|---|
| `checks` | the committed version of the CHECK of `match_group` and of `discrepancy` |
| `step` | where `Migrate` of each starter is |
| `held` | the tables its open transaction has altered, and keeps from others |

Actions: `Keep`, `Create`, `Created`, `TooLate` (file 0001), `Alter` for each table,
`Migrated` (file 0002), `Abort`; and the steps of `Store` with what the schema adds
to their guards: `Ready`, `Unlocked`, `Admitted`.

`Generator` keeps the locals of `Generate`:

| variable | code |
|---|---|
| `budget` | `pairBudget`, `groupBudget` |
| `slots`, `groups` | the two loop counters, and the case of the last slot |
| `out` | `out` (the engine's `all` in `Benchmark`) |
| `truth` | `GroundTruth.IntendedGroup` and `InjectedTx`, by ID |
| `openExpected`, `openActual` | the maps behind `reserve` |

Actions: one per case of the `switch`, and `Group`. `Benchmark` runs them until the
book is complete, then `Engine`; the tally is operators over the final state.

### Abstractions

* The pipeline runs in one goroutine and touches nothing outside it, so the
  order of steps is the code's. A step is one loop iteration; iterations that
  leave everything as it was are skipped, so a step is the *next iteration that
  does something* (`IsFirst` picks it in pool order).
* References and counterparties are numbers ordered as the strings are; the
  empty reference is 0. Dates are day numbers: ingestion parses a date with no
  time. Currencies are TRY or not.
* A match is a kind, a score and a *set* of rows. The order of `TxIDs` and which
  leg is written first are left out; a repeated ID inside one match is therefore
  not expressible, and no pass produces one.
* The commission of a group match is kept per match (`fees`), the over-cap
  payouts' discrepancies as the set `capped`: what `Check` reads of them.
* `Degree` counts pairs as a set of edges; the code counts in two maps filled by
  the same loop. `near`, the binary search into the sorted lines, is modelled by
  what it selects. The guard against an overflowing sum in the split pass is left
  out: the total the engine checks first is never below that sum.
* PostgreSQL is modelled as the code meets it: READ COMMITTED (nobody sets
  another level), a snapshot per statement, row locks to the end of a
  transaction, unique and foreign keys. A DELETE first *looks* and then, when no
  other transaction holds a row it saw, acts on those that are still there. A
  foreign-key check looks at the moment it is made.
* The INSERTs of `SaveResult` are one step: nobody sees them before the COMMIT,
  and they wait for nobody, since the transactions they refer to are locked by
  the UPDATE before them. The member rows of one match stand and fall together,
  so they are one entry; kind, score, type and delta of an entry are left out
  (they are functions of the book, which `Outcome` fixes).
* In `Ingest`, a line is its keyed content, its counterparty, and whether it can
  be read; SHA-256 is taken not to collide. `source_batch` and `rejected_row` are
  written in the same transaction and read by nothing.
* In `Server` a gauge is named by the run whose value it holds: the values are
  functions of the run. A client that hangs up during the COMMIT is left to `Store`
  (run `mixed_runs`, and the variant at the end of section 4).
* In `Upgrade` the lock a run has on a table follows from the statement it is at.
  Requests that are refused because a run is in hand do not reach the database and
  are left out.
* In `Generator` a draw is any member of a set, and a slot that draws until
  `reserve` accepts draws accepted values at once. The cases of the slots come in the
  order of each hundred, in any number; which groups get a stray order is free, where
  the code takes every twentieth. Labels and references are numbers; generated dedup keys are
  left out (the engine does not read them).
* `subsetSum` appears twice: `OrderSets`/`FirstFound`/`FirstTwo` say what it
  returns, `SubsetSearch` walks as the code does and is checked against them.

## 3. Runs

| run | instance | shows |
|---|---|---|
| `engine_evidence` | up to 3 of 7 order templates with up to 3 of 8 bank lines; up to 4 of 5 orders with up to 3 of 5 lines, payouts among them; cap 3 | types, the partition of the book, the evidence rule of the exact and tolerant passes; payouts over the cap, unexplained, ambiguous, matched: no elimination, one set only; review of open fits |
| `engine_mixed` | up to 2 orders with up to 3 parts (zero amounts, late days); up to 4 orders with up to 2 lines that meet in every pass; up to 4 rows of which some break the input contract, IDs repeated; cap 3, limit 6000 | every run ends, takes nothing back, is never refused by the engine's own check; a late split is explained as a whole; accepted totals bound every report sum |
| `load_order` | up to 2 orders and 2 lines that tie on most of the sort key, every permutation | content decides, not load order; the runs step together |
| `subset_search` | every list of up to 5 amounts from {1,2,3,5}, every target to 9, limit 9 | the pruned search finds exactly the sets it should, sums beyond the limit included |
| `one_server` | three requests to one server, three transactions ingested at any time in two files, every failure, every step between lock, counters and unlock, a shutdown at any time with or without a timeout | readers see the whole result of one run, later results are over later books (`Store` implements `Ledger`), counters add up, gauges are of one run, the lock is released, the process ends |
| `two_processes` | a request and a `recon run`, commits that outlive their run; the server and an `ingest` migrate a database without tables, of the first version, or of the second | no double match, no orphan, one version of the schema for every reader, only `recon run` is ever refused by an old check, migrating ends |
| `ingest` | three loads, each of one of eight files that share keys, with failures and lost acknowledgements | files are stored whole or not at all, equal lines of a file are kept, repeated files and repeated attempts add nothing |
| `benchmark` | every book of two slots of one seller (14 cases, amounts 1001 and 2002, days 0 and 29) or of two payout groups of two or four orders | the engine does what the generator meant: everything injected is found as what it is and nothing else is reported (coincidental sums in an ambiguous group apart), what belongs together is matched, and rows of different slots never meet |
| `group_conflict` | up to 2 orders, 2 lines | finding 1 |
| `mirror_booked` | the split books of `engine_mixed` | finding 2 |
| `mixed_runs` | two requests and a `recon run` | finding 3 |

**Bounds.** The constants `MatchWindowDays = 3`, `AmountHorizonDays = 30`,
`ToleranceDivisor = 200` (50 basis points) and `GroupWindowDays = 14` have the
values of the code, and the templates' days and amounts sit on both sides of
each of them. `GroupMemberCap` is 3 instead of 20, so that a book of four orders
exceeds it; in `SubsetSearch` the cap plays no part. `MaxMoney` is far below
2^63-1, so that sums beyond it occur; in `benchmark` it is 10^8, more than the rows
of its books can carry (`BudgetsAssumption`, which the code's limit meets for
every book of less than 10^12 rows). The evidence rules relate two expected and
two actual rows (a pair and a rival on either side); elimination needs two
payouts that share orders and a third to settle one of them, which the books of
`engine_evidence` hold. The theorems below need no bound.

A generated book of two slots is what `reserve` is about: two slots of one seller
that meet. 8 % of 1001 rounds below the fee band; 2002 paid short leaves lines of
1003 and of 1001, one inside the tolerance of another order and one equal to it; days 0
and 29 are inside the horizon, 0 and 29 + 3 are not. Two groups of one seller are all
a seller may have, and lie on either side of the 35 days' shift; among four
orders and a stray there are other sets of the same sum, of another size
(1001 + 1001 + 1001 + 2002 and 1001 + 2002 + 2002).

For the store, three runs are one more than a race needs, so that a run also
meets what a race left behind; the order, the payout and the bank line of
`MCStore` make a run's result change completely with each row that arrives. For
ingestion, three loads are two that collide and one that finds the result;
the files hold equal lines, one content under two counterparties, two keys in
opposite orders (deadlock) and rejected lines. A content's occurrence number is
bounded by the files, at 2. `StoredAsListed` says what numbering within a file
gives: a content is stored as often as the file with most of its lines lists it.
A statement delivered in two parts therefore loses lines that both parts list;
the documentation promises repeated lines of *one* file only.

In `two_processes` two runs and two starters are one more of each than a race with
a starter, or between starters, needs; a run in a command that does not migrate
(`recon run`) meets starters at every point of theirs. The new kind and the new type
stand for all values of the second version.

**Fairness.** Three runs use it.

* `engine_mixed`: `WF_vars(Next)`. The pipeline is one goroutine that waits for
  nothing (no lock, channel or I/O between entry and return), so a step that is
  possible is taken.
* `one_server` (for `LockIsReleased`, `StopsInTheEnd`): a run that the database lets
  go on goes on (its handler is a goroutine without loops or waits of its own); the
  database reports a broken constraint, and the pool that it is closed; the timer
  of `Shutdown` runs out; a process whose pool is closed ends.
* `two_processes` (for `StartersEnd`): runs and starters go on as far as the locks let
  them, the database reports what it refuses and decides every COMMIT under way,
  and it makes one of two transactions that wait for each other fail
  (`deadlock_timeout`).

Nothing is assumed of clients, of signals, of ingestion or of failures.

All other runs use a specification without fairness. Deadlock is checked in every
run of the engine and of the benchmark: `Returned` is the only step of a finished
run. It is not in the runs of `Store`, `Server`, `Upgrade` and `Ingest`: they stop
when every request, file and starter has been dealt with. That a run is not stuck
there is what `LockIsReleased`, `StopsInTheEnd` and `StartersEnd` say.

## 4. Findings

1. `group_conflict` violates `MatchesNeverConflict`. `README.md:337-338` says a
   row whose reference names a record on the other side never pairs with a row
   that carries a different reference, and `engine_property_test.go:61-62` says
   it of every match. `MatchGroups` chooses candidate orders by counterparty,
   direction and date alone (`group.go:54`). An order with reference R and a
   bank line of R that pays it short is left open by the earlier passes; a payout
   then takes the order. For all other passes the rule holds (`PairsAgree`, proved).
2. `mirror_booked` violates `MirroredMoneyIsBooked`. `classify.go:160-162` gives
   a surplus line delta 0 because "the shortfall is booked on the expected side".
   The lookup (`classify.go:165`) includes expected rows that matched: a second
   line under the reference of an order that matched exactly becomes a `partial`
   of delta 0 and no row carries its amount.

3. `mixed_runs` violates `ResultIsWhole`. `store.go:142-143`: "A run replaces the
   previous run's results, so `recon run` can be repeated safely", and ADR 0005:
   two runs can "never race on the replace-in-place persistence transaction".
   The lock behind that is one per process. A server request and a `recon run`
   at the same time: each `DELETE FROM discrepancy` removes what was committed
   when it began and passes over what the other commits later; the second to
   commit adds its discrepancies to the first one's. No constraint is broken and
   no error reported; a transaction may have two discrepancies. The unique index
   and the foreign keys hold throughout (`two_processes`, and proved).

The instance of finding 3 also fails within one server if COMMITs may outlive
their runs (`Home <- OneServer`, `Lingers = TRUE` in `MixedRuns.cfg`): a client
hangs up during the COMMIT, `SaveResult` returns, the lock is released, and the
next run deletes before the old COMMIT takes effect.

Met on the way, and not in contradiction with anything the repository says: the
second tolerant pass may take an order that made a payout ambiguous, which
leaves that payout with a single fitting set in the final pool (it stays
`ambiguous`; `NoElimination` is therefore about the group phase); orders that
occur only in a third fitting set are not contested, because the search stops at
two. The latter has a consequence for the benchmark: the comment at
`internal/generator/generate.go:328-331` reasons that with a stray order two sets add
up to the gross, so that all the group's orders stay `ambiguous`. With amounts that
happen to give other sums (orders of 2000, 1000, 1000 and 1000 with a stray 2000, on
different days), the first two sets found may leave an order out, which the engine
types `missing`; the benchmark would count a detection it missed. Nothing in the
generator excludes this; amounts drawn at random make it improbable.
`InjectionsDetected` and `NothingUnexplained` are therefore about books without such
a group (`NoCoincidence`), and no property says how one is typed.

The dedup key has no counterparty (`dedup.go:12`), and equal lines are told apart
within one file only (`bank_test.go:26-28` and `README.md:359-362` promise no more).
A line of one counterparty is therefore counted as deduped if *another* file has
listed one of another counterparty with the same date, amount, direction and
reference; bank lines often have none. `StoredAsListed` states exactly what is kept.

## 5. Proofs

Every theorem holds for all values of the constants that satisfy
`LimitsAssumption` (the limits are natural numbers, the divisor is positive) and
for all `Inputs` that are sequences of transactions (`InputsAssumption`):
books of any size, references, amounts and days. `LoadedAssumption` adds, for
`LoadOrder` only, that no book uses an ID twice, as the store's primary key ensures.
Generated books are drawn from what the generator draws from (`BooksAssumption`), in a
number below 10^12 rows (`BudgetsAssumption`), and for the limits the code has
(`LimitsOfTheCode`: with other ones, lines drawn to be late would not be).

* `MatchingProofs`: the provers cannot use the library's induction rules, whose
  premise is an operator. Here induction is about a set instead: a nonempty set of
  natural numbers has a least member (`LeastNatural`), and a family of sets that has
  a set whenever it has all its parts of one member less has every finite set
  (`SetInduction`). From them follow what a sum over a set (`MapThenSumSet`) is,
  for any weights: it exists, it is an integer, it may be taken apart at any
  member, it grows with its weights and with its set. Further, that the sort key
  orders any finite book totally, so that of any sets of orders one is found first.

* `EngineProofs`:
  * `VerdictFits`. Whatever the book, every verdict of the rule chain passes the
    delta check. The least-element lemma (`LeastNatural`, `FirstRow`) justifies "the
    first row of a reference in book order".
  * `TypeCorrect` from `TypeInv`, which adds to `TypeOK` what an accepted book
    satisfies (`SoundBook`: all money nonnegative, TRY, a marketplace row nets)
    and that nothing has happened before validation.
  * `EveryRowInOnePlace` from `PlaceInv`, which adds `PayoutsOpen`: a payout the
    group loop has still to visit is open. Without it a payout could be taken
    twice, once by each of two visits.
  * `ResultNeverRefused`: `Partition` with `VerdictFits` at the step `Classify`
    gives every part of `Check`, so `Finish` never fails.
  * `NoStepTakesBack`: the action property, from `PlaceInv`.
* `EngineProofs` again, the properties about what else is open. All rest on
  *onwardness*: once the book is accepted the pool only shrinks and matches only
  grow, so a statement of the form "no open row is ..." stays true once it was.
  * `Counted`: at every iteration of a tier, the pairs counted at its beginning
    include every candidate pair among the rows open now. This is what makes
    the stale degrees safe.
  * `PairsNeverConflict`, `NoRivalEver`, `PairsAreTheOnlyFit`, `ExactFitsFirst`,
    `PayoutsHaveOneSet`: each names what a new match establishes (`Counted` or
    the guard of the pass), then `StepOnward` keeps it.
  * `ReportStaysInBound` from `Bounded` and `Reported`: what a report adds up is at most the
    worth of the open, the capped and the matched rows, which are disjoint parts of
    the book (`Partition`), and validation bounded the sum over the book.
  * `FitsAreReviewed`: the invariant `Searched` says that a payout already visited
    has no fitting set or is contested; it survives the second tolerant pass because
    orders only leave the pool. `PassOrder` says which phase belongs to which pass.
  * `LateSplitsAreWhole` from `BankLines`: a bank line is matched only beside an
    expected row it does not conflict with, and the parts of a late split conflict
    with all but its own expected row.
  * `NoneIsEliminated` from `Unsettled`: a contested payout has two sets, or one set
    that shares an order with another contested payout, all of contested orders; a
    match takes no contested order, so the sets stay. That a refused payout has two
    sets among those found needs the sort order: it is total (`KeysOrdered`), so no
    two rows share a rank, so the order in which sets are found has a first and a
    second (`TwoAreFound`).
* `LoadOrderProofs`: `LoadOrderDoesNotMatter`, for any book whose IDs differ and any
  two orders of it. The two runs take their steps together, which loses nothing: they
  share no state, and the engine never has a choice, because the first row by rank
  is one row.
  * Rows at the same *place* of the two sorted books (as many rows come before them)
    agree in everything but the ID, because the sort key ends with the ID and names
    before it every field the engine reads (`SamePlace`, `BooksMade`). Such rows are
    *twins*, paired by a bijection `f`.
  * `InStep(f)`: the open rows, the rows a loop has still to visit, the pairs
    counted, the rows set aside and the rows of every match are twins, and the runs
    are at the same line of the pipeline. There is a lemma for every operator a guard or
    an assignment uses (it gives the same, or twins, for twins), then one for every phase
    (`ExactInStep` to `FinishInStep`). `ValidatedInStep` is the step that establishes it;
    it shows that both lists are accepted or neither, as the totals are sums over the
    same rows.
  * Twins share one fate (`TwinFates`), and `f` keeps the numbers of rows
    (`OneOutcome`).
* `SubsetSearchProofs`: `SearchFindsFirstTwo`, for any number of candidates below
  the cap or above it, any positive amounts and targets. Both recursions count a
  position up to the last candidate. For each a value is stated, the saturated sum
  (`SuffixMeaning`) and the sets listed first (`WalkMeaning`); it satisfies the
  recursion, and the least position from the end at which the recursion had another
  value would contradict it. A dead end hides no set, because no target exceeds the
  limit at which sums saturate (`NothingInDeadEnd`); the sets that take a candidate
  come before those that skip it (`BestWith`).
* `IngestProofs`, for any files and any number of loads: `FilesAreStoredWhole`
  and `SecondReadingAddsNothing` from `Held`: an open load holds keys of its own
  file that are neither in the table nor held by another load, and every line it
  has dealt with is in the table or held. The separateness is what the waiting
  of `ON CONFLICT` gives; without it the later of two commits would change rows.
  `EqualLinesAreKept` (`StoredAsListed`) adds that the occurrence numbers of a
  content in a file have no gap (`KeysOfContent`), so that files overlap from 1 on.
* `StoreProofs`, for any number of processes and runs, with lingering commits:
  * `NeverMatchedTwice` from `Apart` (two runs past their UPDATE have disjoint
    spans) and `Insertable` (what the index allowed a run stays allowed until its
    commit, because whoever commits meanwhile holds other transactions).
  * `NeverAnOrphan` from `Backed` (who deleted a match deleted what refers to
    it) and `Past` (what is stored or deleted was written by a run that is over,
    so no member can be added to it).
* `StoreProofs` again, under `OneProcess` and `~Lingers`, the two things findings 3
  and its variant break: `AlwaysOneWholeResult`, `SuccessIsStored` and
  `StoreImplementsLedger` (`Store` refines `Ledger` under the mapping
  `stored <- {t.entry : t \in db}`). `Solo` says the lock admits one run;
  `Deleting`, that its transaction has deleted everything its statements so far
  should have; `Known`, that what is stored is about the book it loaded.
  The assumption about `Outcome` (`OutcomeAssumption`: each row of a book in one
  match or left over, commissions on matches only) is what `EngineProofs` shows
  of the engine.
  `ServerImplementsStore`, `CountersAddUp` and `GaugesAreOfOneRun` are about
  `Server`. The first needs no assumption: counting, draining and exiting change
  nothing the database or the lock knows. It is what carries the theorems about
  `Store` over to the server, and no more. The counters rest on `CountInv`: the
  attempts are the failures, the successes, and one more while a run is between its
  two counters or before its answer (`Running`), of which there is one at most
  (`Solo`); the gauges on an invariant that says which run they show while one is
  being recorded.
* `StoreProofs`, for any number of starters beside them: `OneVersionAlways` and
  `MigratedIsNeverRefused` from `SchemaInv`: where a starter is says which tables it
  has altered and in what schema, and no two have altered the same, so that nobody
  else can commit between the first ALTER of a starter and its COMMIT.
  `UpgradeImplementsStore` carries the theorems about `Store` over.
* `BenchmarkProofs`, for books of any size and draws:
  * `SlotsStayApart` from `ApartInv`, inductive as it stands: `reserve` compares new
    rows with the old ones of the other side, and rows of one slot are exempt.
  * `GeneratedBooksNeverFail` from `DrawnInv`: every row a case or a group emits keeps
    the input contract (the parts of a split are positive and add up, a payout nets),
    and the book's total is at most `MostOnRow` for each row drawn so far. With
    `BudgetsAssumption` (less than 10^12 rows) validation accepts the book, and
    `ResultNeverRefused` does the rest.
  * `FeeStaysInBand`: for every amount of at least 1000 and every rate, the cut shows
    as a fee.
* `PlanProofs`: `MatchesAreIntended`, for books of any number of slots and groups and
  whatever is drawn for them. A *team* is the rows with one label, which are meant to
  be one match. `WellPlanned` says of a book that whatever a pass could accept is a
  team or part of one (an exact fit, two lines of one reference, an order and its
  reversal, an order and a line without a reference that are each other's only
  choice, a payout and the orders in its window), or has a rival that keeps the pass
  from choosing; and that every team is of one of these five kinds.
  * *The generator.* `BookPlanned` is inductive over its actions. A slot's own rows
    are well planned (`SingleRow` to `PayoutAndOrders`, one lemma for each shape that
    the cases draw). Joined to the book they have nothing to do with the rows before
    (`JoinedPlans` over `Embedded`): their references are new, and a row that none of
    its reference answers is in the books of `reserve`, so that `RowsKeptApart` keeps
    it from rows of other slots (`NotTakenForPaid`). A group meets slots in no
    counterparty, and another group of its seller in no window (35 days' shift,
    `SellersTurn`).
  * *The engine.* `PlanInv` is inductive from `Accept` on. `TeamsTaken`: every match
    is a team, so every team is open as a whole or not at all (`TeamsWhole`), and the
    next pass finds it complete. `TeamsProgress`: the teams of a pass are gone when it
    ends, and ahead of its loop while it runs. A pass accepts a team's rows because
    what could rival them is not there (`ReversalAccepted`, `AmountAccepted`), and a
    payout because its orders are the only set with its gross: amounts are positive,
    so a smaller set adds up to less (`PayoutFinds`). A payout with a stray order of
    the same amount as another has two sets and is left alone.
  * In the end every row with a label is matched with its team, once (`DoneMatched`).

Only model-checked:

* `Terminates`, `LockIsReleased`, `StopsInTheEnd`, `StartersEnd`: liveness under
  fairness.
* `InjectionsDetected`, `NothingUnexplained`: what is left over is known from
  `MatchesAreIntended` (the rows without a label), but not yet what the rule chain
  makes of each beside any others. Both also depend on `NoCoincidence`.

## 6. Not modelled, and the plan

Left out for good: rendering of reports and tallies, the benchmark and conversion
commands (offline tools without protocol), CSV, number and date syntax, flags, the
counters per route and the readiness gauge (one statement sets each, nothing but
`/metrics` reads them), and `demo`, which does one after the other what `ingest` and
`run` do.

Order of the work, most important first:

1. `Records`, `Pool`, `Matching`, `Classification`, `Engine`, `Guarantees`,
   their runs and theorems: done.
2. `Ingest`, `Results`, `Ledger`, `Store`, their runs and theorems: done.
3. `Server`, `Upgrade`, their runs; theorems: done.
4. `Generator`, `Benchmark`, their run and theorems: done.
5. `Ingest` composed with `Store`: one `transaction` table under both, so that a
   load's commit is the `Ingest` step of `Store` by refinement.
6. `Plan`, and `IntendedAreMatched` for every budget: done.
7. `InjectionsDetected` and `NothingUnexplained` for every budget: say of each row
   without a label which rule it meets (its reference's rows are known, `Apart`), and
   show that `contested` holds the orders of groups with a stray order only.
