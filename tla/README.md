# TLA+ models of hugegraph-validation

The repository validates Apache HugeGraph.  It carries two patches of the
database (`patches/`), a query suite that compares two backends (`suite/`),
and the harness that drives a cluster through faults and decides whether it
kept its data (`cluster/`).  This directory models those parts: what the
patched code promises to its callers, and when a verdict of the harness (OK,
PASS, exit status 0) may be believed.

Contents: [inventory](#inventory), [plan](#plan), [the modules](#the-modules),
[runs](#runs), [fairness](#fairness), [proofs](#proofs),
[disagreements](#disagreements-between-code-and-text), [limits](#limits).

## Inventory

| Part | State it keeps | Operations | What is hard | What makes it correct |
|---|---|---|---|---|
| Store-client retry loop, `patches/0002` (`NodeTxExecutor.retryingInvoke`, `RetryUtil`) | loop index, `deadlineRetried`, the interrupt flag of the calling thread | one attempt per iteration, failure classes, back-off sleep | an interrupt at any moment; budgets over mixed failures | bounded waiting, no interrupt lost, the call ends |
| Transaction commit, `patches/0002` (`commitTxInternal`, `commitSessions`, `aggregate`) | entries, what each session buffers, the queue of failures | replay actions, parallel commit, roll-back, aggregate | partial commits, lost answers, order of failures, leaders that move | success means delivered, sessions at rest when the call returns; the retry decision does not depend on arrival order |
| Paged entry iterator, `patches/0001` (`BinaryEntryIterator.fetch`) | position of the scan, record that overflowed the batch, entry being built | fetch, merge, open the next batch, end of page | batch and page boundaries that coincide | each record once, in order, full pages |
| Page client, `suite/hg_suite.py` (`HG.paged`) | ids seen, page token | follow tokens | a listing cut off at `max_pages` | a listing that ended by itself is complete |
| Oracle suite, `suite/hg_suite.py` (`Report`, `classify`, `compare`, sections) | cases, names in use, tally, the expected report; the vertices of K5 in the graph | run sections, name, classify inline, dump, compare | reports joined by name; requests that fail, kills, a script that outlives its client | inline and offline verdict agree; a clean comparison means equal answers; a run leaves nothing behind |
| Fault battery, `cluster/k3s_faults.py` (`Load`, `store_*`, `pd_*`, `result`) | load thread and `acked`, `oracle.json`, evidence (uid, phase, process state, leader) | choose a victim, load, fault, prove it, stop and join, save, read back, judge | a thread beside the scenario, a leader that moves, a crash between any two steps | PASS implies the fault landed and every acknowledged write is read back |
| Cold start, same file (`cold_start`) | pods before, in the middle and after | scale to zero, roll, scale back | loops that give up, lists that may be empty | a PASS that saw the Stores gone is about Servers born without one |
| Readiness watch, `cluster/k3s_readiness.py` | sampler rows, load of each scenario, in-memory oracle | sample, fault, heal, timed joins, transition rules | two threads whose joins time out, rows that straddle the fault | PASS of an outage scenario implies a real outage; a late load costs the oracle its last batch at most |
| Snapshot during compaction, `cluster/k3s_3164.py` | partition, snapshot directories, log evidence, state of a partition | compact, snapshot, SIGKILL, judge | evidence from the log of an earlier container, listings that cannot be read | a reported race is one of this attempt; the state is that of the new JVM; a verdict follows from what was read |
| PD disk full, `cluster/k3s_pd_disk_full.py` | sampler rows, filler file | fill, free, restart if the last sample is bad | decision on the last sample of a thread that may be dead | a PD left alone on a row of its own time has been ready |
| Rolling upgrade, `cluster/k3s_rolling_upgrade.py` | sampler, load, `oracle.json` | three rollouts, timed join, save | late acknowledgements, `min` of no rows | one workload at a time; `none-lost` speaks of all that was acknowledged, or all but one batch |
| Lab cycle, `cluster/run_cycle.sh`, `run_side.sh`, `node_*.sh`, `restart_nowipe.sh` | processes and data of three hosts | stop, wipe, boot, init with retries, load, compare | boot order, no script stops on an error | not modelled, see [limits](#limits) |
| PD watch, `cluster/pd_watch_exp2.sh` | graphs on two servers, one watch | create, drop, outage, probe | a watch that dies silently | not modelled, see [limits](#limits) |
| Patch validation, `cluster/validate_patch.sh` | working tree, jars and their `.orig` | red, green, deploy, revert | any order of the four | not modelled, see [limits](#limits) |
| Bulk loaders, `decimal_sum_bench.py`, `idx_bench.py` | the work of a round, shared counters under a lock, oracle of the sums | take a batch, post, count, join, compare | threads that die, requests given up that commit later, updates lost between batches | every entry is sent once and counted once; a mismatch has a reason |
| Plans and `~page` loops, `suite/hg_j8.py` | a report of the suite | `explain`, pages of one query | a page that fails, a bound on the pages | as of the suite |
| Probes, summaries, builds, timings, raw results, documents | none of their own | | | not modelled, see [limits](#limits) |

How they interact: `k3s_readiness.py`, `k3s_3164.py`, `k3s_pd_disk_full.py` and
`k3s_rolling_upgrade.py` import `k3s_faults.py` (its `Load`, `verify`,
`wait_ready`) and share `oracle.json` with it.  The load threads call the
server's REST API, whose writes go through the store client of `patches/0002`.
The suite talks to one server at a time and its reports are files; the lab
cycle runs it twice and compares.  `HG.paged` follows the page tokens that
`patches/0001` produces.

## Plan

In order of importance.  All of it is done, with proofs.

1. `RetryLoop` with `BoundedCall` as its promise, then `NodeTxExecutor`, which
   composes the loop with the commit.
2. `EntryPaging`, which composes iterator and client, with `PagedListing` as
   the promise.
3. `FaultBattery`: scenarios, load thread, cluster and oracle file.
4. `ReadinessWatch`: several scenarios in one process, joins that time out.
5. `SuiteVerdicts`: the suite, its reports and what it leaves in the graph, with
   the plans and page loops of `hg_j8.py`.
6. `SnapshotRace`: attempts on one pod, the logs of two containers as evidence.
7. `ClusterOperations`: the other users of the load and the samplers (rolling
   upgrade, cold start, PD disk), one instance that picks a program.
8. `WorkPool`: the threads of the two bulk loaders.
9. `AckLedger`, what `FaultBattery` and `ClusterOperations` have in common: the
   books of acknowledged batches are closed before they are read back.
   `ReadinessWatch` is not held to it: its loads write on beyond their joins, and
   several loads write at once.

## The modules

Every definition that stands for code is listed with its lines in
`PROJECT.json`.  A definition marked there as external describes software the
repository only calls (the server, the kubelet, the iterator's base class).
Operators named `X_Something` with a comment "Mutant" are wrong variants of
`X`: each property is known to fail when `X` is replaced by one of them.

### RetryLoop, BoundedCall

`RetryLoop` is `retryingInvoke`.  `pc` follows an iteration (`check`,
`attempt`, `sleep`, `done`); the supplier is a choice between a value, a value
`isValid` rejects, and a failure of one of the classes the code tells apart.
`Interrupt` may come between any two steps.  `told`, `carried`, `attempts`,
`deadlines`, `streak`, `slept` are history only the properties read.
`BoundedCall` says what a caller relies on, a bounded number of tries and then
one final result; `PromiseSpec` is the refinement.

### NodeTxExecutor, StoreFailure

The attempt of the loop is opened up into the steps of the commit: every action
buffers a write in the session of whoever leads its partition now, or returns
FALSE, which nobody reads (`DoActionRefused`); the sessions commit in parallel,
failures are queued in the order they arrive, and a roll-back may itself fail.
The writes of a failed commit may be `lost` to the client and still reach their
store (`LateCommit`): at once, during a later attempt, or when the call has long
returned, as a stalled store does after the client's deadline.  `StoreFailure` holds the classification of an exception chain and
`aggregate` as pure operators on chains of links.

### EntryPaging, PagedListing

Records are numbers, an entry is a run of records of one owner.
`LookAtNext`, `OpenNextBatch`, `OpenNextEntry`, `MergeRecord` are the branches of `fetch`;
`RequestPage` and `EndPage` are the client, `PageFails` a request without a usable
answer, at which it gives up what it has and is not asked again.  The end of a page hands back the
position of the record that was read and removed.  `PagedListing` promises the
records in order, page after page.

### FaultBattery

Four scenarios (`store-crash`, `store-stall`, `pd-restart`, `pd-freeze`) run one
after the other as the function of that name does; `pc` is the place in it.
The load thread loops beside it, `Iterate`, write, read.  The cluster moves on
its own: pods come back with a new uid, the leadership changes, a liveness probe
kills a frozen JVM, a batch that was never acknowledged may or may not be stored
and an acknowledged one may be lost.  `disk` and `torn` are `oracle.json` between
`open(..., "w")` and `json.dump`.  `Abort` is the exception any kubectl call can
raise.  A batch of twenty vertices is one value.

### AckLedger

What the reader of a report relies on.  Batches acknowledged while the program
writes are `entered`; `Close` is the moment the program takes the
acknowledgements for complete; `ReadBack` finds only what the database holds, and
`Report` may be clean if all that was entered, and all that earlier reports were
about, was found.  At most `Slack` batches are acknowledged after the close.  The battery implements it
with `Slack` 0, since its join has no timeout and `promised` is what earlier runs
reported on; the three programs of `ClusterOperations` with `Slack` 1, since the
join of the rolling upgrade may give up while one batch is in flight.  A run that
raises is `Break`, and what its threads still do is not promised (`Unheard`).

### ReadinessWatch

The main thread of `k3s_readiness.py` with a sampler and a load per scenario.
Scenarios with the same steps and the same verdict are one kind: `steady` is
store-one-down and store-roll, `tolerant` is pd-roll and store-freeze.  The
stamp and the kubectl call are steps of their own (`StampFault` and
`InjectFault`, `StampBack` and `Restore`), and so are the head of a row and its
probe, so the fault may fall in between.  The joins end whether or not the
thread has; a load may write on while the next scenario runs.  `Abort` is a
kubectl call of the main thread that raises; the judgement raises too, on rows
of a pod without an ip (`Unjudgeable`).  Both end the process.  The number of
endpoints is an arbitrary outcome of the judgement, since `endpoints()` reads a
failure as 0.  `wentDown`, `cameBack` and `saved` are history.

### SuiteVerdicts

One run at a time takes the requests of the selected sections (`Steps`, data of
the instance) and turns answers into cases.  An id list is a bag, and its md5
the bag itself.  Plain queries are one action; the parts of sections L and K
that keep state have their own: the tiles and their union, the pair of slices
with `or []`, ten repetitions, and K5, which writes to the graph, counts and
cleans up.  What one request records is told apart by `part` (K5's script has four,
a page loop two), which stands for the prefix or suffix the code adds to the name.
`ScriptAssumption` is the order of K5: baseline, script, cleanup.  `fresh`, `late` are the graph and the script whose client is gone;
`lost` is history.  `Compared` is `compare`, an operator on two reports.

A plan of `hg_j8.py` is a list of one (`Plan`), and `PageAll` follows the pages
of one query to their end, to a failure or, in silence, to the bound on pages.
`Program` keeps the order of the sections.  The suite always does; `hg_j8.py` takes
the order, and any repetition, from its argument (line 266), and of its runs the
module speaks only of those that keep one order and name each section once.

### SnapshotRace

One attempt after the other on one Store pod, on the partitions of the command
line (`Target`, which may name one twice): `Compact`, `RequestSnapshot`, which asks
for a snapshot of every partition, the log before the signal, `Kill`, `WaitReady`,
the state of the partition, the directories and logs afterwards, `Judge`.  A
partition has no snapshot, a complete one, or one without data; without one its
listing counts as clean.  A log is the set of the attempts whose line it holds, 0
for the time before the script, and the first attempt reads back to there, as its
log begins 5 s early (`Recent`).  When the kubelet notices a dead container, its log
becomes that of the previous one (`Notice`).  The JVM may crash by itself, the
signal may meet another process, and every listing and log may be unreadable.
`fixed` tells the two builds apart: a snapshot that meets the compaction is refused
with a line in the log, or written without data.  `answer` is what the Store says of
the partition; `rest()` cuts it to `BodyKept` characters, and `partition_state` is
what is left to judge.  `fired`, `hit`, `restarted` and `sound` are history.

### ClusterOperations

`k3s_rolling_upgrade.py`, `cold_start` and `k3s_pd_disk_full.py`, one per
behaviour, chosen by `program`.  They share the cluster of pods in slots, the
load, the sampler, `verify` and the oracle file, and so does the module.  A
StatefulSet deletes a pod before it creates its successor, the Deployment
afterwards.  The disk may stay free although it was filled, since nobody reads
what `fallocate` says, and the PD may come and go.  A row of the disk sampler says
"not ready" of a PD that is not, and of one it did not reach: `kubectl get` runs
without `check`, and a failed HTTP request is 0 too (lines 44-49, 80).

### WorkPool

Both loaders hand slices of a list to threads under a lock.  `mode` is how the
sum bench orders a round ("shuffled", "samechunk") or the edge loader.  A request
is in `flying` until the server has read what it updates (`ReadExisting`) and
written it back (`CommitBatch`); a client that gives up leaves it there.  An
account's value is the set of upserts in it, which tells every sum from every other.

## Runs

All counters are bounded by named constants in the guards.  Deadlock is
searched for everywhere; an instance adds a step `Ended` for the states in which
the program has finished.

| Run | Instance | What it shows |
|---|---|---|
| `retry_loop` | ten retries, as in the source | budgets for deadlines and sleep, at most two deadlines in a row, no interrupt lost and no attempt after one, the call ends, refinement of `BoundedCall` |
| `commit` | two writes, two stores, three retries, the throwables the tests of the patch use | success means delivered to the stores; the decision to retry is the same for every order of the failures; the sessions are at rest after the call, and only a write the client has given up on can still arrive |
| `paging` | seven records, batches of three, every limit from 1 to 8, every split into entries of two owners, four pages | no duplicate, no gap, full pages, token never inside the page, also when a page fails, refinement of `PagedListing` |
| `battery` | one Store, two PD pods, two runs, one batch each | PASS is earned, the oracle keeps what completed runs acknowledged, refinement of `AckLedger` without slack |
| `battery_ends` | one run, two batches, fair | every scenario ends |
| `readiness` | one scenario of each kind, two rows, one batch, fair main thread | PASS of an outage scenario is earned; the oracle misses at most the last batch of a stopped load; no thread holds up the end of a scenario |
| `suite` | two runs, any of the sections, two servers, lists of one id or twice that id | inline and offline classes agree, a clean comparison means equal answers, the union of tiles, repeatable K5 |
| `pool` | two accounts, two threads, batches of two, one duplicate, two rounds | no entry is sent or counted twice or forgotten; an account that is on course holds what was acknowledged; a mismatch has a batch without an answer or a duplicate in another batch |
| `snapshot` | three attempts on two partitions, both builds, an answer of 400 characters of which 200 are kept | a race reported while the signals met the JVM is this attempt's; a recorded PState_Normal is that of the JVM that came back; nothing passes |
| `operations` | the three programs, two replicas, two batches | one workload at a time; what a summary without losses covers; a cold start was cold; a PD left alone on a fresh row has been ready; refinement of `AckLedger` with a slack of one batch |
| `snapshot_stale`, `snapshot_fail` | as `snapshot` | two claims of the docstring that the code does not keep, see [below](#disagreements-between-code-and-text) |

Why the bounds are enough.

* `retry_loop` needs no bound: the source's constant is small.
* `commit`: losing a write takes two stores (one commits, one fails), one more
  attempt and a leader that moves in between; an order takes two failures.
  Three retries leave room for an attempt after each class.
* `paging`: the faults are at boundaries.  Seven records hold two full batches
  of three and one over; limits reach one past the table, so that page ends fall
  before, on and behind every batch end, within an entry and between two.
* `battery`: the second run is what shows names used again, a file torn by the
  first run and acknowledgements the first run left.  With two PD pods the leader
  can move to the one that was not chosen.  One batch suffices for a write to be
  acknowledged, lost or unknown.  More batches only matter for the end of the
  loop, which `battery_ends` covers.
* `readiness`: the load has two rounds in `steady`, so that one can be acknowledged
  before the one under way, one in `tolerant`, and none in the outage kinds, where
  only the rows matter.  An outage that must be seen going and coming takes a row for
  each, and the same two rows show what a rule that also counted rows taken before
  the fault would accept.  The proofs remove the bound.
* `suite`: two runs are a report and its reader, and for K5 a run and its
  successor on the same graph.  A list of one id and of that id twice differ in
  `n` alone, the pair that tells sets from bags.
  One id is a plan, and two pages are the least that can fail in the middle.
* `pool`: a lost update takes two threads and two upserts of one account in
  different batches; the second round shows what a thread that died in the first, and a
  request given up in it, do to the next.  Accounts and threads are
  interchangeable, and only invariants are checked, so both are symmetric.
* `snapshot`: the previous container can be of the attempt before (two attempts)
  or, if a signal misses, of one before that (three).  The proofs remove the bound.
* `operations`: with two replicas a workload can be half replaced and one pod can
  be listed twice; the batch that is in flight when the join gives up needs one
  before it that is not.

## Fairness

* `LoopFairness`: the thread is scheduled and a sleep elapses, and every attempt
  ends because each RPC carries a deadline (the DEADLINE_EXCEEDED the loop
  classifies, `patches/0002` lines 207-224).  Nothing is assumed of what an attempt returns.
* `battery_ends`: the scenario's steps are sleeps, polls with a limit and kubectl
  calls with a timeout; the load's requests have a socket timeout of their own
  (`k3s_faults.py:257`, `263`).  The cluster is not fair: it may never elect a
  leader or bring a pod back, and the scenario still ends.
* `readiness`: only the main thread is fair, since its joins and sleeps end by
  the clock and its kubectl calls carry a timeout.  Sampler and load may hang for
  ever.  `ScenarioEnds` is that a scenario leads to the next or to the end of an
  aborted process, not that it has a verdict.
* No liveness is claimed of the other modules.

## Proofs

Each proof module extends the component's module, and its theorems hold for all
values of the constants allowed by the named assumptions of that module.

* `NodeTxExecutorProofs`, the loop.  `LoopInv` adds to the types and to `DeadlineOnceInARow`
  the facts that make it inductive: `Progress` (the index counts the attempts),
  `Streak` (`deadlineRetried` is TRUE exactly when the last failure was a
  deadline), `Budgets` (deadlines and sleep so far in terms of the index) and
  `Told` (an interrupt is in the flag, in the exception, or the call is over).
  The deadline budget follows since two deadlines in a row end the call, so
  others separate them.  `LoopKeepsPromise` maps every step to a try, the end or
  a stutter of `BoundedCall`.
* `NodeTxExecutorProofs`, the commit.  Every step of the executor is a step of the loop or
  leaves it alone, which carries `LoopInv` over.  `Delivery` says where each entry
  is during an attempt: still to do, buffered, being committed, applied, or there is a
  failure that keeps the call from success.  `DecisionStable` is about all
  orders of the failures and assumes `WrappersArePlain`, that an exception with a
  cause has no class of its own: `aggregate` takes the cause of the first failure.
  `SessionsAtRest` says which part of the commit outlives the call: none of its
  sessions, and of the stores only what a failed commit has left behind, which is
  nothing when the first attempt succeeded.
* `EntryPagingProofs`.  `PageSoFar` describes the page as a run of records from
  the token on, `ScanPosition` relates the position, the record that overflowed
  the batch and the last record emitted.  From both: order, completeness, the
  token, the length of a page, and the refinement.
* `FaultBatteryProofs`.  `FaultStage` says what the scenario knows of its fault
  at each `pc`, `LedgerStage` where each acknowledged batch is (with the thread, in
  memory, in the file, read back).  With them `PassIsEarned` is inductive.
  `OracleComplete` follows.  `BatteryKeepsLedger` maps every step to `AckLedger`: a load
  that has ended acknowledges nothing after the join, a run that raises has no verdict
  yet, and the judgement reports what `PassIsEarned` says.
* `SnapshotRaceProofs`.  `LogSpan` says which attempts the lines of the two logs
  can come from: once the signal of attempt q has met the JVM and the kubelet has
  noticed, the current log begins after q, and the previous one after q - 1 if
  the signal of that attempt met it too.  `EvidenceIsOfThisAttempt` follows.
  `NormalIsOfNewJvm` holds because `wait_ready` may take the word of the dead JVM but
  the state is read 30 s later (`ReadState`).  `Judged` keeps apart the two sides of
  the cut: `CutLetsNothingPass` when the answer is longer than what is kept, and
  `FailIsRealUncut` when it is not, so the cut alone is what `snapshot_fail` shows.
* `ReadinessWatchProofs`.  `RowsAreReal` says that a row stamped during or after
  the fault that shows the signal down or up has a moment in the Server's history
  to answer for it, also for the row being taken; `StoppedLoads` that a load that has
  been told to stop is within its last round, from which `OnlyLastBatchIsForgotten`
  follows however long it outlives its join.  `OracleOnlyGrows` needs no invariant.
* `ClusterOperationsProofs`.  One stage per program.  `UpgradeStage` says that
  the pods of a workload are new once its roll-out has been seen to end, and
  untouched before its `helm upgrade`, which gives `OneWorkloadAtATime`;
  `LedgerStage` where an acknowledged batch is, also the one in flight when the join
  gives up; `ColdStage` which Servers were created while no Store was there;
  `DiskStage` that a row begun after the disk was freed shows a state the PD has
  had since.  `Places` says which steps a program has at all.  `OperationsKeepLedger`
  is the refinement of `AckLedger`: `LedgerStage` says that the memory of the process is
  batch 0 and what the load was acknowledged, so that the batch being written is the
  only one that can come in late (`BooksWrite`).
* `WorkPoolProofs`.  `PoolInv` has a ledger (`Conserved`, `Hands`, `Requests`,
  `Plans`) and the balances.  Slices of one list of different entries that begin
  at different multiples of the batch size do not overlap, so every entry is in one
  place.  An account is on course while none of its upserts has failed or been
  given up.  If no round of it is split, two threads never hold upserts of it at
  the same time (`OneBatch`), so the one request that writes it has read what is
  stored, and nothing is lost.  At the comparison an account whose upserts are all
  acknowledged is on course, so its balance is its oracle: `MismatchesExplained`.
  `PoolAssumption` asks for finitely many names and positive batch sizes, and that no
  thread is called "nobody", the mark of a request without a client.

* `SuiteVerdictsProofs`.  `CoreInv` says that a report uses a key once and that a
  key names its section, request and part.  Four arguments build on it:
  * `InlineIsCompare`: a new case has a key no case had, so it adds one to one count
    of `Compared`, the one `_emit` adds it to.
  * `UnionOfTiles`: `TilesSoFar` ties the running union to the cases so far.
  * `SuiteIdempotence`: `GraphKnown` says that fresh vertices nobody has lost belong
    to this run, whose cleanup is still ahead (`ScriptsAhead`), so the baseline
    was taken without them; the sizes of bags add up (`SizeOfBoth`).
  * `CleanComparison`: `OrderInv` says that a whole report is the requests of
    a selection in their order, with nothing missing if nothing failed (`Follows`), and
    that copy n of a name has copies 1 to n - 1 before it (`Copies`).  A comparison with
    nothing but OK has the same keys on both sides; a key shows its section, and a section
    is asked as a whole, so both have the same requests and parts.  Both are sorted, so they
    agree place by place (`SortedSame`), and so do the numbers of the copies (`SameKeys`).

  `SuiteAssumption` gives the constants their shape, with finite bags as answers and
  each section once.  What recursive functions and counts come to is proved with
  the least place where it would fail (`LeastNat`, `SetInduction`).

Only model-checked: liveness (`CallEnds`, `RunEnds`, `ScenarioEnds`).

## Disagreements between code and text

Two are runs that must fail:

* `snapshot_stale`: `k3s_3164.py:8-9` says the race is proven by the log line
  between the compaction and the kill; `logs --previous` is read without a time
  (line 95), and the line may be from before the attempt.
* `snapshot_fail`: `rest()` keeps 200 characters of a body (line 42), so
  `partition_state` cannot parse the Store's answer about a normal partition and the
  verdict of every race that fired is FAIL.  The recorded `state_after` of
  `results/issue-3164-pods` are such cut texts.  `BodyKept` and `NormalLength` are
  constants; only which of them is larger matters.

Three more are definitions in the modules which no run lists; TLC refutes each when
it is added to the invariants or properties of the run:

* `LeaderWasHit` of `FaultBattery` (`battery`): `k3s_faults.py:14-15` says the PD
  leader is deleted or stopped; the leader is read 20 s earlier, and if it has
  moved a follower is hit and the first poll already finds "another" leader.
* `PassWasSampled` of `ReadinessWatch` (`readiness`): `k3s_readiness.py:4-5` says
  every second is sampled; a kubectl failure ends the sampler and the scenario
  passes on what there is.
* `SameBatch` of `WorkPool` (`pool`): `decimal_sum_bench.py:70` says a duplicate is
  in the batch of its first entry; the first may be the last of its batch.

`DeadlineBudget` and `DeadlineOnceInARow` (in `LoopInv`) show a fourth: `docs/findings.md:372-373`
says a request fails after one deadline, and the loop retries it once.

Others are in the list of hazards of `PROJECT.json` with a note: the names a second run
of a scenario writes again (`k3s_faults.py:243`, "new vertices"), the K5 cleanup whose answer is not read (`hg_suite.py:590`, "runs stay idempotent"),
and failed queries recorded as empty lists (`hg_suite.py:415`).

## Limits

* The database is modelled from how this code uses it: a store applies a
  committed batch or not, a server answers or not.  Raft, RocksDB and the PD
  are not here.
* Exceptions of the real commit are taken to be wrapped as `WrappersArePlain` says; the
  commit throws a `RuntimeException` around an `HgStoreClientException`, which is so.
* `ReadinessWatch` has one Server pod under one name; with no Server listed, the
  conditions over all pods hold of nothing (`k3s_readiness.py:190`, `248`).
  Its times are exact, where the code rounds to 0.1 s.  What a load of an aborted
  process was acknowledged is never saved.
* In `k3s_pd_disk_full.py` a row that did not reach the PD restarts a healthy one: a
  restart proves nothing, and no property says it does.
* The report file of a partition named twice is overwritten by the later attempt;
  `SnapshotRace` speaks of the verdicts as they are printed.  Lines about EBUSY that
  have nothing to do with the race are not modelled.
* `FaultBattery` takes state `T` for a frozen JVM; `java_pid`
  (`k3s_faults.py:58-60`) may have picked another process.
* Time is order.  Durations appear where the code's verdict counts them (sleeps
  of the loop, deadlines per call); latencies, percentiles, cache ratios and
  rates do not.
* Two steps of the battery, `setup` and `verify`, prepare its first state or repeat
  its last step.  The samplers of the rolling upgrade and of the PD disk keep
  rows for a summary of figures; of a row only what a decision reads is modelled.
* Of the suite and of `hg_j8.py`, the queries themselves and the load of schema
  and data are left out: they are data, and whether an answer is right is what
  the suite finds out.  A load prints its failures and goes on; the comparison that
  follows then shows the missing data as a MISMATCH.
* `decimal_e2e.py`, `sk_shapes.py`, `page_probe.py` and the scale scripts send requests
  in a fixed order and print or compare with values written beside them; they keep
  no state, and nothing runs beside them.
* `repro_*.py`, `race_*.sh` and the resource samplers provoke or measure
  something a person then reads; there is no verdict to be right or wrong.
* The lab cycle, `validate_patch.sh` and `pd_watch_exp2.sh` are sequences of ssh,
  git, Maven and start scripts in which no step looks at the result of the one
  before.  What they may promise is what those programs do, which is not in this
  repository; the verdict at their end is `compare`, which `SuiteVerdicts` models with any
  earlier report as the expected one, a report of an earlier cycle included.
* Drivers without a verdict (pad load, builds, measurements, summaries) and the
  recorded results are not modelled.
