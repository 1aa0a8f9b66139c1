# Verification of Metronome's workflow core

This directory holds TLA+ specifications of the parts of `data_governance` (`src/app`,
called Metronome in its own documents) in which several actors change shared state, fail
independently and retry. A FastAPI server keeps every durable fact in one SQLite database;
worker processes on Windows poll it over HTTP, drive browsers, publish files and load
PostgreSQL; a scheduler and several thread pools inside the server run what blocks. Most of
the rest of the repository reads and renders that database.

`PROJECT.json` lists every component, run, mutant, hazard and theorem, and for every
definition that models code the lines it stands for. This file says what they mean.

## 1. Inventory

### 1.1 The parts and how they interact

| Component | State it keeps | Operations | Talks to | Model |
|---|---|---|---|---|
| Parallel download bundles (`flow_parallel.py`, `routers/flow_tasks.py`, `flow_tasks.py`, `flow_parallel_worker.py`) | `flow_run_fanout`, `flow_download_tasks` | initialize, claim, report, renew, finalize, abort, reap, stop | run rows, worker rows, coordinator, helpers | `ParallelBundle` |
| Worker slots and claims (`flow_capacity.py`, `routers/flows.py`) | `flow_workers` (process id, current run and task, stop latch), slot limits | register, heartbeat, claim run, claim task, stop local worker | all of the above | `ParallelBundle`, partly |
| Run lifecycle (`routers/flows.py`) | `flow_runs`, `flow_run_events`, `flows.sql_reconciliation_required` | queue, claim, progress, stop, fail stale runs, acknowledge, resume, retry SQL | worker, watchdog, pipelines | `ParallelBundle`, `Retention`, `Pipeline`, partly |
| SQL hand-off (`flow_sql.py`) | one PostgreSQL transaction per load | stage, insert, commit, report | worker, reconciliation fence | `ParallelBundle`, partly |
| Worker process (`flow_worker.py`) | the job in hand, a finalizer token | main loop, fan-out, export, finalize | server over HTTP | `ParallelBundle`, partly |
| Direct publication (`flow_publish.py`) | journal, temporaries, backups in the target folder | publish, roll back, reconcile | worker, folder lock of the server | `DirectPublish`, partly |
| Retention (`flow_retention.py`) | `flow_retention_ops`, `flow_run_source_refs`, tombstone folders | register, hand out, rename, delete, report, release | Resume and Retry SQL | `Retention`, partly |
| Report pipelines (`routers/pipelines.py`) | `pipeline_runs`, steps, resource locks, plan previews, a tick lease | preview, confirm, create, tick, five stages, shutdown, restart | flow runs, Power BI, PostgreSQL | `Pipeline`, partly |
| Scanner control (`scanner/control.py`, `jobs.py`, `pbi_sync.py`, `routers/scanner.py`) | `scanner_jobs`, `pbi_sync_runs`, a generation and a fence in memory | reserve, submit, run, stop, launch, report, import, recover | pool thread, PowerShell scripts | `ScanControl`, partly |
| AI operations (`ai/run_store.py`, `ai/operations_agent.py`) | `agent_runs`, `agent_steps`, a thread pool's queue | create, reuse, retry, supersede, cancel, execute, recover | alerts, settings, model provider | `AgentRuns`, partly |
| Scripts in the signed-in session (`flow_desktop_session.py`, `flow_desktop_host.py`) | one spool folder per request, in which both sides only create files | submit, claim, start, follow, withdraw, end, clean up | Task Scheduler, the worker's run | `DesktopSteps`, partly |
| Execution locks, view refresh, scanner parsers, auto-update, email, recurrences, recordings, remote control, folder rename, catalogue, UI | see section 7 | | | not modelled |

A server handler that writes does so inside one `BEGIN IMMEDIATE` transaction, so handlers
do not interleave with each other. What interleaves is everything *between* transactions:
the steps of a worker, the HTTP delivery of its reports, `taskkill`, a commit in
PostgreSQL, leases that run out, futures of a pool, what a caller read before its
transaction, and a scheduler that wakes every few seconds.

### 1.2 What is hard here

* **Leases against deliveries.** A task's result may arrive after its lease expired, after
  it was cancelled, or twice. A pipeline's tick may outlive its lease.
* **Restarts.** A worker may die while it coordinates a bundle, helps another, finalizes or
  has sent COMMIT. A server may die between two commits of one outcome, while a view or a
  dataset is refreshed, or with runs in the memory of a pool.
* **Stopping.** Stopping a run is three transactions around an operating-system call.
  Stopping the scanner races launches that have read its generation already.
* **An unknown outcome.** An append, a view refresh or a Power BI request whose
  acknowledgement was lost must not be repeated.
* **Late processes.** A worker whose run was failed goes on deleting folders while the next
  run is handed the same operations; a script outlives the process that asked for it.
* **Two sides and a folder.** Publication, retention and desktop steps coordinate through
  files: every rename and every `O_EXCL` is a step at which the other side may be anywhere.
* **Stale reads.** AI analyses are created from a context that was read before the
  transaction and completed after the alert may have changed.
* **Shared limits.** Slots per total, mode, portal and bundle; attempts per snapshot.
* **Must eventually happen.** Aborted bundles, pipeline runs and scripts whose run is over
  must end although whoever would end them is gone.

`PROJECT.json` "hazards" gives each with its line; the properties of section 3 are aimed at
them.

### 1.3 What makes each part correct

*Bundles*: a live download keeps its run and slot; publication sees complete bundles only;
run and ledger end together; nothing ended is rewritten; aborts drain. *Slots*: no limit is
exceeded in any interleaving. *Appends*: an uncertain append fences the flow and nothing
else does. *Publication*: once reconciled, the folder holds the whole old or the whole new
bundle. *Retention*: the newest folders and those a Resume reads stay, and what the server
believes of a folder is true. *Pipelines*: locks cover the run, stages follow each other,
nothing is refreshed twice, an outcome is final, every run ends. *Scanner*: one job at a
time, and no stopped, superseded or interrupted attempt writes the catalogue. *AI runs*: an
unmarked run describes the present alert, a cancellation holds, no run is forgotten.
*Desktop scripts*: what a run reports happened, and a script does not outlive its run.

## 2. Modules

| Module | Models | Lines |
|---|---|---|
| `FlowLedger` | the rows and helpers of `flow_parallel.py` and `flow_capacity.py` as database-to-database functions | 231 |
| `RunReservation` | what a run promises to its Flow, its exports and its stopper | 77 |
| `ParallelBundle` | all handlers, workers, operator, clock and watchdog over that ledger; implements `RunReservation` | 719 |
| `AtomicBundle` | what direct publication promises: one step replaces one bundle | 26 |
| `DirectPublish` | `flow_publish.py`; implements `AtomicBundle` | 387 |
| `Pipeline` | `routers/pipelines.py` and the run queue as far as it competes with it | 726 |
| `Retention` | `flow_retention.py` and the registration, results and pins of `routers/flows.py` | 326 |
| `ScanControl` | jobs, stop barrier and Power BI attempts of the scanner | 341 |
| `AgentRuns` | the durable AI runs and their executor | 401 |
| `DesktopSteps` | a script step in the signed-in session, both sides | 475 |
| `MC*` | instances for TLC: constants and symmetries only | |
| `*Proofs` | theorems of the module they are named after (section 5) | |

**FlowLedger.** A helper such as `abort`, `finish_aborted` or `reap` runs inside its
caller's transaction, so it is a function from one database value `d` to the next. Handlers
compose those functions in the order of their calls. `d.run`, `d.fan`, `d.task`, `d.wk`,
`d.recon` are the tables `flow_runs`, `flow_run_fanout`, `flow_download_tasks`,
`flow_workers` and the column `flows.sql_reconciliation_required`. A task is claimed at
most once (nothing in the code queues it again), so the lease token is determined by task
and worker.

**ParallelBundle.** `proc[w]` is the Windows process of a worker: its pid, whether it
lives, the export it executes and the finalizer token it holds. `stop[k]` is a stop in
flight, `k` being a user's Stop or the coordinator's abort of a run. `sql[r]` is the
coordinator's load as PostgreSQL sees it. One handler is one action, with its `reap` and
`finish_aborted` calls inside it. Exceptions:

* `stop_run`/`stop_download_workers` are the steps they are in the code: abort (first
  transaction), latch, one check and one kill or failure for each target, settlement.
* `claim_run` is split by what it answers (`ClaimRunTask`, `ClaimRunHeld`, `ClaimRunNew`,
  `ClaimRunIdle`); the alternatives exclude each other.
* A report of a finalizer and the worker's step that follows it (start the load, send
  COMMIT) are one action, because the worker does nothing in between; the commit itself is
  PostgreSQL's own step.
* A task report also stands for any retried or delayed copy of it: it may fire at any time
  for a task the worker ever leased.

**RunReservation** has two variables: the state of each run (idle, open, stopping,
succeeded, lost) and of each export (waiting, leased, done, over). A step *serves* one run:
it opens it, carries results over, leases or delivers one export, or lets it succeed when
everything was delivered; all other runs rest or are withdrawn, because every claim reaps
whatever bundle is overdue. `RunState` and `ExportState` map the rows of `ParallelBundle` to it:
a claimed or draining task is leased, an aborting bundle is a stopping run.

**DirectPublish.** `dest`, `temp`, `backup`, `journal` and `scratch` are the files of the
target folder, `pub` is the publisher's control state. Every operation on the file system
is a step: creating and flushing the scratch of a journal, renaming it, creating and
filling a temporary, moving a destination aside, installing, unlinking. `Crash` may come
between any two; `OperationFails` is an `OSError` at one of the operations that the
constant `Faults` names, with the control flow of the `except` clauses. `Recovered` is the
folder as the next reconciliation would leave it; mapped to `content` it must move only in
the steps of `AtomicBundle`. The entry flags `backed_up` and `installed` are never read by
the code and are left out. The server's folder lock (a second Flow with the same output
folder cannot be queued while one is active) gives one publisher at a time, except for a
finalizer that outlives its run (section 6), which is outside this module.

**Pipeline.** `preview` and `built` are what `create_pipeline_run` compares before and in
its transaction; `runs`, `locks` and `frun` are tables; `fut` the futures of a run
(launching workers, refreshing views, Power BI); `tick` the two threads that may execute
`pipeline_tick` (the scheduler's, and the one of startup). A tick is the sequence of its
transactions: `ClaimLease`, then the action of the stage it read, with the calls between
two of them as windows for every other actor. Each future is a chain of actions around its
external call (`MvStart`, `MvNext`, `MvRefresh`, `MvRecord`, `MvFail`; `PbiStart`,
`PbiPersist`, `PbiPoll`, `PbiEnd`). `Stop` sets the shutdown event, `Restart` loses futures
and threads and runs recovery. `Fails` holds the lock release and the step updates of a
failure, as `_fail_pipeline` does. Deadlines are choices of the step that checks them.

**Retention.** `op[s]` is the operation on the folder of run `s`, with the run it was
handed to; `disk[s]` says folder, tombstone or nothing; `proc[i]` is the worker process of
run `i` with the operations it was handed, the one in hand and its results. Registration
with its hand-out and every report is one action (a transaction); each look at the disk,
the rename and each attempt of `rmtree` is a step of its own. A run may be ended under a
living process (`Interrupt`), which then continues as a zombie; `shared` remembers which
folders two living processes held at once. A row keeps what its job carried (`carried`: the
folder a file lies in and the run it is attributed to), what its worker reads (`uses`), what it
pins and what it reported (`files`). `Evidence` is what a Resume finds: the source's own carried
entries and its reported files, attributed to the source. A Resume reuses what
`_source_folder_unavailable` does not refuse and pins the runs its entries are attributed to;
it asks for no kind of source, so a failed Retry SQL may be resumed, whose worker has reported
its source's files as its own (`RetryStarts`).

**ScanControl.** `generation` and `fenced` are the module variables of `control.py`, lost
in a restart; `jobs` and `attempts` are rows; `pool` the futures that wait for the single
thread; `actor` what each request and the thread is doing; `reports` the processes that
have not reported yet. Stopping is `Publish` (generation and fence), `StopRows` (the
transactions, which may fail), `Kill`, `CancelQueued`; launching is `Launch` (the check of the
generation), `InsertLaunch` (the row, under the barrier), `SpawnScript`/`SpawnThread`; a report is `Arrive`
(captures the generation) and `Import` (checks generation, fence and row under the
barrier). A transaction that ends a job (`Closes`) or an attempt (`Records`) may fail: the code
logs it and goes on. `Restart` runs both recoveries of `_start_runtime` (`RecoverJobs`,
`RecoverSyncs`), each of which may raise: `_run_optional_startup_step` logs the exception and
the service starts without it. `late` and `leaked` are history: a stop or restart came after
the launch, or a restart that could not recover the attempt (`"missed"`); another request
cancelled the job's future, its start raised, or its last row could not be written.

**AgentRuns.** The two database triggers are part of the actions that change an alert.
Callers read settings and context, then create in one transaction, then submit to the pool:
`ReadSettings`, `ReadContext`, `CreateAuto`/`CreateManual`, `Submit`. The executor is
`Begin`, `Claim`, `Check`, `Work`, `Tool`, `Result`, `Complete`, `FailRun`. The database may
refuse any write of the thread: `WriteRaises` is one outside the `try`, where the code leaves
the row behind (`lost`); `Raises` is one inside it, which leads to `fail_run`; `Refuses` is the
`finish_step` of a tool or a result, which leads there as well and leaves its step as it was
(`step = "refused"`). `Restart` is `recover_and_start`: recovery and resubmission, or neither
when it raises, since `_run_optional_startup_step` goes on without it; what was queued or
running then belongs to nobody (`lost`).

**DesktopSteps.** `dir[r]` is the request's folder: who created the claim and which files
exist, the heartbeat as long as it is younger than its limit. `step[r]` is the worker's
call from `Submit` to `Discard`, `host[h]` a launcher from the listing of the spool to the
end of the output, `proc[h]` the script it started and one process beside it, which is in
the tree and holds the output, is in the tree and does not, or has left the tree and holds
it. `seen` says that the worker's observer has started, which only a step that saw its start
has. Whoever follows a script ends its tree and what was observed of it (`Killed`); the worker
whose withdrawal raced the start has no observer and ends the tree of a script that still runs,
nothing else (`TreeKilled`). `SignOut` ends launchers and scripts; `Crash`, `CloseLauncher` one
side.

### Left out of the modelled parts on purpose

Sequential, recorded, Python, file and Outlook runs, catalog scans and recorder
reservations; worker capabilities, artifact-store identity, slot numbers, the order of
queues and settings changes, which are nondeterministic choices or constants; the latch
value -1 (a worker always sends `os.getpid()`). Process ids are fresh. Progress reports of a
coordinator are delivered before its successor registers (task reports need not be).
Several stale runs found by one watchdog pass are handled in separate steps. Pipeline
e-mails, lineage queries and readiness probes; retention's marker format, link checks and
several parent folders (one refusal each); AI runs without an alert, the model's calls and
budgets, enrichment jobs that start before recovery (`main.py:740-755`), and a pool that cannot
start its one thread when a run is submitted; usage imports
and probe rows of the scanner; the check of scripts before a run, output tailing and the
removal of folders two days old. For desktop steps: the heartbeat thread is never delayed by
two minutes, a kill that is sent succeeds, and Windows keeps a folder while files in it are
open. PostgreSQL, Windows, Power BI and Task Scheduler are modelled from the way the code
uses them.

## 3. What TLC checks

| Run | Instance | Question |
|---|---|---|
| `bundle_restarts` | 1 run, 2 exports (one carried by Resume), 2 workers, each may restart once, fairness | Do leases, parent, ledger and worker rows stay consistent under crashes, does the run keep the protocol of an abstract reservation, and does every lost or aborted bundle end? |
| `bundle_stops` | the same two exports without Resume, a user's Stop and the coordinator's abort | Is a run kept while a process downloads for it? |
| `pool` | 2 flows with 3 exports, 2 browser modes, 3 workers, portal of 2, total of 2 | Is any slot limit exceeded? |
| `append` | 2 appending runs of one flow, 1 worker with a restart, Stop | Is an uncertain append always fenced, and nothing else? |
| `publish` | 3 runs, 2 files (one exists), crash anywhere, failing copies, renames, restores | Is publication an atomic replacement, truthfully reported, one transaction at a time? |
| `pipeline_restarts` | 1 report with 2 flows and 2 views, 2 ticks, 1 restart with another endpoint, late launches, slow ticks, cuts | Do locks, order and outcome survive, and is nothing refreshed twice? |
| `pipeline_locks` | 2 reports on one dataset, a direct flow run, an edit of a flow | Does only the pipeline write what it reserved? |
| `pipeline_ends` | 1 flow, 1 view, 1 restart, fairness | Does every pipeline run end? |
| `agents` | 1 alert, 2 settings, 2 callers, 2 runs, a change, two restarts, refused writes, a recovery that raises | Are analyses current, bounded, cancelled for good and never forgotten? |
| `scan_control` | 2 requests and the thread, 2 stops, jobs and attempts, a restart, writes that fail, starts and recoveries that raise | One job at a time, and does only the newest live attempt write the catalogue? |
| `retention` | 4 runs of 2 flows with Resumes and retries of each other, one folder kept, one run interrupted or hindered, one unreadable marker | Are the newest and the pinned folders kept, and is the server's record true? |
| `desktop` | 1 request, its launcher and a spare one, Stop, limits, three kinds of processes a script starts, one fault, fairness | Is the report true, is an ended run's script over, does every script end? |

Each property is stated above its definition. Each has a mutant: a plausible slip in the
code, written next to the definition it replaces, that makes TLC find the property
violated under the run's own configuration.

**Bounds.** Counters that could grow are capped by a constant in the guard of the action
that would raise them. Leases, deadlines, limits and silence have no numbers: a flag that
time may set whenever its predecessors allow.

* Bundles: `MaxPid` bounds the processes a worker slot has in its life; two are enough for a
  restart in every state of the bundle. Stop procedures may be used again after they
  finished. Two workers suffice for coordinator and helper; three workers and two modes for
  the interplay of limits; two runs of one flow for everything the fence says, since a flow
  has at most one active run.
* Publication: two files give every order of "replaced" and "new"; three runs let one
  publish over what two others left behind.
* Pipelines: two flows and two views show order and partial success; two ticks are what the
  code starts. A run is *hurt* by what the code does not survive (section 6): `"late"`,
  `"slow"`, `"cut"`, `"stale"`; properties say for each which of them they allow for, and
  `OneFault` follows runs that meet one at most. `SecondIsCreated` follows the second run
  until it has been created, which is where resource locks decide.
* Retention: four runs are the shortest history in which a run that goes on as a zombie holds an
  operation, the next one gives it up, and a Resume pins the folder.
* Scanner: two attempts and two stops let a newer launch lift the fence of an older stop.
* AI runs: two rows and one change let a run be superseded and replaced, one attempt is
  the smallest limit that a retry can exceed; two restarts let a recovery find what an earlier
  one could not recover.
* Desktop: one request with a spare launcher has every race for the claim, since launchers
  differ from each other only in the request they were started for.

**Symmetry** is used where a run checks no liveness: exports that Resume does not carry,
workers of equal mode, callers, flows. `agents`, `scan_control` and `retention` check
action properties with it, which are invariant under the same permutations.

**Deadlock** is checked in every run of `ParallelBundle`, where the watchdog is always
enabled. In the other runs the bounds stop the model: every run has had its attempt,
every request has ended.

**Fairness.** It is assumed of what the code schedules, never of users, of claims or
reports that a process may not live to send, of PostgreSQL, of Windows, or of anything that
restarts a worker.

* `bundle_restarts`: the watchdog runs (APScheduler, every 10 s, `main.py:564-572`); a lease
  nobody renews expires and an abort deadline passes; a run whose worker's process is down
  falls silent and is failed (`fail_stale_runs`); a process that is up registers.
* `pipeline_ends`: the scheduler repeats the tick, the pool runs its futures, the lease of a
  dead holder expires, the service replaces a process that stops, and a deadline that
  is checked again and again is found passed at last. The last is strong fairness, because
  the tick that checks is not enabled between two ticks.
* `desktop`: a worker and a launcher that live go on; a deadline passes and a heartbeat that nobody renews
  grows old. Nothing makes a script end, a child exit, Task Scheduler start the task or
  anybody press Stop.

## 4. What the properties say together

* **A bundle cannot be lost.** `ReservationHeld`, `AssignmentsAgree` and
  `ReservationCoversDownload` tie lease, worker row, run and process together; `WholeBundle`
  and `BundleEndsWithRun` tie ledger and run; `ReservationProtocol`, the refinement of
  `RunReservation`, orders what happens to them and lets nothing ended change;
  `LostBundlesEnd` lets every aborted bundle and every bundle without a coordinator end.
* **An append happens at most once without a person knowing.** `NoBlindAppend` is about
  the next append, `OnlyAppendBlocks` about fences without a cause.
* **A folder is old or new.** `AtomicPublication` is the refinement of `AtomicBundle`,
  `OneTransaction` its precondition, `OutcomeTruthful` what the caller is told.
* **A pipeline is a sequence.** `LocksCoverRun` and `ReservedAlone` keep others out,
  `UpstreamFirst` and `SucceededMeansDone` order the stages, `NeverReplayed` survives
  restarts, `OutcomeIsFinal` and `EveryRunEnds` are the end of it.
* **Old work does not write.** `OnlyCurrentImports`, `CurrentRevision`, `CompletesCurrent`
  and `CancelHolds` are four forms of it; `NoOrphan`, `StepsClosed`, `BoundedAnalyses` and
  `OnlyLeaksBlock` say that no work is forgotten, repeated or in the way.
* **Files that are needed stay.** `NewestKept`, `PinnedKept`; `Accounted` says that the
  record of a folder is true, so that no tombstone is left to nobody.
* **A script belongs to its run.** `ReportIsTrue`, `EndedIsOver`, `ScriptsEnd`.

## 5. What is proved

TLAPS checks the following for every value of the constants: any number of runs, tasks,
workers, folders, attempts, callers, requests, restarts and faults.

| Module | Theorems | Assumptions |
|---|---|---|
| `FlowLedgerProofs` | `ReapKeeps`: `reap` preserves the ledger invariant; the lemmas on what a rewrite does, and on the relations *Calm*, *Steady*, *Spares*, *Records* and *TakesOnly* between a database and the next | `NullAssumption` (the NULL values are no ids), `ShapeAssumption` (which run and flow belong together) |
| `ParallelBundleProofs` | `BundleInvariant`, `BundleType`, `ReservationTheorem`, `WholeBundleTheorem`, `EndsTogetherTheorem`, `FenceTheorem`, `EndedTheorem`, `SlotsTheorem`, `AppendTheorem`, `AssignmentsTheorem`, `OneStopCoverTheorem`, `CoverTheorem`, `RecordTheorem`, `SilentCommitTheorem`, `CoupledInvariant`, `ReservationProtocolTheorem` (the refinement of `RunReservation`) | the same, `CapacityAssumption` (finitely many rows, limits are numbers), `LoadsAssumption`, `StopKeysAssumption`; `CoverTheorem`, `RecordTheorem` and `SilentCommitTheorem` state a hypothesis about behaviours, `OneStopCoverTheorem` one about `StopKeys` |
| `PipelineProofs` | `Invariance`, `Types`, `LocksHeld`, `StagesInOrder`, `NoReplay`, `SuccessIsComplete`, `Reservations`, `Finality` | `ShapeAssumption` (plans are sequences of flows and views, every flow has a first table, there is an endpoint, `MaxRuns` is a number, the null thread is no thread) |
| `DirectPublishProofs` | `PublishInvariant`, `PublishType`, `OneTransactionTheorem`, `AtomicTheorem` (the refinement of `AtomicBundle`), `OutcomeTheorem` | `PublishNulls`, `PublishShape`, `NullJournals`; faults without `"journal"`, and for `OutcomeTheorem` without `"cleanup"`, where the theorem says so |
| `ScanControlProofs` | `TypeCorrect`, `BlockTheorem`, `ImportTheorem` | `BoundsAssumption`, `ThreadAssumption` (the thread is no request) |
| `AgentRunsProofs` | `RunsInvariant`, `RunsType`, `RevisionTheorem`, `CancelTheorem`, `StepsTheorem`, `OrphanTheorem`, `CompletionTheorem`, `AnalysesTheorem` | `BoundsAssumption` |
| `RetentionProofs` | `RetentionInvariant`, `RetentionType`, `NewestTheorem`, `AccountTheorem`, `PinTheorem` | `RetentionBounds` (at least one folder is kept) |
| `DesktopStepsProofs` | `DesktopInvariant`, `DesktopType`, `ReportTheorem`, `EndedTheorem` | `DesktopBounds` |

**Bundles.** `BundleInv == TypeOK /\ LedgerInv(db) /\ FinalizerHasExports`. `LedgerInv(d)`
speaks of one database value: its typing, every active task inside an active run and a
bundle that is downloading or aborting, ledger and run ending together, finalized or
succeeded bundles whole, fences with a cause. Every handler is a composition of the
rewrites of `FlowLedger`, so it is enough that each rewrite preserves `LedgerInv`; handlers
follow by composition. For each rewrite there is an *Effect* lemma that says row by row
what it changes, and a *Keeps* lemma that uses it (both in `FlowLedgerProofs`; the handlers
follow in `ParallelBundleProofs`). `FinalizerHasExports` is the
strengthening `WholeBundle` needs: a finalizer that was stopped or replaced may outlive its
run and start its load after the run has ended, so "a load began" cannot be derived from
the state of the ledger; but every process that holds a token, and every load that began,
has all exports succeeded, and succeeded tasks are never rewritten. `EndedTheorem` (no step
rewrites what has ended; no run checks it, `ReservationProtocol` implies most of it) uses the
same lemmas: each rewrite leaves terminal rows alone.

**Fences and slots.** `Guarded == Fenced /\ Slots` is a second invariant of the database,
proved beside `BundleInv`. Most rewrites are *Calm*: no run opens, no ledger begins a load,
no flow loses its fence, nobody new becomes busy. A calm rewrite keeps both halves
(`CalmGuarded`), calm rewrites compose, and only five operations need an argument of their
own: `AssignTask` and `AssignRun` take slots, `QueueRun` opens a run,
`ReportSqlInsertion` begins a load, `AcknowledgeSqlReconciliation` lowers a fence.
`flow_capacity` counts rows and helpers, `SlotsRespected` counts busy workers: `BusyCounted`
shows that the first bounds the second, because every helper that is no holder is counted
once, and `TakesSlots` that a claim which found a free slot leaves all four limits kept.
`Fenced` needs that a flow has one open run at most, that a ledger which still downloads has
begun no load, and that an aborting uncertain append is fenced already.

**Assignments.** `Assigned` strengthens `AssignmentsAgree`. A claimed task holds its worker's
row unlatched, in a bundle that downloads (`Leased`), which is what lets a stop latch and
settle without taking a row from a lease; a run that is stopped, or being stopped by a
procedure in flight, has a bundle that only ends; a worker row that holds something has a
process id, so that no latch is mistaken for an empty one. An active run is its worker's
current run or `Excused`: its coordinator is gone, or another run of the same worker was
stopped. `HolderExcused` is the step that makes this inductive: when a worker's row is taken
on behalf of an older run, the run that loses it has an excuse, because one of the two was
stopped before the worker could take both. Rewrites that are *Steady* row by row keep all of
it; assigning, latching, settling and registering have lemmas of their own.

**Downloads.** `ReservationCoversDownload` needs `Covered`, which has four parts. `Taken`: the
task of a worker row was claimed by that worker. `Attended`: while a lease runs, the registered
process of its holder is the one that downloads. `Spent`: the task a stop has noted was fenced
before. `Aimed`: no settlement in flight takes a download that still has its lease, because its
own kill is still to come, or because the worker has registered or was unlatched since
(`Clear`). Most rewrites *Spare* every held row; claiming, acknowledging, registering, latching
and settling have arguments of their own. `CoverTheorem` has the hypothesis `LatchNotShared`, no
two stops of different runs follow the same process, and needs it: section 6, item 2 is what
happens without. `OneStopCoverTheorem` has none: with the stops of one run, by its operator, by its
coordinator or by both, the hypothesis holds in every state.

**Loads.** `Recorded`: a load that began is on record in the ledger row of its run. All rewrites
keep the *Records*. `RecordTheorem` and `SilentCommitTheorem` have the hypothesis
`LoadsInsideRun`, no load of an append begins after its run has ended; with `AppendTheorem` they say that a
silent commit has one cause, the finalizer that does not look at "ignored" (section 6, item 3),
and that looking at it would be enough.

**Reservations.** A rewrite *TakesOnly* if, run by run and task by task, it leaves things alone
or withdraws them: exports that wait or are leased are over only in a bundle that ends, and a run
may end but not in success. This is a preorder, and `abort`, `finish_aborted`, `reap`,
registration, failures, the watchdog and the whole of a stop only take. Five transactions
*grant*: queueing, `initialize`, a claim, a delivery, a success; each starts from what `reap` left,
so `ReapReserves` composes a withdrawal with a grant into one step of `RunReservation`, which is
why that module lets other runs be withdrawn beside the one that is served. The coupling
`Coupled` says that a ledger belongs to a run that was queued (`Begun`), that a task which must
acknowledge its cancellation belongs to a bundle that ends (`Draining`), and that a worker's
current run was queued (`Known`): without the second an acknowledgement could withdraw an export
of an open run. That a run ends without a lease is `ReservationHeld` after the step, so the
proof needs `LedgerInv` of the new database as well as of the old.

**Pipelines.** `PipelineInv` has nine parts, each a statement about one run, so that a step has
to be followed for the run it is about only. `TypeInv`; `Control`: what a tick and the two
futures hold fits the stage of the row; `Locking`: a live run holds exactly the resources of its
plan (one left half-made by a crash may differ), an ended one none; `Aim`: the flows of a run
under way write the tables it was planned for; `Commits`: a view has one commit at most, a
pending one none, and a running one that has committed is about to be recorded or was left by a
restart; `Flowing`: each flow step belongs to one flow run, flows follow one another, and a
stage starts on the complete outcome of the one before; `Viewing` and `Requesting`: the same for
views and for the Power BI request, with what a tick that has read the steps, and a future that
has begun, may still do; `Reserved`: a table under a lock is written by the holder's flow runs,
and a view was locked between two indices of the queue. Runs that met one of the faults of
section 6 are *hurt*: `Aim`, `Flowing`, `Viewing` and `Requesting` say nothing of them, and
`Reserved` nothing of their flow runs' tables; the properties exclude the same.

**Direct publication.** `PublishInv` has seven parts: the types; `Control`, which steps go
with which entries and journal states; `Isolation`, at most one run has a file of any kind
in the folder, and a publisher that gets past reconciliation finds none; `Journals`, every
temporary and backup has a journal that vouches for it; `Entries`, each file of an
undecided bundle is moved aside, untouched, or new; `Progress` and `Loops`, what the
entries before and after the one in hand look like. `Recovered` picks the undecided run
with CHOOSE; by `Isolation` there is one at most, so `RecoveredForm` replaces the choice by
`Restored(q)`. Every step then falls into one of six lemmas: it decides nothing
(`AtomicQuiet`, `AtomicControl`), it moves files of a bundle that stays undecided
(`AtomicSwap`, `AtomicUndo`), it finishes what is decided (`AtomicSettled`), or it decides
(`AtomicDecision`): the rename of a committed journal, or the crash that leaves its flushed
scratch to be promoted, is the one step that publishes. What the caller is told needs `Told`
besides: nothing of a run that has not published is in the folder, what a publisher put in
place it can take back by its journal (`Revocable`), the journal stays undecided while a
failed publication is rolled back, and all files are in place while a committed one cleans
up.

**Scanner.** `TypeInv` adds to the types that whoever is about to spawn or waits has an
attempt. `BlockInv` says that at most one row is active (`One`), that it has an owner or
was leaked (`Owned`), and that two owners never share a job (`Owners`); the last makes
"whoever finishes it frees it" an argument. `Careful` is the heart of `ImportTheorem`: an
attempt that still reads as launched although it is late (a stop or a restart came between,
or its row could not be written) has only reports and launches of another generation, so
each of the three guards of the import may fail by itself as long as one of the others holds.
Attempts that a restart could not recover have none of the three and are outside `Careful`
(section 6, item 15). A recovery of jobs that raises leaves the one active row leaked, so `Owned`
survives it.

**AI runs.** `RunsInv` adds four parts to `CurrentRevision` and `NoOrphan`. `AgentInv`: while
the thread executes, its run is running; an open step belongs to that run, in the middle of a tool
or a result, or to a running row that was lost, whose step the next recovery closes. `CancelInv`: a
cancellation is decided together with the status, so `"queued"` and cancelled exclude each other.
`TicketInv`: a run has one ticket, the future in the queue, the caller about to submit it or
the thread; without it a second future could claim a run that is already executed. The steps
of the thread share one lemma (`ThreadStep`), those of callers another (`CallerStep`).
`BoundedAnalyses` counts rows of one snapshot, so `Ages` says what a step may do to a row:
its snapshot and its mark stay, and one that completes describes the present context; the
rows that count are then no more than before, or the creating transaction has just counted
them.

**Retention.** `ProcInv` relates a process to its list, the operation in hand and its
results; `OpInv` an operation to the folder it is about; `HoldInv` says that an operation
which no two living processes held is pending and belongs to its holder; `SeenInv` that
what a worker saw of the disk is still so, as long as nobody shares the folder; `PinInv`
that a folder which a live Resume or retry reads is pinned and has no operation, or one that
was given up. `EntryInv` makes pins follow the files along chains of Resumes and retries: what a
job carries is attributed to a run and lies in that run's folder, unless the run is a retry, and
an ordinary run reports no files but its own and those it carries. So a Resume that pins the
runs its entries name has pinned the folders too, except those known through a retry, which
`Reads` leaves out (section 6, item 9).
`NewestTheorem` needs a cardinality argument: the folders newer than one with an operation
are at least `Keep`, and stay so because a newer folder is recorded before it may go.

**Desktop.** `HostInv` ties a launcher to its script, `DirInv` a folder to its worker,
`OpenInv` says of an open folder that whoever owns a request is the one its claim names and what
each of its files means, `StepInv` what the worker may conclude from them. A launcher's
step changes one launcher, its script and one folder, so `LauncherStep` reduces fifteen
actions to the invariant of that launcher and that folder; `OpenFrame` and `OpenBefore`
settle folders the launcher is not at or has not started a script in. That a worker with an
observer leaves no child behind rests on `seen`: it is set exactly when the start was seen, so
an ended step with a surviving child is one that raced its withdrawal and whose script had
exited by itself. Once a script has
exited nothing that a report mentions changes any more (`Settled`), so that `ReportIsTrue`
needs one argument at the moment the worker returns.

**Only model-checked:** the liveness properties `LostBundlesEnd`, `EveryRunEnds` and
`ScriptsEnd`. They rest on fairness and ENABLED, which are beyond this prover. Every safety
property of a run is stated by a theorem; `ReservationCoversDownload` is the one that does not
hold for every value of the constants, and its theorems say for which behaviours, and for which
constants, it does. No recursive operator is declared.

## 6. Where the code does not keep what one would expect

The runs check what holds. What follows does not hold; it was met while modelling. Where a
definition states it, adding that definition to the configuration named lets TLC print the
history. Properties that hold exclude exactly these histories, and say so.

**Stopping and bundles**

1. *The latch does not last.* `flow_parallel.py:437` says the latch keeps a worker from
   claiming other work while Windows processes the stop. An acknowledged cancellation
   (line 219) clears it between check and kill; the worker claims another run and is killed
   for the first. `LatchHoldsDuringStop` fails with two runs of two flows, one export each,
   one worker and the Stop of one run.
2. *Two stops share a latch.* It is a process id, so the last transaction of one stop (line
   459) clears the other's; the second reads "replaced" (line 442), settles the task (lines
   455-458) and ends its run while the process downloads under a live lease, against
   `docs/flow_workers.md:140-142`. `ReservationCoversDownload` fails in the same instance when
   both runs are stopped. Within the stops of one run it holds (`bundle_stops`,
   `OneStopCoverTheorem`), and the shared latch is the only way to lose it (`CoverTheorem`).
3. *A finalizer that outlives its run.* Reports on an ended run are answered "ignored"
   (`flows.py:6617`) and the worker does not look at the answer, so it may begin and commit
   an append that no fence covers, although `docs/flow_workers.md:148-149` says the Flow
   then blocks. `NoSilentCommit` in `MCAppend.cfg` fails. It is the only way to a silent
   commit (`SilentCommitTheorem`).
4. `StopPlain`: the stop of a run without tasks (`flows.py:4629`) unassigns the worker first
   and kills afterwards without any latch.
5. *A row is freed by the worker's id.* A run whose coordinator was stopped stays active until
   its last helper drains; its worker registers anew, may claim another run, and the late
   "failed" of the first (`flows.py:6753`), or the watchdog, frees the row of the second.
   `AssignmentsAgree` allows for it (`Displaced`). A restart of that worker then recovers
   nothing of the second run, which ends when the watchdog finds it silent.

**Publication**

6. *A stale scratch journal is promoted.* When the rename of the journal that says
   "committed" fails (`flow_publish.py:173`), publication rolls back by the journal on disk,
   but the scratch stays. If that rollback is interrupted, the next publisher promotes the
   scratch (line 341), takes the run for committed and deletes backups the rollback still
   needed: old and new files remain side by side, or a file is lost. `AtomicPublication` in
   `MCPublish.cfg` fails with `Faults = {"journal"}`.
7. *A failed cleanup is reported as a failed publication.* The cleanup after the commit
   (line 469) is inside the `try`. `OutcomeTruthful` fails with `Faults = {"cleanup"}`.
8. *A torn scratch closes the folder.* A process that dies while it writes a journal leaves
   a file that `reconcile_target` refuses to read (line 332), against lines 3-8.
   `NeverRefused` fails with `Faults = {}`.

**Retention**

9. A retry of the SQL load pins its source run only (`flows.py:3395`), but the artifacts it
   loads may lie in folders of runs the source had resumed (`flows.py:3086`), against
   `database.py:1475-1476`. A failed retry has stored those artifacts as its own
   (`flow_worker.py:8179-8199`), and a Resume of it attributes them to the retry
   (`flows.py:3247`) and pins only that, although the retry has no folder: the folder they lie
   in may be deleted while the Resume is queued or runs. `FilesKept` in `MCRetention.cfg` fails
   for both; `PinnedKept` leaves out what is known through a retry only.
10. Two living processes may hold one operation: the zombie of a failed run, or a run whose
    registration reads its status outside its transaction (`flows.py:6520`). The second then
    finds the folder moved, reports "skipped" and the operation is abandoned while a
    tombstone or nothing is left, against `flow_retention.py:22-25`. `Accounted` leaves such
    folders out (`shared`), and `PinnedKept` those among them whose operation was given up: a
    Resume may then pin a folder that the zombie still deletes.

**Pipelines** (`routers/pipelines.py`)

11. A tick reads the steps (1630-1657), a future fails or completes the run, and the tick then
    submits the stage again: a failed run may come back to life, a view that succeeded may
    be marked unknown, a Power BI request may be repeated (1658-1679): `"stale"`.
12. A launch that fails late (1065) fails a run that has moved on; `_set_stage` and
    `_succeed_pipeline` (1006-1027) bring it back: `"late"`.
13. A failure is several commits (the step's, the run's, a queued child 1092-1114 and its stage
    1115); a crash between them leaves a second child or a step that contradicts its run:
    `"cut"`.
14. The lease of twenty seconds may expire under a slow stage (1543): `"slow"`. A slow tick
    of a run that failed meanwhile still queues its next flow, for which `ReservedAlone`
    leaves hurt runs out. The plan's views are not rechecked in the creating transaction
    (1705-1771), which `ReservedAlone` allows for. The summary e-mail may be sent twice (1481-1515, 1614; not
    modelled).

**Scanner and AI runs**

15. `_cancel_queued_jobs` (`routers/scanner.py:122`) cancels a future that another request has
    just submitted, or a start raises between its reservation and its submission: the row
    stays active and blocks every scan until a stop or a restart (`leaked`). A job that
    captures the generation after the stop that was meant for it runs to its end although
    its row says stopped. A job whose last writes all fail, its worker's and `guarded_worker`'s
    (68-92), leaves its row active in the same way; a failing `_record_sync_run` is logged and
    forgotten (`pbi_sync.py:320-322`). At startup `main.py:635-643` swallows whatever a recovery
    raises. Without `recover_interrupted_jobs` (683) an active row belongs to nobody and blocks
    every scan until a stop (`leaked`). Without `recover_interrupted_pbi_syncs` (700) the attempt
    is still launched, while the generation is 0 and the fence down, so the report of a script
    that outlived the restart is imported: `OnlyCurrentImports` leaves such attempts out
    (`late = "missed"`).
16. `operations_agent.py:426` claims and fails a run outside its `try`: a database that
    refuses the write leaves the run queued or running until a restart (`lost`). A
    `finish_step` that raises (158, 169, 569, 587, 594) is followed by `fail_run`: the run has
    ended beside a step that says running for ever, because recovery closes only the steps of
    running runs (`run_store.py:826-833`). `StepsClosed` leaves such steps out (`"refused"`).
    When `recover_and_start` raises at startup (`main.py:756`), queued and running rows belong
    to nobody, hold an active slot and are handed to later requests as the run to reuse, until
    the next restart (`lost`).
    Context and settings read before the creating transaction (`run_store.py:318`) may
    supersede a current run; the next pass repairs it.

**Desktop**

17. A launcher lists the spool once (`flow_desktop_host.py:111`). If it is paused between
    listing and claim, the launcher of a newer request claims the older one, the first finds
    it taken and exits, and the newer request has no launcher although `setup.ps1:768` says
    that each start claims one request; its worker gives up after 60 s. `EachStartServes`
    fails with `MaxRequests = 2`, no faults, no Stop and no children. The request of a crashed worker
    takes the next one's launcher in the same way.
18. A launcher that read a request before another one claimed it can claim it again in the
    folder that open files kept after its removal, and starts the script a second time; its
    first look, a quarter of a second later, ends it. `EndedIsOver` allows for it
    (`dir[r].st = "left"`).
19. An exception of a callback (`flow_worker.py:262`) passes the `except` clause at
    `flow_desktop_session.py:450`: the worker does not end the tree, and the script ends when
    its launcher misses the heartbeat. If the launcher was closed as well, nobody ends it
    (`Unattended`).
20. A worker that gives up and then finds that the script has started after all ends it without
    an observer (`flow_desktop_session.py:395`), that is by `taskkill` on its pid
    (`flow_python.py:463-480`). If the script has exited by itself by then, there is no such
    process, and a child it left goes on after the run has ended: one that holds the output until
    the launcher's next look finds the request overdue, one that does not until it ends by
    itself. `EndedIsOver` leaves the children of such a step out (`~seen`, and a script that
    nobody ended).

Met in code that is not modelled: `email.py` (`reconcile_outlook_dispatches`) compares ISO
timestamps with a "T" to timestamps with a blank, so that hand-offs of the cutoff's date
count as older than a day. The comment at `main.py:657-660` says that the drain barrier stays until the
receipt is reconciled, but the watcher's pass releases it while an attempt is active (1724)
and never raises it again.

## 7. Not modelled

* **Execution file locks** (`flow_execution_lock.py`): one function takes all locks without
  waiting or releases what it took and raises; locks die with their process. Nobody waits,
  so the property is what the operating system promises of one lock.
* **Materialized view refresh** (`flow_view_refresh.py`): a loop over a topological order in
  one process that runs alone under the run's reservation. The stage of a pipeline that
  refreshes views, which races ticks and restarts, is in `Pipeline`.
* **Scanner parsers, governance catalogue, freshness, auditing, user interface, scripts**:
  sequential parsing, read models over one writer, and presentation. They are most of the
  repository's lines and have no protocol to interleave.
* **Browser automation** (most of `flow_worker.py`, `flow_gscm.py` and the other portals):
  input and output against third parties; the models keep its outcomes.
* **Auto-update and drain** (`main.py`, `tools/apply_update.ps1`): one attempt row guarded by
  a unique index and a receipt; what is left is the Windows task scheduler.
* **Email, recurring report alerts, recordings, remote control, folder rename**: calendar
  arithmetic, or one caller at a time under a lock; `PROJECT.json` has the reason for each.

## 8. Plan

What would add most next:

1. `RunQueue`: sequential runs, resume, retries, catalog scans and recorder reservations
   over the claim of `ParallelBundle`, with delayed progress reports.
2. The refresh order of views against a reference definition of topological order.
