--------------------------- MODULE ParallelBundle ---------------------------
(***************************************************************************)
(* Parallel Flow runs: the server's claim, report, finalize, abort, stop   *)
(* and watchdog handlers over the rows of FlowLedger, and the worker       *)
(* processes, operator and clock that drive them.                          *)
(*                                                                         *)
(* A handler is one BEGIN IMMEDIATE transaction and therefore one action.  *)
(* Stopping a run is not: stop_run fences, checks, kills and settles in    *)
(* separate steps, with every other handler free to run in between.        *)
(***************************************************************************)
EXTENDS FlowLedger

CONSTANTS
  Loads,      \* the runs whose job ends with a SQL load (Append among them)
  Carried,    \* the tasks whose export Resume evidence already holds
  StopKeys,   \* the stop procedures of the instance: <<kind, run>>
  MaxPid      \* bound on the restarts of a worker

ASSUME LoadsAssumption == Append \subseteq Loads /\ Loads \subseteq Runs
ASSUME StopKeysAssumption == StopKeys \subseteq ({"user", "abort"} \X Runs)

VARIABLES
  db,     \* the SQLite database, a Database record
  proc,   \* worker processes: pid, alive, the export in progress, finalizer token
  stop,   \* stop procedures: phase and targets
  sql,    \* run -> the coordinator's SQL load, as PostgreSQL sees it
  acked   \* the runs whose uncertain SQL outcome an operator has reconciled

vars == <<db, proc, stop, sql, acked>>

ProcRow == [pid : Nat, up : BOOLEAN, exec : Tasks \cup {NoTask},
            token : Runs \cup {NoRun}]
Target  == [task : Tasks \cup {NoTask}, pid : Nat,
            res : {"none", "pending", "checked", "stopped", "replaced", "error"}]
StopRow == [phase : {"idle", "fencing", "stopping", "plain"}, tg : [Workers -> Target]]
SqlStage == {"none", "loading", "committing", "committed", "reported"}

TypeOK ==
  /\ db \in Database
  /\ proc \in [Workers -> ProcRow]
  /\ stop \in [StopKeys -> StopRow]
  /\ sql \in [Runs -> SqlStage]
  /\ acked \in SUBSET Runs

NoTarget == [task |-> NoTask, pid |-> 0, res |-> "none"]
IdleStop == [phase |-> "idle", tg |-> [w \in Workers |-> NoTarget]]
NoProcess == [pid |-> 0, up |-> FALSE, exec |-> NoTask, token |-> NoRun]

Init ==
  /\ db = EmptyDatabase
  /\ proc = [w \in Workers |-> NoProcess]
  /\ stop = [k \in StopKeys |-> IdleStop]
  /\ sql = [r \in Runs |-> "none"]
  /\ acked = {}

-----------------------------------------------------------------------------
(* Operator: queue a run, acknowledge a reconciled SQL target. *)

FlowActive(d, f) ==
  \E r \in Runs : FlowOf[r] = f /\ d.run[r].status \in {"queued"} \cup RunActive

\* queue_flow_run_service with the reconciliation check of _build_job.
MayQueue(d, r) ==
  /\ d.run[r].status = "none"
  /\ ~FlowActive(d, FlowOf[r])
  /\ ~(d.recon[FlowOf[r]] /\ r \in Append)
QueueRun(r) ==
  /\ MayQueue(db, r)
  /\ db' = [db EXCEPT !.run[r].status = "queued"]
  /\ UNCHANGED <<proc, stop, sql, acked>>

\* The target of r may hold rows that no recorded event vouches for.
MayHaveCommitted(r) ==
  r \in Append /\ sql[r] \in {"committing", "committed", "reported"} /\ ~db.run[r].sqlComplete
AcknowledgeSqlReconciliation(f) ==
  /\ ~FlowActive(db, f)
  /\ db' = [db EXCEPT !.recon[f] = FALSE]
  /\ acked' = acked \cup {r \in Append : FlowOf[r] = f /\ db.run[r].status \in RunTerminal}
  /\ UNCHANGED <<proc, stop, sql>>

-----------------------------------------------------------------------------
(* Worker processes: start, crash, register. *)

StartProcess(w) ==
  /\ ~proc[w].up
  /\ proc[w].pid < MaxPid
  /\ proc' = [proc EXCEPT ![w] = [NoProcess EXCEPT !.pid = proc[w].pid + 1, !.up = TRUE]]
  /\ UNCHANGED <<db, stop, sql, acked>>

Killed(w) == [proc EXCEPT ![w].up = FALSE, ![w].exec = NoTask, ![w].token = NoRun]
Crash(w) ==
  /\ proc[w].up
  /\ proc' = Killed(w)
  /\ UNCHANGED <<db, stop, sql, acked>>

\* The worker's main thread is free to call the server about its next work.
Registered(w) == proc[w].up /\ db.wk[w].pid = proc[w].pid
Free(w) == Registered(w) /\ proc[w].exec = NoTask
\* ... and is not finalizing a bundle.
Idle(w) == Free(w) /\ proc[w].token = NoRun

\* recover_worker: a new process inherits neither the lease nor the bundle.
\* Mutant: a restarted worker's lease is left to run out.
LosesTaskNever(d, w) == FALSE
LosesTask(d, w) ==
  /\ d.wk[w].task # NoTask
  /\ d.task[d.wk[w].task].state \in TaskActive
LosesBundle(d, w) ==
  /\ d.wk[w].run # NoRun
  /\ d.fan[d.wk[w].run].state \notin {"none", "complete"}
RecoverTask(d, w) ==
  IF ~LosesTask(d, w) THEN d ELSE
  Abort([d EXCEPT !.task[d.wk[w].task].state = "failed"], {RunOf[d.wk[w].task]}, "failed", FALSE)
RecoverBundle(d, w) ==
  IF ~LosesBundle(d, w) THEN d ELSE
  [Abort(d, {d.wk[w].run}, "failed", TRUE) EXCEPT !.wk[w].run = NoRun]
RecoverWorker(d, w) ==
  Reap([RecoverBundle(RecoverTask(d, w), w) EXCEPT !.wk[w].task = NoTask, !.wk[w].fence = 0])

\* register_worker, continued: a run that never fanned out fails right away.
InterruptRun(d, before, w) ==
  LET r == before.wk[w].run IN
  IF r = NoRun \/ before.fan[r].state # "none" THEN d ELSE
  [d EXCEPT !.run[r].status = IF @ \in RunTerminal THEN @ ELSE "failed", !.wk[w].run = NoRun]

RegisterWorker(w) ==
  /\ proc[w].up
  /\ db.wk[w].pid # proc[w].pid
  /\ db' = [IF db.wk[w].pid = 0 THEN db ELSE InterruptRun(RecoverWorker(db, w), db, w)
            EXCEPT !.wk[w].pid = proc[w].pid]
  /\ UNCHANGED <<proc, stop, sql, acked>>

-----------------------------------------------------------------------------
(* Claims. *)

\* The task a claim hands out to w is executed by w's process.
Offer(d, w, t) ==
  /\ db' = AssignTask(d, w, t)
  /\ proc' = [proc EXCEPT ![w].exec = t]
Nothing(d) ==
  /\ db' = d
  /\ UNCHANGED proc

RunIdle(d, w) == [d EXCEPT !.wk[w].run = NoRun]
HoldsRun(d, w) == d.wk[w].run # NoRun /\ d.run[d.wk[w].run].status \notin RunTerminal

\* claim_run: the held task, the held run, a helper task, then a new run.
ClaimRunTask(w) ==
  LET d == Reap(db) IN
  /\ Idle(w)
  /\ d.wk[w].task # NoTask \/ ~HoldsRun(d, w)
  /\ \E t \in TaskOffers(d, w, Runs) : Offer(d, w, t)
  /\ UNCHANGED <<stop, sql, acked>>

ClaimRunHeld(w) ==
  LET d == Reap(db) IN
  /\ Idle(w)
  /\ \/ d.wk[w].fence # 0
     \/ d.wk[w].task # NoTask /\ TaskOffers(d, w, Runs) = {}
     \/ d.wk[w].task = NoTask /\ HoldsRun(d, w)
  /\ Nothing(d)
  /\ UNCHANGED <<stop, sql, acked>>

NeedsRun(d, w) ==
  /\ d.wk[w].fence = 0
  /\ d.wk[w].task = NoTask
  /\ ~HoldsRun(d, w)
  /\ TaskOffers(d, w, Runs) = {}

ClaimRunNew(w) ==
  LET d == Reap(db) IN
  /\ Idle(w)
  /\ NeedsRun(d, w)
  /\ \E r \in RunOffers(d, w) : db' = AssignRun(d, w, r)
  /\ UNCHANGED <<proc, stop, sql, acked>>

ClaimRunIdle(w) ==
  LET d == Reap(db) IN
  /\ Idle(w)
  /\ NeedsRun(d, w)
  /\ RunOffers(d, w) = {}
  /\ Nothing(RunIdle(d, w))
  /\ UNCHANGED <<stop, sql, acked>>

\* _owner: r is active and assigned to w.
Owner(d, w, r) == d.run[r].worker = w /\ d.run[r].status \in RunActive

\* The coordinator claims one of its own tasks.
ClaimOwnTask(w, r) ==
  LET d == Reap(db) IN
  /\ Idle(w)
  /\ Owner(db, w, r)
  /\ db.fan[r].state # "none"
  /\ IF TaskOffers(d, w, {r}) = {} THEN Nothing(d)
     ELSE \E t \in TaskOffers(d, w, {r}) : Offer(d, w, t)
  /\ UNCHANGED <<stop, sql, acked>>

-----------------------------------------------------------------------------
(* Downloads. *)

\* initialize: the matrix becomes tasks, carried exports are done already.
Initialize(w, r, done) ==
  /\ Idle(w)
  /\ Owner(db, w, r)
  /\ db.fan[r].state = "none"
  /\ db' = [db EXCEPT
       !.fan[r].state = "downloading", !.fan[r].coordinator = w,
       !.task = [t \in Tasks |-> IF RunOf[t] # r THEN db.task[t] ELSE
          [db.task[t] EXCEPT !.state = IF t \in done THEN "succeeded" ELSE "queued"]],
       !.run[r].status = "running"]
  /\ UNCHANGED <<proc, stop, sql, acked>>

\* GET .../tasks: the coordinator polls its bundle.
Status(w, r) ==
  /\ Registered(w)
  /\ Owner(db, w, r)
  /\ db' = Reap(db)
  /\ UNCHANGED <<proc, stop, sql, acked>>

\* report_task, first branch: an acknowledged cancellation drains the lease
\* and lifts the stop latch of the worker that still holds the assignment.
ReleaseWorker(d, w, t) ==
  IF d.wk[w].task # t THEN d ELSE [d EXCEPT !.wk[w].task = NoTask, !.wk[w].fence = 0]
AckCancelled(d, w, t) ==
  ReleaseWorker([d EXCEPT !.task[t].state = "cancelled"], w, t)

\* _active_lease: results count only under a live claimed lease of a bundle
\* that is still downloading.
\* Mutant: the second delivery of a result counts too.
LeaseAcceptsTwice(d, w, t) ==
  /\ d.task[t].worker = w
  /\ d.task[t].state \in {"claimed", "succeeded"}
  /\ ~d.task[t].expired
  /\ d.fan[RunOf[t]].state = "downloading"
LeaseAccepts(d, w, t) ==
  /\ d.task[t].worker = w
  /\ d.task[t].state = "claimed"
  /\ ~d.task[t].expired
  /\ d.fan[RunOf[t]].state = "downloading"

FinishTask(d, w, t, status) ==
  [d EXCEPT !.task[t].state = status,
            !.wk[w].task = IF @ = t THEN NoTask ELSE @]

\* report_task; "failed" and "cancelled" take the bundle with them.
TaskReported(d, w, t, status) ==
  CASE status = "cancelled" /\ d.task[t].state = "cancelling" -> AckCancelled(d, w, t)
    [] LeaseAccepts(d, w, t) /\ status = "succeeded" -> FinishTask(d, w, t, status)
    [] LeaseAccepts(d, w, t) /\ status # "succeeded" ->
         Abort(FinishTask(d, w, t, status), {RunOf[t]}, "failed", FALSE)
    [] OTHER -> d

\* A terminal report ends the export in the process; it may also be a
\* retried or delayed copy of a report the worker sent earlier.
ReportTask(w, t, status) ==
  /\ db.task[t].worker = w
  /\ db' = TaskReported(db, w, t, status)
  /\ proc' = [proc EXCEPT ![w].exec = IF @ = t THEN NoTask ELSE @]
  /\ UNCHANGED <<stop, sql, acked>>

\* execute_task gives up without the server hearing of it.
Unwind(w) ==
  /\ proc[w].exec # NoTask
  /\ proc' = [proc EXCEPT ![w].exec = NoTask]
  /\ UNCHANGED <<db, stop, sql, acked>>

\* claim_finalizer, idempotent for the coordinator.
\* Mutant: no active export is taken for every export done.
FinalizableDrained(d, w, r) ==
  /\ d.fan[r].coordinator = w
  /\ d.fan[r].state \in {"downloading", "finalizing"}
  /\ Drained(d, r)
Finalizable(d, w, r) ==
  /\ d.fan[r].coordinator = w
  /\ d.fan[r].state \in {"downloading", "finalizing"}
  /\ AllSucceeded(d, r)
ClaimFinalizer(w, r) ==
  LET d == Reap(db) IN
  /\ Free(w)
  /\ Owner(db, w, r)
  /\ Finalizable(d, w, r)
  /\ db' = [d EXCEPT !.fan[r].state = "finalizing"]
  /\ proc' = [proc EXCEPT ![w].token = r]
  /\ UNCHANGED <<stop, sql, acked>>

-----------------------------------------------------------------------------
(* The coordinator's progress reports: update_run behind guard_progress.   *)
(* A report on a run that has ended is answered with ignored, and the      *)
(* worker's progress() does not look at the answer: it goes on.  A report  *)
(* that guard_progress refuses raises in the worker.                       *)

MayReport(d, w, r) ==
  /\ Registered(w)
  /\ Owner(d, w, r)
HoldsToken(d, w, r) ==
  /\ d.fan[r].coordinator = w
  /\ d.fan[r].state = "finalizing"
  /\ proc[w].token = r
Ignored(d, w, r) ==
  /\ d.run[r].worker = w
  /\ d.run[r].status \in RunTerminal

\* A report of the finalizer that is alive: accepted with outcome d, or ignored.
FinalizerReports(w, r, d) ==
  /\ proc[w].up /\ proc[w].token = r
  /\ IF Ignored(db, w, r) THEN db' = db
     ELSE MayReport(db, w, r) /\ HoldsToken(db, w, r) /\ db' = d

\* Mutant: the ledger of an ended run stays open.
EndRunOnly(d, w, r, status) ==
  [d EXCEPT !.run[r].status = status, !.wk[w].run = NoRun]
EndRun(d, w, r, status) ==
  [d EXCEPT !.run[r].status = status, !.wk[w].run = NoRun,
            !.fan[r].state = IF @ = "none" THEN @ ELSE "complete"]

ReportRunning(w, r) ==
  /\ MayReport(db, w, r)
  /\ db.fan[r].state \in {"none", "downloading"} \/ HoldsToken(db, w, r)
  /\ db' = [db EXCEPT !.run[r].status = "running"]
  /\ UNCHANGED <<proc, stop, sql, acked>>

\* Stage sql_insertion is reported before the first SQL statement.
ReportSqlInsertion(w, r) ==
  /\ r \in Loads /\ sql[r] = "none"
  /\ FinalizerReports(w, r, [db EXCEPT !.run[r].status = "running", !.fan[r].sqlStarted = TRUE])
  /\ sql' = [sql EXCEPT ![r] = "loading"]
  /\ UNCHANGED <<proc, stop, acked>>

\* Stage sql_commit: the last report before COMMIT is sent.
ReportSqlCommit(w, r) ==
  /\ sql[r] = "loading"
  /\ FinalizerReports(w, r, db)
  /\ sql' = [sql EXCEPT ![r] = "committing"]
  /\ UNCHANGED <<proc, stop, acked>>

\* PostgreSQL commits; the worker may be dead by then.
SqlCommits(r) ==
  /\ sql[r] = "committing"
  /\ sql' = [sql EXCEPT ![r] = "committed"]
  /\ UNCHANGED <<db, proc, stop, acked>>

ReportSqlComplete(w, r) ==
  /\ sql[r] = "committed"
  /\ FinalizerReports(w, r, [db EXCEPT !.run[r].sqlComplete = TRUE])
  /\ sql' = [sql EXCEPT ![r] = "reported"]
  /\ UNCHANGED <<proc, stop, acked>>

ReportSucceeded(w, r) ==
  /\ r \in Loads => sql[r] = "reported"
  /\ FinalizerReports(w, r, EndRun(db, w, r, "succeeded"))
  /\ proc' = [proc EXCEPT ![w].token = NoRun]
  /\ UNCHANGED <<stop, sql, acked>>

\* A refused report, or any failure of a run that has ended, unwinds the
\* finalizer.
FinalizerUnwinds(w) ==
  LET r == proc[w].token IN
  /\ r # NoRun
  /\ ~(Owner(db, w, r) /\ db.fan[r].state = "finalizing")
  /\ proc' = [proc EXCEPT ![w].token = NoRun]
  /\ UNCHANGED <<db, stop, sql, acked>>

\* guard_progress for status failed: drained unless it finalizes, and an
\* unconfirmed append blocks the next run.
GuardFailed(d, w, r) ==
  \/ d.fan[r].state = "none"
  \/ d.fan[r].coordinator = w /\ d.fan[r].state \in {"downloading", "aborting"} /\ Drained(d, r)
  \/ HoldsToken(d, w, r)
\* Mutant: a finalizer that fails in SQL leaves the flow open.
RaiseUncertainNever(d, r) == d
RaiseUncertain(d, r) ==
  IF d.fan[r].state = "finalizing" /\ SqlUncertain(d, r)
  THEN [d EXCEPT !.recon[FlowOf[r]] = TRUE] ELSE d
ReportFailed(w, r) ==
  /\ Free(w)
  /\ Owner(db, w, r)
  /\ GuardFailed(db, w, r)
  /\ db' = EndRun(RaiseUncertain(db, r), w, r, "failed")
  /\ proc' = [proc EXCEPT ![w].token = IF @ = r THEN NoRun ELSE @]
  /\ UNCHANGED <<stop, sql, acked>>

-----------------------------------------------------------------------------
(* Stopping: request_stop, the coordinator's abort, stop_download_workers. *)

\* POST .../tasks/abort by the coordinator, first transaction; its own
\* bundle step has raised, so it will not finalize.
CoordinatorAbort(w, r) ==
  /\ Free(w)
  /\ Owner(db, w, r)
  /\ db.fan[r].state # "none"
  /\ <<"abort", r>> \in StopKeys /\ stop[<<"abort", r>>].phase = "idle"
  /\ sql[r] = "none"
  /\ db' = Abort(db, {r}, "failed", FALSE)
  /\ proc' = [proc EXCEPT ![w].token = NoRun]
  /\ stop' = [stop EXCEPT ![<<"abort", r>>].phase = "fencing"]
  /\ UNCHANGED <<sql, acked>>

\* stop_run of a run that fanned out: request_stop, first transaction.
StopBundle(r) ==
  /\ <<"user", r>> \in StopKeys /\ stop[<<"user", r>>].phase = "idle"
  /\ db.run[r].status \in RunActive
  /\ db.fan[r].state \notin {"none", "complete"}
  /\ db' = Abort(db, {r}, "cancelled", FALSE)
  /\ stop' = [stop EXCEPT ![<<"user", r>>].phase = "fencing"]
  /\ UNCHANGED <<proc, sql, acked>>

\* stop_run of a run without tasks: cancelled at once, its process closed.
StopPlain(r) ==
  LET w == db.run[r].worker
      assigned == db.run[r].status \in RunActive /\ w # NoWorker IN
  /\ <<"user", r>> \in StopKeys /\ stop[<<"user", r>>].phase = "idle"
  /\ db.run[r].status \in {"queued"} \cup RunActive
  /\ db.fan[r].state = "none"
  /\ db' = [db EXCEPT
       !.run[r].status = "cancelled",
       !.wk = [v \in Workers |-> IF assigned /\ v = w /\ db.wk[v].run = r
                                 THEN [db.wk[v] EXCEPT !.run = NoRun] ELSE db.wk[v]]]
  /\ stop' = IF ~assigned THEN stop ELSE
       [stop EXCEPT ![<<"user", r>>].phase = "plain",
          ![<<"user", r>>].tg[w] = [task |-> NoTask, pid |-> IF db.wk[w].run = r THEN db.wk[w].pid ELSE 0,
                                    res |-> "checked"]]
  /\ UNCHANGED <<proc, sql, acked>>

\* stop_download_workers, first transaction: latch every assigned worker.
StopTargets(d, k, r) ==
  LET holders == {w \in Workers : /\ d.wk[w].task # NoTask
                                  /\ RunOf[d.wk[w].task] = r
                                  /\ d.task[d.wk[w].task].state = "cancelling"}
  IN IF k = "abort" THEN holders \ {d.fan[r].coordinator}
     ELSE holders \cup {w \in Workers : d.wk[w].run = r}
StopFence(k, r) ==
  LET S == StopTargets(db, k, r) IN
  /\ stop[<<k, r>>].phase = "fencing"
  /\ db' = [db EXCEPT !.wk = [w \in Workers |->
              IF w \in S THEN [db.wk[w] EXCEPT !.fence = db.wk[w].pid] ELSE db.wk[w]]]
  /\ stop' = [stop EXCEPT ![<<k, r>>] = [phase |-> "stopping", tg |-> [w \in Workers |->
       IF w \in S THEN [task |-> db.wk[w].task, pid |-> db.wk[w].pid, res |-> "pending"]
       ELSE NoTarget]]]
  /\ UNCHANGED <<proc, sql, acked>>

\* stop(): re-read the latch without holding the write lock ...
SameProcess(d, w, target) == d.wk[w].fence = target.pid /\ d.wk[w].pid = target.pid
StopCheck(k, r, w) ==
  LET target == stop[<<k, r>>].tg[w] IN
  /\ target.res = "pending"
  /\ stop' = [stop EXCEPT ![<<k, r>>].tg[w].res =
                IF SameProcess(db, w, target) THEN "checked" ELSE "replaced"]
  /\ UNCHANGED <<db, proc, sql, acked>>

\* ... then taskkill the process id.
StopKill(k, r, w) ==
  /\ stop[<<k, r>>].tg[w].res = "checked"
  /\ proc[w].up /\ proc[w].pid = stop[<<k, r>>].tg[w].pid
  /\ proc' = Killed(w)
  /\ stop' = [stop EXCEPT ![<<k, r>>].tg[w].res = "stopped"]
  /\ UNCHANGED <<db, sql, acked>>
StopFails(k, r, w) ==
  /\ stop[<<k, r>>].tg[w].res = "checked"
  /\ stop' = [stop EXCEPT ![<<k, r>>].tg[w].res = "error"]
  /\ UNCHANGED <<db, proc, sql, acked>>

\* Last transaction: what Windows confirmed is drained and unlatched.
\* Mutant: a stop that Windows refused is taken for confirmed.
ConfirmedAnyway(target) == target.res \in {"stopped", "replaced", "error"}
Confirmed(target) == target.res \in {"stopped", "replaced"}
Settle(d, k, r) ==
  LET tg == stop[<<k, r>>].tg
      Done == {w \in Workers : Confirmed(tg[w])} IN
  [d EXCEPT
    !.task = [t \in Tasks |->
       IF d.task[t].state = "cancelling" /\ \E w \in Done : tg[w].task = t /\ d.task[t].worker = w
       THEN [d.task[t] EXCEPT !.state = "cancelled"] ELSE d.task[t]],
    !.wk = [w \in Workers |->
       IF w \in Done /\ d.wk[w].fence = tg[w].pid
       THEN [d.wk[w] EXCEPT !.task = NoTask, !.fence = 0] ELSE d.wk[w]],
    !.fan[r].stopped = @ \/ (k = "user" /\ d.fan[r].coordinator \in Done)]

StopsDone(k, r) == \A w \in Workers : stop[<<k, r>>].tg[w].res \notin {"pending", "checked"}
StopFinish(k, r) ==
  /\ stop[<<k, r>>].phase \in {"stopping", "plain"}
  /\ StopsDone(k, r)
  /\ db' = IF stop[<<k, r>>].phase = "plain" THEN db ELSE Reap(Settle(db, k, r))
  /\ stop' = [stop EXCEPT ![<<k, r>>] = IdleStop]
  /\ UNCHANGED <<proc, sql, acked>>

-----------------------------------------------------------------------------
(* The clock and the watchdog. *)

\* 90 seconds without a renewal.
LeaseExpires(t) ==
  /\ db.task[t].state \in TaskActive
  /\ ~db.task[t].expired
  /\ db' = [db EXCEPT !.task[t].expired = TRUE]
  /\ UNCHANGED <<proc, stop, sql, acked>>

\* The deadline is set no earlier than the leases it outlives.
DeadlinePasses(r) ==
  /\ db.fan[r].state = "aborting"
  /\ db.fan[r].deadline = "set"
  /\ \A t \in TasksOf(r) : db.task[t].state \in TaskActive => db.task[t].expired
  /\ db' = [db EXCEPT !.fan[r].deadline = "passed"]
  /\ UNCHANGED <<proc, stop, sql, acked>>

\* fail_stale_runs with no stale run.
Watchdog ==
  /\ db' = Reap(db)
  /\ UNCHANGED <<proc, stop, sql, acked>>

\* Ten minutes of silence outlast every lease the run's worker holds.
Silent(d, r) ==
  /\ d.run[r].status \in RunActive
  /\ \A t \in Tasks : d.task[t].worker = d.run[r].worker /\ d.task[t].state \in TaskActive
                         => d.task[t].expired
FailStale(d, r) ==
  IF d.fan[r].state # "none"
  THEN FinishAborted(Abort(d, {r}, "failed", TRUE), {r})
  ELSE [d EXCEPT !.run[r].status = "failed",
                 !.wk[d.run[r].worker].run = NoRun]
FailStaleRun(r) ==
  LET d == Reap(db) IN
  /\ Silent(db, r)
  /\ d.run[r].status \in RunActive
  /\ db' = FailStale(d, r)
  /\ UNCHANGED <<proc, stop, sql, acked>>

-----------------------------------------------------------------------------
WorkerStep(w) ==
  \/ StartProcess(w) \/ Crash(w) \/ RegisterWorker(w) \/ Unwind(w) \/ FinalizerUnwinds(w)
  \/ ClaimRunTask(w) \/ ClaimRunHeld(w) \/ ClaimRunNew(w) \/ ClaimRunIdle(w)
  \/ \E t \in Tasks, status \in TaskTerminal : ReportTask(w, t, status)
CoordinatorStep(w, r) ==
  \/ \E done \in SUBSET (TasksOf(r) \cap Carried) : Initialize(w, r, done)
  \/ ClaimOwnTask(w, r) \/ Status(w, r) \/ ClaimFinalizer(w, r)
  \/ ReportRunning(w, r) \/ ReportSqlInsertion(w, r) \/ ReportSqlCommit(w, r)
  \/ ReportSqlComplete(w, r) \/ ReportSucceeded(w, r) \/ ReportFailed(w, r)
  \/ CoordinatorAbort(w, r)
StopStep(k, r) ==
  \/ StopFence(k, r) \/ StopFinish(k, r)
  \/ \E w \in Workers : StopCheck(k, r, w) \/ StopKill(k, r, w) \/ StopFails(k, r, w)
RunStep(r) ==
  \/ QueueRun(r) \/ StopBundle(r) \/ StopPlain(r) \/ SqlCommits(r)
  \/ DeadlinePasses(r) \/ FailStaleRun(r)

Next ==
  \/ \E w \in Workers : WorkerStep(w)
  \/ \E w \in Workers, r \in Runs : CoordinatorStep(w, r)
  \/ \E key \in StopKeys : StopStep(key[1], key[2])
  \/ \E r \in Runs : RunStep(r)
  \/ \E t \in Tasks : LeaseExpires(t)
  \/ \E f \in Flows : AcknowledgeSqlReconciliation(f)
  \/ Watchdog

Spec == Init /\ [][Next]_vars
-----------------------------------------------------------------------------
(* Fairness.  The watchdog runs every 10 seconds (main.py:564-572) and time  *)
(* passes: a lease that nobody renews runs out, so does an abort deadline,   *)
(* and the worker of a process that is down falls silent.  A process that    *)
(* is up registers, at its start and before every claim.                     *)

Unrenewed(t) ==
  db.task[t].state = "cancelling" \/ proc[db.task[t].worker].exec # t
LeaseRunsOut(t) == db.task[t].worker # NoWorker /\ Unrenewed(t) /\ LeaseExpires(t)
LostCoordinatorFails(r) ==
  db.run[r].worker # NoWorker /\ ~proc[db.run[r].worker].up /\ FailStaleRun(r)

Fairness ==
  /\ WF_vars(Watchdog)
  /\ \A t \in Tasks : WF_vars(LeaseRunsOut(t))
  /\ \A r \in Runs : WF_vars(DeadlinePasses(r)) /\ WF_vars(LostCoordinatorFails(r))
  /\ \A w \in Workers : WF_vars(RegisterWorker(w))
FairSpec == Spec /\ Fairness

-----------------------------------------------------------------------------
(* Properties. *)

\* A download that is leased, or still has to acknowledge its cancellation,
\* keeps its parent run and the parent's slot: finish_aborted, update_run and
\* claim_finalizer all wait for the drain, and a worker that is replaced or
\* goes silent cannot end the run under a helper that still downloads.
ReservationHeld ==
  \A t \in Tasks : db.task[t].state \in TaskActive =>
    /\ db.run[RunOf[t]].status \in RunActive
    /\ db.fan[RunOf[t]].state \in {"downloading", "aborting"}

\* Publication and SQL happen over complete bundles only: a bundle that is
\* finalized, a run that succeeded and a load that began all have every export
\* of the matrix, and no later expiry, abort or late report takes one away.
WholeBundle ==
  \A r \in Runs :
    db.fan[r].state = "finalizing" \/ db.run[r].status = "succeeded" \/ sql[r] # "none"
      => AllSucceeded(db, r)

\* The ledger and the run row end together, whichever of update_run, reap,
\* stop_run, register_worker and fail_stale_runs gets there first.
BundleEndsWithRun ==
  \A r \in Runs : db.fan[r].state # "none" =>
    (db.fan[r].state = "complete" <=> db.run[r].status \in RunTerminal)

\* Over every interleaving of claims, helpers, coordinators that download and
\* tasks that still drain, the workers that are busy exceed no limit of
\* flow_capacity, of a portal or of a bundle.
Busy(R) ==
  {w \in Workers : \/ \E r \in R : db.run[r].worker = w /\ db.run[r].status \in RunActive
                   \/ \E t \in Tasks : /\ RunOf[t] \in R
                                       /\ db.task[t].worker = w
                                       /\ db.task[t].state \in TaskActive}
SlotsRespected ==
  /\ Cardinality(Busy(Runs)) <= TotalCapacity
  /\ \A m \in DOMAIN ModeCapacity : Cardinality(Busy(RunsOfMode(m))) <= ModeCapacity[m]
  /\ \A s \in DOMAIN PortalCapacity :
       Cardinality(Busy({r \in Runs : Site[r] = s})) <= PortalCapacity[s]
  /\ \A r \in Runs :
       Cardinality({t \in TasksOf(r) : db.task[t].state \in TaskActive}) <= Parallelism[r]

\* Restart recovery finds what a worker held through the worker row only, so
\* an active run is the current run of its worker until its coordinator is
\* known to be gone, and a claimed task is the current task of its worker.
\* update_run and fail_stale_runs free the row by the worker's id: the late end
\* of a run whose coordinator was stopped may take the row from the run the
\* same worker has claimed since.
CoordinatorGone(r) == db.fan[r].state = "aborting" /\ db.fan[r].stopped
Displaced(r) ==
  \E q \in Runs \ {r} : db.run[q].worker = db.run[r].worker /\ db.fan[q].stopped
AssignmentsAgree ==
  /\ \A r \in Runs : db.run[r].status \in RunActive /\ ~CoordinatorGone(r) =>
       db.wk[db.run[r].worker].run = r \/ Displaced(r)
  /\ \A t \in Tasks : db.task[t].state = "claimed" => db.wk[db.task[t].worker].task = t

\* Only append uncertainty fences a flow, and a recorded commit rules it out.
OnlyAppendBlocks ==
  \A f \in Flows : db.recon[f] =>
    \E r \in Append : FlowOf[r] = f /\ db.fan[r].sqlStarted /\ ~db.run[r].sqlComplete

\* No append is queued, claimed or running over an earlier append of the same
\* flow that began its load, ended without a recorded commit and was not
\* reconciled by an operator: every path that ends a run raises the fence.
UncertainAppend(r) ==
  /\ r \in Append
  /\ db.run[r].status \in {"failed", "cancelled"}
  /\ db.fan[r].sqlStarted /\ ~db.run[r].sqlComplete
  /\ r \notin acked
NoBlindAppend ==
  \A r \in Append : UncertainAppend(r) =>
    /\ db.recon[FlowOf[r]]
    /\ \A q \in Append : FlowOf[q] = FlowOf[r] => db.run[q].status \notin {"queued"} \cup RunActive

\* A Flow is not left open after an append that may be in the target, whoever
\* ended the run (flow_workers.md, "An interrupted finalizer after SQL begins
\* can have an unknown commit outcome.  The Flow then blocks Run").
NoSilentCommit ==
  \A r \in Append :
    MayHaveCommitted(r) /\ db.run[r].status \in {"failed", "cancelled"} /\ r \notin acked
      => db.recon[FlowOf[r]]

\* While a process downloads under a lease that has not run out, the run it
\* downloads for keeps its reservation (flow_workers.md, "Until Windows
\* confirms the stop, a task acknowledges cancellation or its lease expires,
\* the parent retains its reservation").
ReservationCoversDownload ==
  \A w \in Workers : proc[w].exec # NoTask /\ ~db.task[proc[w].exec].expired =>
    db.run[RunOf[proc[w].exec]].status \in RunActive

\* No step rewrites what has ended: a terminal run or task keeps its outcome
\* and a complete bundle stays complete, although finish_aborted and
\* recover_worker update by id only.
EndedStaysEnded ==
  [][/\ \A r \in Runs : db.run[r].status \in RunTerminal => db'.run[r].status = db.run[r].status
     /\ \A t \in Tasks : db.task[t].state \in TaskTerminal => db'.task[t].state = db.task[t].state
     /\ \A r \in Runs : db.fan[r].state = "complete" => db'.fan[r].state = "complete"]_vars

\* A stop of a fanned-out run kills a process only while that process works
\* for the run (flow_parallel.py:437, "The latch prevents this worker from
\* claiming another operation while Windows processes the stop").
WorksElsewhere(w, r) ==
  \/ proc[w].exec # NoTask /\ RunOf[proc[w].exec] # r
  \/ HoldsRun(db, w) /\ db.wk[w].run # r
LatchHoldsDuringStop ==
  [][\A key \in StopKeys, w \in Workers :
       /\ stop[key].phase = "stopping"
       /\ stop[key].tg[w].res = "checked"
       /\ stop'[key].tg[w].res = "stopped"
       => ~WorksElsewhere(w, key[2])]_vars

\* A bundle that is aborted, or whose coordinator's process is gone, ends
\* together with its run, although neither helpers nor coordinator acknowledge
\* anything and whatever the helpers still report: leases and the abort
\* deadline stand in for them, and no claim or late report postpones them.
LostCoordinator(r) ==
  /\ db.run[r].status \in RunActive
  /\ ~proc[db.run[r].worker].up
Released(r) == db.run[r].status \in RunTerminal /\ db.fan[r].state \in {"none", "complete"}
LostBundlesEnd ==
  \A r \in Runs : db.fan[r].state = "aborting" \/ LostCoordinator(r) ~> Released(r)

\* A run and its exports as its Flow and its stopper see them: an aborting run
\* is being stopped, a claimed or draining task is leased.
RunState(d) ==
  [r \in Runs |->
     CASE d.run[r].status = "none" -> "idle"
       [] d.run[r].status = "succeeded" -> "succeeded"
       [] d.run[r].status \in {"failed", "cancelled"} -> "lost"
       [] d.run[r].status \in {"queued"} \cup RunActive ->
            IF d.fan[r].state = "aborting" THEN "stopping" ELSE "open"]
ExportState(d) ==
  [t \in Tasks |->
     CASE d.task[t].state \in {"none", "queued"} -> "waiting"
       [] d.task[t].state \in TaskActive -> "leased"
       [] d.task[t].state = "succeeded" -> "done"
       [] d.task[t].state \in {"failed", "cancelled"} -> "over"]

\* A bundle keeps the promise its documentation makes (flow_workers.md:140-142,
\* "the parent retains its reservation"): whatever handlers compose and restarts,
\* retried reports, stops and deadlines interleave, each transaction gives at most
\* one run a lease, a result or its success, every other run only loses, no
\* export is leased twice, and a run ends once, after its last lease.
Reservation == INSTANCE RunReservation WITH
  Exports <- Tasks, run <- RunState(db), export <- ExportState(db)
ReservationProtocol == Reservation!Spec
=============================================================================
