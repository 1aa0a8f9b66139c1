----------------------------- MODULE FlowLedger -----------------------------
(***************************************************************************)
(* The durable rows behind a parallel Flow run and the helpers of          *)
(* app/flow_parallel.py that rewrite them.  Every helper runs inside the   *)
(* caller's BEGIN IMMEDIATE transaction, so it is a function from one      *)
(* database value d to the next; the actions of ParallelBundle compose     *)
(* these functions exactly as the handlers call the helpers.               *)
(*                                                                         *)
(*   d.run[r]   flow_runs: status and assigned worker, and whether the     *)
(*              event sql_insertion_complete was recorded for the run      *)
(*   d.fan[r]   flow_run_fanout ("none" before initialize inserts it)      *)
(*   d.task[t]  flow_download_tasks; a task is claimed at most once, so    *)
(*              its lease token is determined by the task and its worker   *)
(*   d.wk[w]    flow_workers (process_id of the last registration, the     *)
(*              current run and task, and the stop latch)                  *)
(*   d.recon[f] flows.sql_reconciliation_required                          *)
(***************************************************************************)
EXTENDS Naturals, FiniteSets

CONSTANTS
  Runs, Tasks, Workers, Flows, \* ids of the rows of each table
  NoRun, NoTask, NoWorker,     \* SQL NULL in a column that references them
  RunOf,          \* task -> the run whose matrix holds it
  FlowOf,         \* run -> its flow
  Mode,           \* run or worker -> browser mode
  Site,           \* run -> portal
  Append,         \* the runs whose frozen job appends to a SQL target
  ModeCapacity,   \* mode -> slots
  TotalCapacity,  \* slots over every mode
  PortalCapacity, \* portal -> slots
  Parallelism     \* run -> slots of one bundle

ASSUME NullAssumption ==
  /\ NoRun \notin Runs
  /\ NoTask \notin Tasks
  /\ NoWorker \notin Workers

ASSUME ShapeAssumption ==
  /\ RunOf \in [Tasks -> Runs]
  /\ FlowOf \in [Runs -> Flows]
  /\ Append \subseteq Runs

\* The tables hold finitely many rows, and every limit is a number of slots.
ASSUME CapacityAssumption ==
  /\ IsFiniteSet(Runs) /\ IsFiniteSet(Tasks) /\ IsFiniteSet(Workers)
  /\ TotalCapacity \in Nat
  /\ \A m \in DOMAIN ModeCapacity : ModeCapacity[m] \in Nat
  /\ \A s \in DOMAIN PortalCapacity : PortalCapacity[s] \in Nat
  /\ \A r \in Runs : Parallelism[r] \in Nat

TaskActive   == {"claimed", "cancelling"}
TaskTerminal == {"succeeded", "failed", "cancelled"}
RunActive    == {"claimed", "running"}
RunTerminal  == {"succeeded", "failed", "cancelled"}

RunRow  == [status : {"none", "queued"} \cup RunActive \cup RunTerminal,
            worker : Workers \cup {NoWorker},
            sqlComplete : BOOLEAN]
FanRow  == [state : {"none", "downloading", "finalizing", "aborting", "complete"},
            coordinator : Workers \cup {NoWorker},
            stopped : BOOLEAN,                        \* coordinator_stopped
            terminal : {"none", "failed", "cancelled"}, \* terminal_status
            deadline : {"unset", "set", "passed"},    \* abort_deadline
            sqlStarted : BOOLEAN]
TaskRow == [state : {"none", "queued"} \cup TaskActive \cup TaskTerminal,
            worker : Workers \cup {NoWorker},
            expired : BOOLEAN]                        \* lease_expires_at < now
WorkerRow == [pid : Nat, run : Runs \cup {NoRun}, task : Tasks \cup {NoTask},
              fence : Nat]                            \* stop_requested_pid, 0 is NULL

Database == [run : [Runs -> RunRow], fan : [Runs -> FanRow], task : [Tasks -> TaskRow],
             wk : [Workers -> WorkerRow], recon : [Flows -> BOOLEAN]]

EmptyDatabase ==
  [run  |-> [r \in Runs |-> [status |-> "none", worker |-> NoWorker, sqlComplete |-> FALSE]],
   fan  |-> [r \in Runs |-> [state |-> "none", coordinator |-> NoWorker, stopped |-> FALSE,
                             terminal |-> "none", deadline |-> "unset", sqlStarted |-> FALSE]],
   task |-> [t \in Tasks |-> [state |-> "none", worker |-> NoWorker, expired |-> FALSE]],
   wk   |-> [w \in Workers |-> [pid |-> 0, run |-> NoRun, task |-> NoTask, fence |-> 0]],
   recon |-> [f \in Flows |-> FALSE]]

TasksOf(r) == {t \in Tasks : RunOf[t] = r}

(***************************************************************************)
(* Queries.                                                                *)
(***************************************************************************)
\* snapshot(): no claimed or cancelling task is left.
Drained(d, r) == \A t \in TasksOf(r) : d.task[t].state \notin TaskActive
\* snapshot(): every expected export succeeded.
AllSucceeded(d, r) == \A t \in TasksOf(r) : d.task[t].state = "succeeded"

\* A lost commit acknowledgement matters in append mode only.
ReconciliationRequired(d, r) == r \in Append /\ ~d.run[r].sqlComplete

RunningRuns(d) == {r \in Runs : d.run[r].status \in RunActive}
Holders(d, R) == {d.run[r].worker : r \in R \cap RunningRuns(d)}
\* Mutant: a download that still has to be cancelled occupies no slot.
HelpersClaimed(d, R) == {d.task[t].worker : t \in {u \in Tasks : RunOf[u] \in R /\ d.task[u].state = "claimed"}}
                           \ Holders(d, R)
Helpers(d, R) == {d.task[t].worker : t \in {u \in Tasks : RunOf[u] \in R /\ d.task[u].state \in TaskActive}}
                    \ Holders(d, R)
\* flow_capacity.assignments: one slot per active run, one more per helper.
Assignments(d, R) == Cardinality(R \cap RunningRuns(d)) + Cardinality(Helpers(d, R))

RunsOfMode(m) == {r \in Runs : Mode[r] = m}
CanClaim(d, w) ==
  /\ Assignments(d, RunsOfMode(Mode[w])) < ModeCapacity[Mode[w]]
  /\ Assignments(d, Runs) < TotalCapacity

\* portal_available: the workers that occupy the portal, runs and tasks alike.
PortalUsers(d, s) ==
  LET R == {r \in Runs : Site[r] = s} IN Holders(d, R) \cup Helpers(d, R)
PortalAvailable(d, r, existing) ==
  \/ existing \in PortalUsers(d, Site[r])
  \/ Cardinality(PortalUsers(d, Site[r])) < PortalCapacity[Site[r]]

(***************************************************************************)
(* Rewrites.                                                               *)
(***************************************************************************)
\* abort() applies to a bundle that exists and is not complete ...
Abortable(d, r) == d.fan[r].state \notin {"none", "complete"}
\* ... cancels its queued tasks, and leaves the claimed ones to be drained.
\* Mutant: the bundle's new state is written to its tasks.
FencedStateOfBundle(s) == IF s \in {"queued", "claimed"} THEN "aborting" ELSE s
FencedState(s) ==
  CASE s = "queued"  -> "cancelled"
    [] s = "claimed" -> "cancelling"
    [] OTHER         -> s
\* An append that began and was not confirmed blocks the flow's next run.
\* Mutant: a recorded commit does not lift the uncertainty.
SqlUncertainAlways(d, r) == d.fan[r].sqlStarted
SqlUncertain(d, r) == d.fan[r].sqlStarted /\ ReconciliationRequired(d, r)

\* abort(), for each run of R.
Abort(d, R, terminal, stopped) ==
  LET A == {r \in R : Abortable(d, r)} IN
  [d EXCEPT
    !.fan = [r \in Runs |-> IF r \notin A THEN d.fan[r] ELSE
       [d.fan[r] EXCEPT !.state = "aborting",
                        !.stopped = @ \/ stopped,
                        !.terminal = IF @ = "none" THEN terminal ELSE @,
                        !.deadline = IF @ = "unset" THEN "set" ELSE @]],
    !.task = [t \in Tasks |-> IF RunOf[t] \notin A THEN d.task[t] ELSE
       [d.task[t] EXCEPT !.state = FencedState(@)]],
    !.recon = [f \in Flows |->
       d.recon[f] \/ \E r \in A : FlowOf[r] = f /\ SqlUncertain(d, r)]]

\* finish_aborted(): only a drained aborting bundle may be closed ...
\* Mutant: an aborting bundle is closed over downloads that still run.
FinishableUndrained(d, r) == d.fan[r].state = "aborting"
Finishable(d, r) == d.fan[r].state = "aborting" /\ Drained(d, r)
\* ... and closing it ends the run and frees the worker that coordinated it.
FinishAborted(d, R) ==
  LET F == {r \in R : Finishable(d, r)} IN
  [d EXCEPT
    !.run = [r \in Runs |-> IF r \notin F THEN d.run[r] ELSE
       [d.run[r] EXCEPT !.status = IF d.fan[r].terminal = "none" THEN "failed"
                                   ELSE d.fan[r].terminal]],
    !.fan = [r \in Runs |-> IF r \notin F THEN d.fan[r] ELSE
       [d.fan[r] EXCEPT !.state = "complete"]],
    !.wk = [w \in Workers |-> IF d.wk[w].run \notin F THEN d.wk[w] ELSE
       [d.wk[w] EXCEPT !.run = NoRun, !.task = NoTask]]]

\* reap(), first loop: an expired lease fails, or finishes cancelling; its
\* worker loses the assignment, and its whole bundle is aborted.
ExpiredTasks(d) == {t \in Tasks : d.task[t].state \in TaskActive /\ d.task[t].expired}
CloseExpired(d) ==
  LET E == ExpiredTasks(d) IN
  [d EXCEPT
    !.task = [t \in Tasks |-> IF t \notin E THEN d.task[t] ELSE
       [d.task[t] EXCEPT !.state = IF @ = "claimed" THEN "failed" ELSE "cancelled"]],
    !.wk = [w \in Workers |->
       IF d.wk[w].task \notin E \/ d.task[d.wk[w].task].worker # w THEN d.wk[w] ELSE
       [d.wk[w] EXCEPT !.task = NoTask]]]

\* reap(): a passed abort deadline stands in for a confirmed stop.
\* Mutant: a coordinator that never confirms its stop is waited for forever.
PassDeadlinesNever(d) == d
PassDeadlines(d) ==
  [d EXCEPT !.fan = [r \in Runs |->
     IF d.fan[r].state = "aborting" /\ d.fan[r].deadline = "passed"
     THEN [d.fan[r] EXCEPT !.stopped = TRUE] ELSE d.fan[r]]]

Reap(d) ==
  LET e == PassDeadlines(Abort(CloseExpired(d), {RunOf[t] : t \in ExpiredTasks(d)}, "failed", FALSE))
  IN  FinishAborted(e, {r \in Runs : e.fan[r].stopped})

(***************************************************************************)
(* Claims.                                                                 *)
(***************************************************************************)
\* claim_task(), the candidate loop: worker w may take t.
OwnsRun(d, w, r) == d.run[r].worker = w /\ d.wk[w].run = r
HasSlot(d, w) == d.wk[w].run = NoRun /\ CanClaim(d, w)
BundleBelowLimit(d, r) ==
  Cardinality({t \in TasksOf(r) : d.task[t].state \in TaskActive}) < Parallelism[r]
Claimable(d, w, t) ==
  LET r == RunOf[t] IN
  /\ d.task[t].state = "queued"
  /\ d.fan[r].state = "downloading"
  /\ d.run[r].status \in RunActive
  /\ Mode[r] = Mode[w]
  /\ OwnsRun(d, w, r) \/ HasSlot(d, w)
  /\ PortalAvailable(d, r, IF OwnsRun(d, w, r) THEN w ELSE NoWorker)
  /\ BundleBelowLimit(d, r)

HoldsClaim(d, w) ==
  /\ d.wk[w].task # NoTask
  /\ d.task[d.wk[w].task].worker = w
  /\ d.task[d.wk[w].task].state = "claimed"

\* The tasks claim_task may hand out to w among those of R: the claimed one
\* it already holds, else any claimable one (the order of tasks is abstracted).
TaskOffers(d, w, R) ==
  CASE d.wk[w].fence # 0 -> {}
    [] d.wk[w].fence = 0 /\ HoldsClaim(d, w) -> {d.wk[w].task}
    [] OTHER -> {t \in Tasks : RunOf[t] \in R /\ Claimable(d, w, t)}

AssignTask(d, w, t) ==
  IF d.wk[w].task = t /\ d.task[t].state = "claimed" THEN d ELSE
  [d EXCEPT !.task[t] = [state |-> "claimed", worker |-> w, expired |-> FALSE],
            !.wk[w].task = t]

\* claim_run(), the queued runs w may take once no download needs it.
RunOffers(d, w) ==
  {r \in Runs : /\ d.run[r].status = "queued"
                /\ Mode[r] = Mode[w]
                /\ PortalAvailable(d, r, NoWorker)
                /\ CanClaim(d, w)}
AssignRun(d, w, r) ==
  [d EXCEPT !.run[r].status = "claimed", !.run[r].worker = w, !.wk[w].run = r]
=============================================================================
