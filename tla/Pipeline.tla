------------------------------ MODULE Pipeline ------------------------------
(***************************************************************************)
(* The full-pipeline refresh of app/routers/pipelines.py: a report's run   *)
(* refreshes its upstream flows one after another, then its materialized   *)
(* views, then its Power BI dataset, under resource locks taken when the   *)
(* run is created.                                                         *)
(*                                                                         *)
(* pipeline_tick moves a run in short transactions under a lease of twenty *)
(* seconds and gives everything that blocks to futures of a thread pool.   *)
(* Rows survive a restart; futures, tick threads and the shutdown event    *)
(* do not.  Each action is one transaction or one external call; the       *)
(* window between two of them belongs to every other actor.  Deadlines     *)
(* are choices: a step that checks the clock may find it passed.           *)
(*                                                                         *)
(*   target     flows.sql_table: the table a flow writes                   *)
(*   preview    pipeline_plan_previews, one per report                     *)
(*   built      the plan create_pipeline_run rebuilt, before its           *)
(*              transaction, and how many flow runs existed then           *)
(*   runs       pipeline_runs with pipeline_run_steps, by id               *)
(*   locks      pipeline_resource_locks: resource -> run                   *)
(*   frun       flow_runs, by id                                           *)
(*   fut        the live futures of each run                               *)
(*   tick       the two threads that execute pipeline_tick                 *)
(*   server     the process: serving or stopping, the PostgreSQL endpoint  *)
(*              of its environment, its restarts, whether the tick of      *)
(*              startup is still to come                                   *)
(***************************************************************************)
EXTENDS Naturals, Sequences, FiniteSetsExt

CONSTANTS
  Reports, Flows, Views, Targets, Datasets, Endpoints,
  PlanFlows,    \* report -> sequence of the flows upstream of it
  PlanViews,    \* report -> sequence of its views, upstream first
  Dataset,      \* report -> its Power BI dataset
  FlowViews,    \* flow -> views its own run refreshes after SQL
  FirstTarget,  \* flow -> the table it writes at first
  Ticks,        \* tick threads: the scheduler's, and the one of startup
  Startup,      \* the thread of startup
  NoThread, NoPlan,
  MaxRuns, MaxDirect, MaxRestarts, MaxEdits, \* bounds: runs, direct flow runs, restarts, edits
  Faults        \* of "late launch", "slow tick", "cut"

ASSUME ShapeAssumption ==
  /\ PlanFlows \in [Reports -> Seq(Flows)] /\ PlanViews \in [Reports -> Seq(Views)]
  /\ FirstTarget \in [Flows -> Targets]
  /\ Endpoints # {} /\ MaxRuns \in Nat
  /\ NoThread \notin Ticks

VARIABLES target, preview, built, runs, locks, frun, fut, tick, server, edits
vars == <<target, preview, built, runs, locks, frun, fut, tick, server, edits>>

Terminal == {"succeeded", "failed"}
Stages == {"queued", "preparing_workers", "running_flows", "refreshing_mvs",
           "refreshing_powerbi"} \cup Terminal
StepStatus == {"pending", "running", "succeeded", "failed", "cancelled", "skipped", "unknown"}
FlowActive == {"queued", "running"}
Active == {j \in DOMAIN frun : frun[j].st \in FlowActive}
Idle == [pc |-> "idle", run |-> 0, k |-> 0, flag |-> FALSE]
NoFutures == [workers |-> FALSE, mv |-> [pc |-> "none", todo |-> {}],
              pbi |-> [pc |-> "none", resume |-> FALSE]]

SetStep(steps, k, status) == [steps EXCEPT ![k] = [@ EXCEPT !.st = status]]
Commit(view, k, n) == [view EXCEPT ![k] = [@ EXCEPT !.commits = view[k].commits + n]]
Has(steps, status) == \E k \in DOMAIN steps : steps[k].st = status
AllSucceeded(steps) == \A k \in DOMAIN steps : steps[k].st = "succeeded"

(***************************************************************************)
(* Plan, reservations and direct flow runs.                                *)
(***************************************************************************)
\* build_refresh_plan: what the plan hash covers of a report's plan.
Plan(r) == [goal   |-> [k \in DOMAIN PlanFlows[r] |-> target[PlanFlows[r][k]]],
            server |-> server.endpoint]

\* _resource_specs
Resources(r, plan) ==
  {<<"report", r>>, <<"dataset", Dataset[r]>>}
    \cup {<<"flow", f>> : f \in Range(PlanFlows[r])}
    \cup {<<"target", t>> : t \in Range(plan.goal)}
    \cup {<<"mv", v>> : v \in Range(PlanViews[r])}

Locked(resource) == resource \in DOMAIN locks
Writes(t) == \E j \in Active : frun[j].target = t        \* active_flow_target_run
Refreshes(v) == \E j \in Active : v \in frun[j].views    \* active_view_refresh_run

\* The blockers of a plan that other actors raise.
Blocked(r) ==
  \/ \E a, b \in DOMAIN Plan(r).goal : a # b /\ Plan(r).goal[a] = Plan(r).goal[b]
  \/ \E t \in Range(Plan(r).goal) : Writes(t)
  \/ \E v \in Range(PlanViews[r]) : Refreshes(v)
  \/ \E resource \in Resources(r, Plan(r)) : Locked(resource)

\* queue_flow_run_service for one flow: refused while the flow or its table
\* has an active run.
Queueable(f) == \A j \in Active : frun[j].flow # f /\ frun[j].target # target[f]
NewFlowRun(f, views, parent) ==
  [flow |-> f, target |-> target[f], views |-> views, st |-> "queued", parent |-> parent]

Preview(r) ==
  /\ Len(runs) < MaxRuns
  /\ preview' = [preview EXCEPT ![r] = Plan(r)]
  /\ UNCHANGED <<target, built, runs, locks, frun, fut, tick, server, edits>>

\* create_pipeline_run up to its transaction: the preview still describes the
\* plan, and the plan has no blockers.
Confirm(r) ==
  /\ server.up = "serving" /\ Len(runs) < MaxRuns
  /\ built[r] = NoPlan /\ preview[r] = Plan(r) /\ ~Blocked(r)
  /\ built' = [built EXCEPT ![r] = [plan |-> Plan(r), seen |-> Len(frun)]]
  /\ UNCHANGED <<target, preview, runs, locks, frun, fut, tick, server, edits>>

\* Mutant: the creating transaction trusts the tables of the rebuilt plan.
CreatableUnchecked(r) ==
  /\ Len(runs) < MaxRuns
  /\ \A resource \in Resources(r, built[r].plan) : ~Locked(resource)
\* Mutant: an INSERT OR IGNORE of the locks.
CreatableShared(r) ==
  Len(runs) < MaxRuns /\ built[r].plan.goal = Plan(r).goal /\ \A t \in Range(Plan(r).goal) : ~Writes(t)

\* _confirm_flow_targets_for_run and the primary key of the lock table.
Creatable(r) ==
  /\ Len(runs) < MaxRuns
  /\ built[r].plan.goal = Plan(r).goal
  /\ \A t \in Range(Plan(r).goal) : ~Writes(t)
  /\ \A resource \in Resources(r, built[r].plan) : ~Locked(resource)

NewRun(r) ==
  [report |-> r, goal |-> built[r].plan.goal, server |-> built[r].plan.server,
   stage |-> "queued", inspect |-> FALSE,
   flow |-> [k \in DOMAIN PlanFlows[r] |-> [st |-> "pending", run |-> 0]],
   view |-> [k \in DOMAIN PlanViews[r] |-> [st |-> "pending", commits |-> 0]],
   pbi  |-> [st |-> "pending", request |-> FALSE, triggers |-> 0],
   lease |-> [token |-> NoThread, expired |-> FALSE],
   seen |-> built[r].seen, born |-> Len(frun), hurt |-> {}]

\* The BEGIN IMMEDIATE transaction of create_pipeline_run, or its 409.
Create(r) ==
  /\ built[r] # NoPlan
  /\ built' = [built EXCEPT ![r] = NoPlan]
  /\ IF Creatable(r)
     THEN /\ runs' = Append(runs, NewRun(r))
          /\ locks' = [x \in DOMAIN locks \cup Resources(r, built[r].plan) |->
                         IF x \in DOMAIN locks THEN locks[x] ELSE Len(runs) + 1]
          /\ preview' = [preview EXCEPT ![r] = NoPlan]
     ELSE UNCHANGED <<runs, locks, preview>>
  /\ UNCHANGED <<target, frun, fut, tick, server, edits>>

\* update_flow of a flow that is not reserved; its running job is frozen.
EditFlow(f, t) ==
  /\ edits < MaxEdits /\ target[f] # t
  /\ ~Locked(<<"flow", f>>) /\ ~Locked(<<"target", target[f]>>)
  /\ target' = [target EXCEPT ![f] = t]
  /\ edits' = edits + 1
  /\ UNCHANGED <<preview, built, runs, locks, frun, fut, tick, server>>

\* A manual or scheduled run of a flow (_queue_new_manual_run).
QueueDirect(f) ==
  /\ Cardinality({j \in DOMAIN frun : frun[j].parent = 0}) < MaxDirect
  /\ ~Locked(<<"flow", f>>) /\ ~Locked(<<"target", target[f]>>)
  /\ Queueable(f)
  /\ \A v \in FlowViews[f] : ~Locked(<<"mv", v>>) /\ ~Refreshes(v)
  /\ frun' = Append(frun, NewFlowRun(f, FlowViews[f], 0))
  /\ UNCHANGED <<target, preview, built, runs, locks, fut, tick, server, edits>>

\* The worker side of a flow run, and a user's stop.
FlowClaimed(j) ==
  /\ frun[j].st = "queued"
  /\ frun' = [frun EXCEPT ![j] = [@ EXCEPT !.st = "running"]]
  /\ UNCHANGED <<target, preview, built, runs, locks, fut, tick, server, edits>>
FlowEnds(j) ==
  /\ frun[j].st = "running"
  /\ \E st \in {"succeeded", "failed", "cancelled"} : frun' = [frun EXCEPT ![j] = [@ EXCEPT !.st = st]]
  /\ UNCHANGED <<target, preview, built, runs, locks, fut, tick, server, edits>>

(***************************************************************************)
(* How a run ends, and the stage it moves to.                              *)
(***************************************************************************)
\* _set_stage writes the stage whatever it was.
SetStage(run, stage) == [run EXCEPT !.stage = stage]

\* The stage after the flows.
AfterFlows(run) == IF run.view = <<>> THEN "refreshing_powerbi" ELSE "refreshing_mvs"

Skip(steps) ==
  [k \in DOMAIN steps |-> IF steps[k].st = "pending" THEN [steps[k] EXCEPT !.st = "skipped"]
                                                      ELSE steps[k]]
SkipPbi(pbi) == IF pbi.st = "pending" THEN [pbi EXCEPT !.st = "skipped"] ELSE pbi

\* Mutant: the locks of a failed run are kept for whoever inspects it.
FailsLocked(i, run, inspect) ==
  /\ runs' = [runs EXCEPT ![i] = IF run.stage \in Terminal THEN run ELSE [run EXCEPT !.stage = "failed"]]
  /\ UNCHANGED locks
\* Mutant: a run that ended fails again.
FailsTwice(i, run, inspect) ==
  /\ runs' = [runs EXCEPT ![i] = [run EXCEPT !.stage = "failed", !.inspect = inspect]]
  /\ locks' = [x \in {y \in DOMAIN locks : locks[y] # i} |-> locks[x]]

\* _fail_pipeline on the row of run i after the step updates already in `run`:
\* it does nothing to a run that is terminal.
Fails(i, run, inspect) ==
  IF run.stage \in Terminal
  THEN runs' = [runs EXCEPT ![i] = run] /\ UNCHANGED locks
  ELSE /\ runs' = [runs EXCEPT ![i] =
            [run EXCEPT !.stage = "failed", !.inspect = inspect, !.flow = Skip(@),
                        !.view = Skip(@), !.pbi = SkipPbi(@)]]
       /\ locks' = [x \in {y \in DOMAIN locks : locks[y] # i} |-> locks[x]]

Fail(i, inspect) == Fails(i, runs[i], inspect)
Update(i, run) == runs' = [runs EXCEPT ![i] = run] /\ UNCHANGED locks

(***************************************************************************)
(* pipeline_tick.                                                          *)
(***************************************************************************)
Goto(t, pc) == tick' = [tick EXCEPT ![t] = [@ EXCEPT !.pc = pc]]
Live(i, kind) == CASE kind = "mv"  -> fut[i].mv.pc # "none"
                   [] kind = "pbi" -> fut[i].pbi.pc # "none"
                   [] OTHER        -> fut[i].workers

\* What a tick read about run i is no longer so when it acts on it.
Hurt(i, how, when) == [runs[i] EXCEPT !.hurt = @ \cup IF when THEN {how} ELSE {}]

\* _submit_future: nothing while the future of this key is live; once the
\* executor is shut down the call raises and the tick fails the run.
Submit(t, i, kind, stage, future) ==
  /\ Goto(t, "release")
  /\ CASE Live(i, kind) -> UNCHANGED <<fut, runs, locks>>
       [] ~Live(i, kind) /\ server.up = "serving" ->
            /\ fut' = [fut EXCEPT ![i] = future]
            /\ Update(i, Hurt(i, "stale", runs[i].stage # stage))
       [] OTHER -> Fail(i, FALSE) /\ UNCHANGED fut

\* Mutant: an expired lease is not taken over.
ClaimLeaseFree(t, i) ==
  /\ tick[t].pc = "idle" /\ server.up = "serving"
  /\ t = Startup => server.boot
  /\ runs[i].stage \notin Terminal /\ runs[i].lease.token = NoThread
  /\ runs' = [runs EXCEPT ![i] = [@ EXCEPT !.lease = [token |-> t, expired |-> FALSE]]]
  /\ tick' = [tick EXCEPT ![t] = [pc |-> runs[i].stage, run |-> i, k |-> 0, flag |-> FALSE]]
  /\ server' = [server EXCEPT !.boot = @ /\ t # Startup]
  /\ UNCHANGED <<target, preview, built, locks, frun, fut, edits>>

\* _claim_tick_lease and the row it then reads.  A run lost its lease when
\* the tick that holds it took more than twenty seconds.
ClaimLease(t, i) ==
  /\ tick[t].pc = "idle" /\ server.up = "serving"
  /\ t = Startup => server.boot
  /\ runs[i].stage \notin Terminal
  /\ runs[i].lease.token = NoThread \/ runs[i].lease.expired
  /\ runs' = [runs EXCEPT ![i] = [@ EXCEPT !.lease = [token |-> t, expired |-> FALSE]]]
  /\ tick' = [tick EXCEPT ![t] = [pc |-> runs[i].stage, run |-> i, k |-> 0, flag |-> FALSE]]
  /\ server' = [server EXCEPT !.boot = @ /\ t # Startup]
  /\ UNCHANGED <<target, preview, built, locks, frun, fut, edits>>

\* A holder that died has let its lease expire; a live one only when it is slow.
LeaseExpires(i) ==
  /\ runs[i].lease.token # NoThread /\ ~runs[i].lease.expired
  /\ LET held == \E t \in Ticks : tick[t].pc # "idle" /\ tick[t].run = i
                                    /\ runs[i].lease.token = t
     IN /\ held => "slow tick" \in Faults
        /\ runs' = [runs EXCEPT ![i] = [Hurt(i, "slow", held) EXCEPT !.lease = [@ EXCEPT !.expired = TRUE]]]
  /\ UNCHANGED <<target, preview, built, locks, frun, fut, tick, server, edits>>

\* _release_tick_lease, in the finally clause.
Release(t) ==
  LET i == tick[t].run IN
  /\ tick[t].pc = "release"
  /\ runs' = IF runs[i].lease.token = t
             THEN [runs EXCEPT ![i] = [@ EXCEPT !.lease = [token |-> NoThread, expired |-> FALSE]]] ELSE runs
  /\ tick' = [tick EXCEPT ![t] = Idle]
  /\ UNCHANGED <<target, preview, built, locks, frun, fut, server, edits>>

\* Stage queued.
TickQueued(t) ==
  LET i == tick[t].run
      none == runs[i].flow = <<>>
  IN /\ tick[t].pc = "queued"
     /\ Update(i, SetStage(runs[i], IF none THEN AfterFlows(runs[i]) ELSE "preparing_workers"))
     /\ Goto(t, IF none THEN "release" ELSE "launch")
     /\ UNCHANGED <<target, preview, built, frun, fut, server, edits>>

TickLaunch(t) ==
  LET i == tick[t].run IN
  /\ tick[t].pc = "launch"
  /\ Submit(t, i, "workers", "preparing_workers", [fut[i] EXCEPT !.workers = TRUE])
  /\ UNCHANGED <<target, preview, built, frun, server, edits>>

\* Stage preparing_workers: the workers are still missing, at last for too long.
TickWaits(t) ==
  /\ tick[t].pc = "preparing_workers"
  /\ Goto(t, "release")
  /\ UNCHANGED <<target, preview, built, runs, locks, frun, fut, server, edits>>
TickGivesUp(t) ==
  /\ tick[t].pc = "preparing_workers"
  /\ Fail(tick[t].run, FALSE)
  /\ Goto(t, "release")
  /\ UNCHANGED <<target, preview, built, frun, fut, server, edits>>

\* Queue the flow of step k as a child of run i, or fail the run when the
\* service refuses (or raises for another reason).
QueueChild(t, i, run, k, pc) ==
  LET f == PlanFlows[run.report][k] IN
  \/ /\ Queueable(f)
     /\ frun' = Append(frun, NewFlowRun(f, {}, i))
     /\ Update(i, [run EXCEPT !.flow = [@ EXCEPT ![k] = [st |-> "running", run |-> Len(frun) + 1]]])
     /\ Goto(t, pc)
  \/ Fails(i, run, FALSE) /\ Goto(t, "release") /\ UNCHANGED frun

Pending(run) == {k \in DOMAIN run.flow : run.flow[k].st = "pending"}

\* The workers are ready: queue the first pending flow, and in a transaction
\* of its own (TickAdvance) enter running_flows.
TickPrepare(t) ==
  LET i == tick[t].run IN
  /\ tick[t].pc = "preparing_workers"
  /\ IF Pending(runs[i]) = {}
     THEN Goto(t, "advance") /\ UNCHANGED <<runs, locks, frun>>
     ELSE QueueChild(t, i, runs[i], Min(Pending(runs[i])), "advance")
  /\ UNCHANGED <<target, preview, built, fut, server, edits>>

TickAdvance(t) ==
  LET i == tick[t].run IN
  /\ tick[t].pc = "advance"
  /\ Update(i, SetStage(runs[i], "running_flows"))
  /\ Goto(t, "release")
  /\ UNCHANGED <<target, preview, built, frun, fut, server, edits>>

\* Stage running_flows: the steps are visited in order.
Child(step) == IF step.run = 0 THEN "missing" ELSE frun[step.run].st
\* Mutant: a cancelled child counts as one that is over.
BadUncancelled(run) == {k \in DOMAIN run.flow : /\ run.flow[k].st # "pending"
                                               /\ Child(run.flow[k]) \in {"missing", "failed"}}
Bad(run) == {k \in DOMAIN run.flow : /\ run.flow[k].st # "pending"
                                     /\ Child(run.flow[k]) \in {"missing", "failed", "cancelled"}}
\* Mutant: a step takes the status of its child.
SettleAny(run, n) ==
  [run EXCEPT !.flow = [k \in DOMAIN run.flow |->
     IF k <= n /\ run.flow[k].st = "running"
     THEN [run.flow[k] EXCEPT !.st = Child(run.flow[k])] ELSE run.flow[k]]]
\* Record the outcome of the running steps whose child ended, up to step n.
Settle(run, n) ==
  [run EXCEPT !.flow = [k \in DOMAIN run.flow |->
     IF k <= n /\ run.flow[k].st = "running" /\ Child(run.flow[k]) \in {"succeeded", "failed", "cancelled"}
     THEN [run.flow[k] EXCEPT !.st = Child(run.flow[k])] ELSE run.flow[k]]]

\* A child that failed, was cancelled or disappeared ends the run.
ChildFailed(t, i, run) ==
  LET k == Min(Bad(run))
      missing == Child(run.flow[k]) = "missing"
  IN /\ Bad(run) # {}
     /\ Fails(i, IF missing THEN [Settle(run, k) EXCEPT !.flow = SetStep(@, k, "unknown")]
                            ELSE Settle(run, k), missing)
     /\ Goto(t, "release") /\ UNCHANGED frun

\* A child that is still queued after ten minutes is cancelled, one that is
\* active after twelve hours is left alone; either ends the run.
ChildOverdue(t, i, run) ==
  \E k \in DOMAIN run.flow :
    /\ run.flow[k].st # "pending" /\ \A b \in Bad(run) : k < b
    /\ LET child == run.flow[k].run IN
       \/ /\ Child(run.flow[k]) = "queued"
          /\ frun' = [frun EXCEPT ![child] = [@ EXCEPT !.st = "cancelled"]]
          /\ Fails(i, [Settle(run, k) EXCEPT !.flow = SetStep(@, k, "cancelled")], FALSE)
       \/ /\ Child(run.flow[k]) = "running"
          /\ UNCHANGED frun
          /\ Fails(i, [Settle(run, k) EXCEPT !.flow = SetStep(@, k, "failed")], FALSE)
    /\ Goto(t, "release")

\* Mutant: the run moves on when every child is queued.
ChildrenOnTrackEager(t, i, run) ==
  /\ Bad(run) = {}
  /\ LET settled == Settle(run, Len(run.flow)) IN
     IF Pending(run) # {} /\ \A k \in DOMAIN run.flow : Child(run.flow[k]) \notin FlowActive
     THEN QueueChild(t, i, settled, Min(Pending(run)), "release")
     ELSE /\ Update(i, IF Pending(run) = {} THEN SetStage(settled, AfterFlows(run)) ELSE settled)
          /\ Goto(t, "release") /\ UNCHANGED frun

ChildrenOnTrack(t, i, run) ==
  LET settled == Settle(run, Len(run.flow))
      active  == \E k \in DOMAIN run.flow : Child(run.flow[k]) \in FlowActive
  IN /\ Bad(run) = {}
     /\ IF Pending(run) # {} /\ ~active
        THEN QueueChild(t, i, settled, Min(Pending(run)), "release")
        ELSE /\ Update(i, IF Pending(run) = {} /\ ~active
                          THEN SetStage(settled, AfterFlows(run)) ELSE settled)
             /\ Goto(t, "release") /\ UNCHANGED frun

TickFlows(t) ==
  LET i == tick[t].run IN
  /\ tick[t].pc = "running_flows"
  /\ ChildFailed(t, i, runs[i]) \/ ChildrenOnTrack(t, i, runs[i])
  /\ UNCHANGED <<target, preview, built, fut, server, edits>>

TickOverdue(t) ==
  LET i == tick[t].run IN
  /\ tick[t].pc = "running_flows"
  /\ ChildOverdue(t, i, runs[i])
  /\ UNCHANGED <<target, preview, built, fut, server, edits>>

\* Stage refreshing_mvs: the view steps are read first, the future after them.
TickMvs(t) ==
  LET view == runs[tick[t].run].view
      running == {k \in DOMAIN view : view[k].st = "running"}
  IN /\ tick[t].pc = "refreshing_mvs"
     /\ tick' = [tick EXCEPT ![t] =
          [@ EXCEPT !.pc = "mvs read", !.k = IF running = {} THEN 0 ELSE Max(running),
                    !.flag = Has(view, "succeeded") /\ Has(view, "pending")]]
     /\ UNCHANGED <<target, preview, built, runs, locks, frun, fut, server, edits>>

MvStarts(i) == [fut[i] EXCEPT !.mv = [@ EXCEPT !.pc = "start"]]
\* Mutant: a running view step is resumed whoever started it.
TickMvDecideResumes(t) ==
  /\ tick[t].pc = "mvs read"
  /\ Submit(t, tick[t].run, "mv", "refreshing_mvs", MvStarts(tick[t].run))
  /\ UNCHANGED <<target, preview, built, frun, server, edits>>

\* Nothing of this process works on the views although a step is running, or
\* some are refreshed and some are not: the run is not resumed.  Otherwise
\* the stage is given to a future.
TickMvDecide(t) ==
  LET i == tick[t].run IN
  /\ tick[t].pc = "mvs read"
  /\ IF tick[t].k # 0 /\ ~Live(i, "mv")
     THEN /\ Update(i, [Hurt(i, "stale", runs[i].view[tick[t].k].st # "running")
                          EXCEPT !.view = SetStep(@, tick[t].k, "unknown")])
          /\ Goto(t, "mv unknown") /\ UNCHANGED fut
     ELSE IF tick[t].flag /\ ~Live(i, "mv")
     THEN Fail(i, TRUE) /\ Goto(t, "release") /\ UNCHANGED fut
     ELSE Submit(t, i, "mv", "refreshing_mvs", MvStarts(i))
  /\ UNCHANGED <<target, preview, built, frun, server, edits>>

TickMvUnknown(t) ==
  /\ tick[t].pc = "mv unknown"
  /\ Fail(tick[t].run, TRUE)
  /\ Goto(t, "release")
  /\ UNCHANGED <<target, preview, built, frun, fut, server, edits>>

\* Stage refreshing_powerbi: a step that is already running is resumed.
TickPbi(t) ==
  LET i == tick[t].run
      st == runs[i].pbi.st
  IN /\ tick[t].pc = "refreshing_powerbi"
     /\ Update(i, [runs[i] EXCEPT !.pbi = [@ EXCEPT !.st = IF st = "pending" THEN "running" ELSE st]])
     /\ tick' = [tick EXCEPT ![t] = [@ EXCEPT !.pc = "pbi read", !.flag = st = "running"]]
     /\ UNCHANGED <<target, preview, built, frun, fut, server, edits>>

TickPbiSubmit(t) ==
  LET i == tick[t].run IN
  /\ tick[t].pc = "pbi read"
  /\ Submit(t, i, "pbi", "refreshing_powerbi",
            [fut[i] EXCEPT !.pbi = [pc |-> "start", resume |-> tick[t].flag]])
  /\ UNCHANGED <<target, preview, built, frun, server, edits>>

Tick(t) ==
  \/ TickQueued(t) \/ TickLaunch(t) \/ TickWaits(t) \/ TickGivesUp(t) \/ TickPrepare(t) \/ TickAdvance(t)
  \/ TickFlows(t) \/ TickOverdue(t) \/ TickMvs(t) \/ TickMvDecide(t) \/ TickMvUnknown(t)
  \/ TickPbi(t) \/ TickPbiSubmit(t) \/ Release(t)

(***************************************************************************)
(* The futures.                                                            *)
(***************************************************************************)
\* _launch_required_workers.  The sc.exe and schtasks calls may report an
\* error after the tick found the workers online and moved on.
Launch(i) ==
  LET late == \/ runs[i].stage # "preparing_workers"
              \/ \E t \in Ticks : tick[t].run = i /\ tick[t].pc # "idle"
  IN /\ fut[i].workers
     /\ fut' = [fut EXCEPT ![i] = [@ EXCEPT !.workers = FALSE]]
     /\ \/ UNCHANGED <<runs, locks>>
        \/ /\ late => "late launch" \in Faults
           /\ Fails(i, Hurt(i, "late", late), FALSE)
     /\ UNCHANGED <<target, preview, built, frun, tick, server, edits>>

MvBecomes(i, mv) == fut' = [fut EXCEPT ![i] = [@ EXCEPT !.mv = mv]]
MvGoto(i, pc) == MvBecomes(i, [fut[i].mv EXCEPT !.pc = pc])

\* _run_mv_stage reads the steps it will refresh.
MvStart(i) ==
  LET todo == {k \in DOMAIN runs[i].view : runs[i].view[k].st \in {"pending", "running"}} IN
  /\ fut[i].mv.pc = "start"
  /\ MvBecomes(i, [pc |-> "next", todo |-> todo])
  /\ UNCHANGED <<target, preview, built, runs, locks, frun, tick, server, edits>>

\* The next view of the loop: none is left, the server stops, the endpoint is
\* not the one the run was planned for, or its step is marked running.
MvNext(i) ==
  LET todo == fut[i].mv.todo
      k == Min(todo)
  IN /\ fut[i].mv.pc = "next"
     /\ IF todo = {}
        THEN /\ MvBecomes(i, NoFutures.mv)
             /\ Update(i, SetStage(runs[i], "refreshing_powerbi"))
        ELSE IF server.up = "stopping"
        THEN MvBecomes(i, NoFutures.mv) /\ UNCHANGED <<runs, locks>>
        ELSE IF runs[i].server # server.endpoint
        THEN /\ MvGoto(i, "failed")
             /\ Update(i, [runs[i] EXCEPT !.view = SetStep(@, k, "failed")])
        ELSE /\ MvGoto(i, "refresh")
             /\ Update(i, [runs[i] EXCEPT !.view = IF @[k].st = "pending" THEN SetStep(@, k, "running") ELSE @])
     /\ UNCHANGED <<target, preview, built, frun, tick, server, edits>>

\* REFRESH MATERIALIZED VIEW commits; or it raises and the step is failed,
\* whether or not the commit was only not acknowledged.
MvRefresh(i) ==
  LET k == Min(fut[i].mv.todo) IN
  /\ fut[i].mv.pc = "refresh"
  /\ \/ /\ MvGoto(i, "refreshed")
        /\ Update(i, [runs[i] EXCEPT !.view = Commit(@, k, 1)])
     \/ \E n \in {0, 1} :
          /\ MvGoto(i, "failed")
          /\ Update(i, [runs[i] EXCEPT !.view = SetStep(Commit(@, k, n), k, "failed")])
  /\ UNCHANGED <<target, preview, built, frun, tick, server, edits>>

MvRecord(i) ==
  LET k == Min(fut[i].mv.todo) IN
  /\ fut[i].mv.pc = "refreshed"
  /\ MvBecomes(i, [pc |-> "next", todo |-> fut[i].mv.todo \ {k}])
  /\ Update(i, [runs[i] EXCEPT !.view = SetStep(@, k, "succeeded")])
  /\ UNCHANGED <<target, preview, built, frun, tick, server, edits>>

MvFail(i) ==
  /\ fut[i].mv.pc = "failed"
  /\ MvBecomes(i, NoFutures.mv)
  /\ Fail(i, FALSE)
  /\ UNCHANGED <<target, preview, built, frun, tick, server, edits>>

\* _run_powerbi_stage: without a persisted request id a resumed step is never
\* triggered again.  The request may be accepted with an id, accepted without
\* one, or raise on either side of its acceptance.
PbiGoto(i, pc) == fut' = [fut EXCEPT ![i] = [@ EXCEPT !.pbi = [fut[i].pbi EXCEPT !.pc = pc]]]
PbiRow(i, pbi) == Update(i, [runs[i] EXCEPT !.pbi = pbi])
PbiStart(i) ==
  LET pbi == runs[i].pbi IN
  /\ fut[i].pbi.pc = "start"
  /\ \/ pbi.request /\ PbiGoto(i, "poll") /\ UNCHANGED <<runs, locks>>
     \/ /\ ~pbi.request /\ fut[i].pbi.resume
        /\ PbiGoto(i, "unknown") /\ PbiRow(i, [pbi EXCEPT !.st = "unknown"])
     \/ /\ ~pbi.request /\ ~fut[i].pbi.resume
        /\ \/ PbiGoto(i, "persist") /\ PbiRow(i, [pbi EXCEPT !.triggers = @ + 1])
           \/ /\ PbiGoto(i, "unknown")
              /\ PbiRow(i, [pbi EXCEPT !.triggers = @ + 1, !.st = "unknown"])
           \/ \E n \in {0, 1} : /\ PbiGoto(i, "failed")
                                /\ PbiRow(i, [pbi EXCEPT !.triggers = @ + n])
  /\ UNCHANGED <<target, preview, built, frun, tick, server, edits>>

PbiPersist(i) ==
  /\ fut[i].pbi.pc = "persist"
  /\ PbiGoto(i, "poll")
  /\ PbiRow(i, [runs[i].pbi EXCEPT !.request = TRUE])
  /\ UNCHANGED <<target, preview, built, frun, tick, server, edits>>

\* A terminal status, the six-hour watchdog, an error of the poll, or the
\* shutdown event that leaves the request to the next process.
PbiPoll(i) ==
  /\ fut[i].pbi.pc = "poll"
  /\ \/ \E st \in {"succeeded", "failed"} :
          PbiGoto(i, st) /\ PbiRow(i, [runs[i].pbi EXCEPT !.st = st])
     \/ PbiGoto(i, "failed") /\ UNCHANGED <<runs, locks>>
     \/ server.up = "stopping" /\ PbiGoto(i, "none") /\ UNCHANGED <<runs, locks>>
  /\ UNCHANGED <<target, preview, built, frun, tick, server, edits>>

\* _succeed_pipeline, or _fail_pipeline for the outcome just recorded.
PbiEnd(i) ==
  LET pc == fut[i].pbi.pc IN
  /\ pc \in {"succeeded", "failed", "unknown"}
  /\ fut' = [fut EXCEPT ![i] = [@ EXCEPT !.pbi = NoFutures.pbi]]
  /\ IF pc = "succeeded"
     THEN /\ runs' = [runs EXCEPT ![i] = SetStage(@, "succeeded")]
          /\ locks' = [x \in {y \in DOMAIN locks : locks[y] # i} |-> locks[x]]
     ELSE Fail(i, pc = "unknown")
  /\ UNCHANGED <<target, preview, built, frun, tick, server, edits>>

Future(i) ==
  \/ Launch(i) \/ MvStart(i) \/ MvNext(i) \/ MvRefresh(i) \/ MvRecord(i) \/ MvFail(i)
  \/ PbiStart(i) \/ PbiPersist(i) \/ PbiPoll(i) \/ PbiEnd(i)

(***************************************************************************)
(* The process.                                                            *)
(***************************************************************************)
\* shutdown_pipeline_executor: futures that have not started are cancelled.
Stop ==
  /\ server.up = "serving" /\ server.restarts < MaxRestarts
  /\ server' = [server EXCEPT !.up = "stopping"]
  /\ fut' = [i \in DOMAIN fut |->
       [fut[i] EXCEPT !.mv  = IF @.pc = "start" THEN NoFutures.mv ELSE @,
                      !.pbi = IF @.pc = "start" THEN NoFutures.pbi ELSE @]]
  /\ UNCHANGED <<target, preview, built, runs, locks, frun, tick, edits>>

\* Between two commits of one outcome: a recorded failure whose run has not
\* failed yet, or a queued child whose run is not in running_flows yet.
Split(i) == \/ fut[i].mv.pc = "failed" \/ fut[i].pbi.pc = "unknown"
            \/ \E t \in Ticks : tick[t].run = i /\ tick[t].pc \in {"advance", "mv unknown"}

\* The process ends, after a shutdown or without one, and another starts,
\* perhaps with another PostgreSQL host in its environment.
Restart ==
  /\ server.restarts < MaxRestarts
  /\ \A i \in DOMAIN runs : Split(i) => "cut" \in Faults
  /\ \E e \in Endpoints :
       server' = [up |-> "serving", endpoint |-> e, restarts |-> server.restarts + 1, boot |-> TRUE]
  /\ runs' = [i \in DOMAIN runs |-> Hurt(i, "cut", Split(i))]
  /\ built' = [r \in Reports |-> NoPlan]
  /\ fut' = [i \in DOMAIN fut |-> NoFutures]
  /\ tick' = [t \in Ticks |-> Idle]
  /\ UNCHANGED <<target, preview, locks, frun, edits>>

Init ==
  /\ target = FirstTarget
  /\ preview = [r \in Reports |-> NoPlan]
  /\ built = [r \in Reports |-> NoPlan]
  /\ runs = <<>> /\ frun = <<>> /\ locks = [x \in {} |-> 0]
  /\ fut = [i \in 1..MaxRuns |-> NoFutures]
  /\ tick = [t \in Ticks |-> Idle]
  /\ server = [up |-> "serving", endpoint |-> CHOOSE e \in Endpoints : TRUE,
               restarts |-> 0, boot |-> TRUE]
  /\ edits = 0

Next ==
  \/ \E r \in Reports : Preview(r) \/ Confirm(r) \/ Create(r)
  \/ \E f \in Flows : QueueDirect(f) \/ \E t \in Targets : EditFlow(f, t)
  \/ \E j \in DOMAIN frun : FlowClaimed(j) \/ FlowEnds(j)
  \/ \E i \in DOMAIN runs : LeaseExpires(i) \/ Future(i) \/ \E t \in Ticks : ClaimLease(t, i)
  \/ \E t \in Ticks : Tick(t)
  \/ Stop \/ Restart

\* The scheduler repeats the tick, the pool runs its futures, a lease of a
\* dead holder expires, a process that stops is replaced by the service, and
\* a deadline that is checked again and again is found passed at last.
Fairness ==
  /\ \A t \in Ticks : WF_vars(Tick(t)) /\ SF_vars(TickGivesUp(t)) /\ SF_vars(TickOverdue(t))
  /\ \A i \in 1..MaxRuns : /\ WF_vars(i \in DOMAIN runs /\ Future(i))
                           /\ WF_vars(i \in DOMAIN runs /\ LeaseExpires(i))
                           /\ SF_vars(i \in DOMAIN runs /\ \E t \in Ticks : ClaimLease(t, i))
  /\ WF_vars(server.up = "stopping" /\ Restart)
Spec == Init /\ [][Next]_vars /\ Fairness

(***************************************************************************)
(* Properties.  A run is hurt by "late" (its launch future failed after    *)
(* the tick had moved on), "slow" (its lease expired under a tick), "cut"  *)
(* (the process died between two commits of one outcome) or "stale" (a     *)
(* tick acted on rows that a future changed after it had read them).       *)
(***************************************************************************)
\* The values of the variables.
TypeOK ==
  /\ target \in [Flows -> Targets]
  /\ Len(runs) <= MaxRuns
  /\ \A i \in DOMAIN runs :
       /\ runs[i].stage \in Stages
       /\ \A k \in DOMAIN runs[i].flow : /\ runs[i].flow[k].st \in StepStatus
                                         /\ runs[i].flow[k].run \in 0..Len(frun)
       /\ \A k \in DOMAIN runs[i].view : runs[i].view[k].st \in StepStatus
       /\ runs[i].pbi.st \in StepStatus
       /\ runs[i].lease.token \in Ticks \cup {NoThread}
  /\ \A x \in DOMAIN locks : locks[x] \in DOMAIN runs
  /\ \A t \in Ticks : tick[t].run \in 0..Len(runs)

\* A live run holds every resource of its plan and a terminal run holds none
\* (create_pipeline_run, _release_locks): while a future refreshes a view or
\* a dataset, no other pipeline can reserve it.
LocksCoverRun ==
  \A i \in DOMAIN runs :
    LET mine == {x \in DOMAIN locks : locks[x] = i}
        live == runs[i].stage \notin Terminal \/ Live(i, "mv") \/ Live(i, "pbi")
    IN /\ live /\ runs[i].hurt \subseteq {"cut"} => mine = Resources(runs[i].report, runs[i])
       /\ runs[i].stage \in Terminal => mine = {}

\* A table reserved by a pipeline is written by that pipeline's own flow runs
\* only (a tick that outlived its lease may still queue a flow of a run that
\* has failed), and the table of each is the one the run was planned for:
\* the reservation, the queue of direct runs, edits of a flow and the recheck
\* inside the creating transaction agree.  A reserved view is refreshed by a
\* direct flow run only if that run was queued between the plan's last rebuild
\* and the creating transaction, which rechecks tables but not views
\* (pipelines.py:1765).
ReservedAlone ==
  \A j \in Active :
    /\ frun[j].parent = 0 \/ runs[frun[j].parent].hurt = {} =>
         \A x \in DOMAIN locks : x = <<"target", frun[j].target>> => frun[j].parent = locks[x]
    /\ frun[j].parent # 0 /\ runs[frun[j].parent].hurt = {} =>
         \E k \in DOMAIN runs[frun[j].parent].goal :
            /\ PlanFlows[runs[frun[j].parent].report][k] = frun[j].flow
            /\ runs[frun[j].parent].goal[k] = frun[j].target
    /\ \A v \in frun[j].views :
         Locked(<<"mv", v>>) => /\ runs[locks[<<"mv", v>>]].seen < j
                                /\ j <= runs[locks[<<"mv", v>>]].born

\* The flow runs of one pipeline follow one another, and each stage starts on
\* the complete outcome of the one before it.
UpstreamFirst ==
  \A i \in DOMAIN runs : runs[i].hurt = {} =>
    /\ Cardinality({j \in Active : frun[j].parent = i}) <= 1
    /\ (\E k \in DOMAIN runs[i].view : runs[i].view[k].commits > 0) => AllSucceeded(runs[i].flow)
    /\ runs[i].pbi.triggers > 0 => AllSucceeded(runs[i].flow) /\ AllSucceeded(runs[i].view)
    /\ \A a, b \in DOMAIN runs[i].view :
         a < b /\ runs[i].view[b].commits > 0 => runs[i].view[a].st = "succeeded"

\* However often the process is restarted, a view is refreshed at most once
\* for a run and its dataset refresh is requested at most once (a request of
\* unknown outcome is for a person to inspect): test_pipelines.py
\* test_restart_during_mv_marks_unknown_and_never_replays.
NeverReplayed ==
  \A i \in DOMAIN runs :
    /\ \A k \in DOMAIN runs[i].view : runs[i].view[k].commits <= 1
    /\ runs[i].hurt = {} => runs[i].pbi.triggers <= 1

\* A run that succeeded did all its work, once.
SucceededMeansDone ==
  \A i \in DOMAIN runs : runs[i].stage = "succeeded" /\ runs[i].hurt = {} =>
    /\ AllSucceeded(runs[i].flow) /\ AllSucceeded(runs[i].view)
    /\ runs[i].pbi.st = "succeeded" /\ runs[i].pbi.triggers = 1
    /\ \A k \in DOMAIN runs[i].view : runs[i].view[k].commits = 1
    /\ \A k \in DOMAIN runs[i].flow : frun[runs[i].flow[k].run].st = "succeeded"

\* A run that ended keeps its outcome, whatever its futures and ticks still do.
OutcomeIsFinal ==
  [][\A i \in DOMAIN runs : runs[i].stage \in Terminal /\ runs'[i].hurt = {}
        => runs'[i].stage = runs[i].stage]_vars

\* State constraints: a run meets one fault at most; no run meets one, and the
\* second run is followed only until it has been created.
OneFault == \A i \in DOMAIN runs : Cardinality(runs[i].hurt) <= 1
SecondIsCreated == \A i \in DOMAIN runs :
  runs[i].hurt = {} /\ (i > 1 => runs[i].stage \in {"queued", "failed"})

\* Every run ends, across restarts, missing workers and lost flow runs.
EveryRunEnds ==
  \A i \in 1..MaxRuns : i \in DOMAIN runs ~> i \in DOMAIN runs /\ runs[i].stage \in Terminal
=============================================================================
