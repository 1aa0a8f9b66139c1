--------------------------- MODULE PipelineProofs ---------------------------
(***************************************************************************)
(* Proofs about Pipeline, for any reports, flows, views, threads and       *)
(* endpoints, however often governance restarts. The inductive invariant   *)
(* is PipelineInv, stated with its theorems at the end: what a row means   *)
(* at each stage, what the thread that ticks it has in hand, what its two  *)
(* futures still hold, and who holds the locks. The lemmas go part by      *)
(* part, and in a part action by action.                                   *)
(***************************************************************************)
EXTENDS Pipeline, FiniteSetTheorems, TLAPS

(***************************************************************************)
(* The values of the variables.                                            *)
(***************************************************************************)
Harms == {"late", "slow", "cut", "stale"}
FlowSteps == [st : StepStatus, run : Nat]
ViewSteps == [st : StepStatus, commits : Nat]
PbiSteps == [st : StepStatus, request : BOOLEAN, triggers : Nat]
Leases == [token : Ticks \cup {NoThread}, expired : BOOLEAN]
PlansOf(r) == [goal : [DOMAIN PlanFlows[r] -> Targets], server : Endpoints]
BuiltOf(r) == [plan : PlansOf(r), seen : Nat]
RunsOf(r) ==
  [report : {r}, goal : [DOMAIN PlanFlows[r] -> Targets], server : Endpoints, stage : Stages,
   inspect : BOOLEAN, flow : [DOMAIN PlanFlows[r] -> FlowSteps],
   view : [DOMAIN PlanViews[r] -> ViewSteps], pbi : PbiSteps, lease : Leases,
   seen : Nat, born : Nat, hurt : SUBSET Harms]
AllRuns == UNION {RunsOf(r) : r \in Reports}
FlowRuns == [flow : Flows, target : Targets, views : {FlowViews[f] : f \in Flows} \cup {{}},
             st : FlowActive \cup {"succeeded", "failed", "cancelled"}, parent : Nat]
MvRows == [pc : {"none", "start", "next", "refresh", "refreshed", "failed"}, todo : SUBSET Nat]
PbiRows == [pc : {"none", "start", "persist", "poll", "succeeded", "failed", "unknown"},
            resume : BOOLEAN]
Futures == [workers : BOOLEAN, mv : MvRows, pbi : PbiRows]
EarlyTicks == {"queued", "preparing_workers", "launch", "advance", "running_flows"}
MvTicks == {"refreshing_mvs", "mvs read", "mv unknown"}
PbiTicks == {"refreshing_powerbi", "pbi read"}
TickRows == [pc : {"idle", "release"} \cup EarlyTicks \cup MvTicks \cup PbiTicks,
             run : Nat, k : Nat, flag : BOOLEAN]
Servers == [up : {"serving", "stopping"}, endpoint : Endpoints, restarts : Nat, boot : BOOLEAN]

OnRun(t, i) == tick[t].pc # "idle" /\ tick[t].run = i
Mine(i) == {x \in DOMAIN locks : locks[x] = i}

RunsType == runs \in Seq(AllRuns) /\ Len(runs) <= MaxRuns
FrunType ==
  /\ frun \in Seq(FlowRuns)
  /\ \A j \in DOMAIN frun : frun[j].parent <= Len(runs)
  /\ \A i \in DOMAIN runs : \A k \in DOMAIN runs[i].flow : runs[i].flow[k].run <= Len(frun)
FutType ==
  /\ fut \in [1..MaxRuns -> Futures]
  /\ \A i \in 1..MaxRuns : i > Len(runs) => fut[i] = NoFutures
  /\ \A i \in DOMAIN runs :
       /\ fut[i].mv.todo \subseteq DOMAIN runs[i].view
       /\ fut[i].mv.pc \in {"refresh", "refreshed"} => fut[i].mv.todo # {}
TickType ==
  /\ tick \in [Ticks -> TickRows]
  /\ \A t \in Ticks :
       /\ tick[t].run <= Len(runs)
       /\ tick[t].pc # "idle" => tick[t].run # 0
       /\ tick[t].pc = "mvs read" /\ tick[t].k # 0 => tick[t].k \in DOMAIN runs[tick[t].run].view
BuiltType ==
  /\ DOMAIN built = Reports
  /\ \A r \in Reports : built[r] # NoPlan => built[r] \in BuiltOf(r) /\ built[r].seen <= Len(frun)
LockType == \A x \in DOMAIN locks : locks[x] \in DOMAIN runs
TypeInv ==
  /\ target \in [Flows -> Targets] /\ server \in Servers
  /\ BuiltType /\ RunsType /\ FrunType /\ FutType /\ TickType /\ LockType

(***************************************************************************)
(* Operators of the model.                                                 *)
(***************************************************************************)

\* The least element of a nonempty set of naturals.
LEMMA MinIn ==
  ASSUME NEW S, S \subseteq Nat, S # {}
  PROVE  Min(S) \in S /\ \A y \in S : Min(S) <= y
<1> DEFINE T == {1..k : k \in S}
<1>1. T \subseteq FiniteSubsetsOf(Nat) /\ T # {}
  <2>1. ASSUME NEW k \in S PROVE 1..k \in FiniteSubsetsOf(Nat)
    <3>1. IsFiniteSet(1..k) /\ 1..k \subseteq Nat
      BY FS_Interval
    <3> QED BY <3>1 DEF FiniteSubsetsOf
  <2> QED BY <2>1
<1>2. IsWellFoundedOn(StrictSubsetOrdering(Nat), FiniteSubsetsOf(Nat))
  BY FS_StrictSubsetOrderingWellFounded
<1>3. PICK x \in T : \A y \in T : ~ (<<y, x>> \in StrictSubsetOrdering(Nat))
  <2> HIDE DEF T
  <2> QED BY <1>1, <1>2, WFMin
<1>4. PICK m \in S : x = 1..m
  OBVIOUS
<1>5. ASSUME NEW k \in S PROVE m <= k
  <2>1. SUFFICES ASSUME k < m PROVE FALSE
    OBVIOUS
  <2>2. 1..k \subseteq 1..m /\ m \in 1..m /\ m \notin 1..k
    BY <2>1
  <2>3. <<1..k, 1..m>> \in StrictSubsetOrdering(Nat)
    BY <2>2 DEF StrictSubsetOrdering
  <2> QED BY <1>3, <1>4, <2>3
<1> QED BY <1>5 DEF Min

\* The greatest element of a nonempty set of positions.
LEMMA MaxIn ==
  ASSUME NEW n \in Nat, NEW S \in SUBSET (1..n), S # {}
  PROVE  Max(S) \in S /\ \A y \in S : y <= Max(S)
<1> DEFINE U == {n - k : k \in S}
<1>0. \A k \in S : k \in Nat /\ k <= n
  OBVIOUS
<1>1. U \subseteq Nat /\ U # {}
  <2>1. PICK k \in S : TRUE
    OBVIOUS
  <2>2. n - k \in U
    BY <2>1
  <2> QED  BY <1>0, <2>2
<1>2. Min(U) \in U /\ \A y \in U : Min(U) <= y
  <2> HIDE DEF U
  <2> QED BY <1>1, MinIn
<1>3. PICK m \in S : Min(U) = n - m
  BY <1>2
<1>4. ASSUME NEW k \in S PROVE k <= m
  <2>1. n - k \in U
    OBVIOUS
  <2>2. n - m <= n - k
    BY <1>2, <1>3, <2>1
  <2> QED  BY <1>0, <2>2
<1> QED BY <1>4 DEF Max

\* An element of a sequence is replaced.
LEMMA SeqUpdate ==
  ASSUME NEW S, NEW s \in Seq(S), NEW i \in DOMAIN s, NEW e \in S
  PROVE  /\ [s EXCEPT ![i] = e] \in Seq(S)
         /\ Len([s EXCEPT ![i] = e]) = Len(s)
         /\ DOMAIN [s EXCEPT ![i] = e] = DOMAIN s
         /\ [s EXCEPT ![i] = e][i] = e
         /\ \A j \in DOMAIN s : j # i => [s EXCEPT ![i] = e][j] = s[j]
OBVIOUS

\* The type of a row of pipeline_runs, its futures and its locks.
LEMMA RowType ==
  ASSUME TypeInv, NEW i \in DOMAIN runs
  PROVE  /\ runs[i].report \in Reports /\ runs[i] \in RunsOf(runs[i].report)
         /\ i \in 1..MaxRuns /\ i \in 1..Len(runs) /\ fut[i] \in Futures
         /\ Len(runs) \in Nat /\ DOMAIN runs = 1..Len(runs)
         /\ fut[i].mv.todo \subseteq DOMAIN runs[i].view
         /\ fut[i].mv.pc \in {"refresh", "refreshed"} => fut[i].mv.todo # {}
<1>1. runs \in Seq(AllRuns) /\ Len(runs) <= MaxRuns /\ MaxRuns \in Nat
  BY ShapeAssumption DEF TypeInv, RunsType
<1>2. i \in 1..Len(runs) /\ Len(runs) \in Nat /\ runs[i] \in AllRuns
  BY <1>1
<1>3. PICK r \in Reports : runs[i] \in RunsOf(r)
  BY <1>2 DEF AllRuns
<1>4. runs[i].report = r
  BY <1>3 DEF RunsOf
<1> QED  BY <1>1, <1>2, <1>3, <1>4 DEF TypeInv, FutType

\* The fields of a row.
LEMMA RowFields ==
  ASSUME NEW r \in Reports, NEW row \in RunsOf(r)
  PROVE  /\ row.report = r /\ row.stage \in Stages /\ row.pbi \in PbiSteps /\ row.lease \in Leases
         /\ row.goal \in [DOMAIN PlanFlows[r] -> Targets]
         /\ row.flow \in [DOMAIN PlanFlows[r] -> FlowSteps] /\ row.view \in [DOMAIN PlanViews[r] -> ViewSteps]
         /\ DOMAIN row.flow = DOMAIN PlanFlows[r] /\ DOMAIN row.view = DOMAIN PlanViews[r]
         /\ DOMAIN row.goal = DOMAIN PlanFlows[r]
         /\ row.seen \in Nat /\ row.born \in Nat /\ row.hurt \subseteq Harms
         /\ \E n \in Nat : DOMAIN row.view = 1..n
         /\ \E n \in Nat : DOMAIN row.flow = 1..n
         /\ DOMAIN row.view \subseteq Nat \ {0} /\ DOMAIN row.flow \subseteq Nat \ {0}
<1>1. PlanFlows[r] \in Seq(Flows) /\ PlanViews[r] \in Seq(Views)
  BY ShapeAssumption
<1>2. /\ DOMAIN PlanFlows[r] = 1..Len(PlanFlows[r]) /\ Len(PlanFlows[r]) \in Nat
      /\ DOMAIN PlanViews[r] = 1..Len(PlanViews[r]) /\ Len(PlanViews[r]) \in Nat
  BY <1>1
<1>3. /\ row.report = r /\ row.stage \in Stages /\ row.pbi \in PbiSteps /\ row.lease \in Leases
      /\ row.goal \in [DOMAIN PlanFlows[r] -> Targets]
      /\ row.flow \in [DOMAIN PlanFlows[r] -> FlowSteps] /\ row.view \in [DOMAIN PlanViews[r] -> ViewSteps]
      /\ row.seen \in Nat /\ row.born \in Nat /\ row.hurt \subseteq Harms
  BY DEF RunsOf
<1> QED  BY <1>2, <1>3

(***************************************************************************)
(* A step that changes one row.                                            *)
(***************************************************************************)
RowBecomes(i, row) ==
  /\ Len(runs') = Len(runs) /\ DOMAIN runs' = DOMAIN runs /\ runs'[i] = row
  /\ \A j \in DOMAIN runs : j # i => runs'[j] = runs[j]
Released(i) ==
  /\ DOMAIN locks' = {x \in DOMAIN locks : locks[x] # i}
  /\ \A x \in DOMAIN locks' : locks'[x] = locks[x]
Skipped(old, new) ==
  /\ DOMAIN new = DOMAIN old
  /\ \A k \in DOMAIN old : new[k] = IF old[k].st = "pending" THEN [old[k] EXCEPT !.st = "skipped"] ELSE old[k]
\* What _fail_pipeline makes of a row.
Failed(run, row) ==
  /\ row.stage = "failed" /\ row.report = run.report /\ row.goal = run.goal /\ row.server = run.server
  /\ row.lease = run.lease /\ row.seen = run.seen /\ row.born = run.born /\ row.hurt = run.hurt
  /\ Skipped(run.flow, row.flow) /\ Skipped(run.view, row.view)
  /\ row.pbi = SkipPbi(run.pbi)
Ends(i, run, row) ==
  \/ run.stage \in Terminal /\ row = run /\ locks' = locks
  \/ run.stage \notin Terminal /\ Failed(run, row) /\ Released(i)

\* A row is replaced by another of the same report.
LEMMA RowUpdate ==
  ASSUME TypeInv, NEW i \in DOMAIN runs, NEW row \in RunsOf(runs[i].report),
         runs' = [runs EXCEPT ![i] = row]
  PROVE  RowBecomes(i, row) /\ runs' \in Seq(AllRuns)
<1>1. runs \in Seq(AllRuns) /\ runs[i].report \in Reports
  BY RowType DEF TypeInv, RunsType
<1>2. row \in AllRuns
  BY <1>1 DEF AllRuns
<1> QED  BY <1>1, <1>2, SeqUpdate DEF RowBecomes

\* Skip marks the pending steps as skipped and keeps the others.
LEMMA SkipType ==
  ASSUME NEW D, NEW T, NEW s \in [D -> T], T \in {FlowSteps, ViewSteps}
  PROVE  Skip(s) \in [D -> T] /\ Skipped(s, Skip(s))
<1>1. \A k \in D : s[k] \in T
  OBVIOUS
<1>2. ASSUME NEW x \in T PROVE [x EXCEPT !.st = "skipped"] \in T
  <2>1. CASE T = FlowSteps
    BY <2>1 DEF FlowSteps, StepStatus
  <2>2. CASE T = ViewSteps
    BY <2>2 DEF ViewSteps, StepStatus
  <2> QED  BY <2>1, <2>2
<1> QED  BY <1>1, <1>2 DEF Skip, Skipped

\* _fail_pipeline replaces the row of run i, or keeps it once it is terminal.
LEMMA FailsEffect ==
  ASSUME TypeInv, NEW i \in DOMAIN runs, NEW run \in RunsOf(runs[i].report), NEW inspect \in BOOLEAN,
         Fails(i, run, inspect)
  PROVE  /\ runs' \in Seq(AllRuns)
         /\ \E row \in RunsOf(runs[i].report) : RowBecomes(i, row) /\ Ends(i, run, row)
<1> DEFINE r == runs[i].report
<1>0. r \in Reports /\ run \in RunsOf(r)
  BY RowType
<1>1. CASE run.stage \in Terminal
  BY <1>1, RowUpdate DEF Fails, Ends
<1>2. CASE run.stage \notin Terminal
  <2> DEFINE row == [run EXCEPT !.stage = "failed", !.inspect = inspect, !.flow = Skip(@),
                        !.view = Skip(@), !.pbi = SkipPbi(@)]
  <2>1. Skip(run.flow) \in [DOMAIN PlanFlows[r] -> FlowSteps] /\ Skipped(run.flow, Skip(run.flow))
    BY <1>0, RowFields, SkipType
  <2>2. Skip(run.view) \in [DOMAIN PlanViews[r] -> ViewSteps] /\ Skipped(run.view, Skip(run.view))
    BY <1>0, RowFields, SkipType
  <2>3. SkipPbi(run.pbi) \in PbiSteps
    BY <1>0, RowFields DEF SkipPbi, PbiSteps, StepStatus
  <2>4. row \in RunsOf(r)
    BY <1>0, <2>1, <2>2, <2>3 DEF RunsOf, Stages, Terminal
  <2>5. Failed(run, row)
    BY <1>0, <2>1, <2>2 DEF Failed, RunsOf
  <2>6. runs' = [runs EXCEPT ![i] = row]
    BY <1>2 DEF Fails
  <2>7. Released(i)
    BY <1>2 DEF Fails, Released
  <2> HIDE DEF row
  <2> QED  BY <1>2, <2>4, <2>5, <2>6, <2>7, RowUpdate DEF Ends
<1> QED  BY <1>1, <1>2

(***************************************************************************)
(* What the steps on one run change.                                       *)
(***************************************************************************)
\* The fields of a row that are not in F stay.
Same(run, row, F) ==
  /\ row.report = run.report /\ row.goal = run.goal /\ row.server = run.server
  /\ row.seen = run.seen /\ row.born = run.born
  /\ "stage" \notin F => row.stage = run.stage
  /\ "lease" \notin F => row.lease = run.lease
  /\ "hurt" \notin F => row.hurt = run.hurt
  /\ "flow" \notin F => row.flow = run.flow
  /\ "view" \notin F => row.view = run.view
  /\ "pbi" \notin F => row.pbi = run.pbi
Acts(i, row) == RowBecomes(i, row) /\ row \in RunsOf(runs[i].report)
Stays(i) == RowBecomes(i, runs[i]) /\ locks' = locks
TickBecomes(t, row) == tick'[t] = row /\ \A s \in Ticks : s # t => tick'[s] = tick[s]
TickGoes(t, pc) ==
  /\ tick'[t].pc = pc /\ tick'[t].run = tick[t].run /\ \A s \in Ticks : s # t => tick'[s] = tick[s]
FutBecomes(i, row) == fut'[i] = row /\ \A j \in 1..MaxRuns : j # i => fut'[j] = fut[j]

\* The run of a tick at work.
LEMMA TickRun ==
  ASSUME TypeInv, NEW t \in Ticks, tick[t].pc # "idle"
  PROVE  tick[t].run \in DOMAIN runs /\ OnRun(t, tick[t].run)
<1>1. tick[t].run \in Nat /\ tick[t].run # 0 /\ tick[t].run <= Len(runs) /\ runs \in Seq(AllRuns)
  BY DEF TypeInv, TickType, TickRows, RunsType
<1> QED  BY <1>1 DEF OnRun

LocalRuns(i, row) == runs' \in Seq(AllRuns) /\ UNCHANGED <<target, built>> /\ server' \in Servers
LocalFrun(i, row) ==
  /\ frun' \in Seq(FlowRuns) /\ Len(frun) <= Len(frun')
  /\ \A j \in DOMAIN frun' : frun'[j].parent <= Len(runs)
  /\ \A k \in DOMAIN row.flow : row.flow[k].run <= Len(frun')
LocalFut(i, row) ==
  /\ fut' \in [1..MaxRuns -> Futures] /\ \A j \in 1..MaxRuns : j # i => fut'[j] = fut[j]
  /\ fut'[i].mv.todo \subseteq DOMAIN row.view
  /\ fut'[i].mv.pc \in {"refresh", "refreshed"} => fut'[i].mv.todo # {}
LocalTick(i, row) ==
  /\ tick' \in [Ticks -> TickRows]
  /\ \A t \in Ticks : \/ tick'[t] = tick[t] \/ tick'[t] = Idle
                      \/ /\ tick'[t].run = i
                         /\ tick'[t].pc = "mvs read" /\ tick'[t].k # 0 => tick'[t].k \in DOMAIN row.view
LocalLocks == \A x \in DOMAIN locks' : x \in DOMAIN locks /\ locks'[x] = locks[x]

\* TypeInv after a step that changes the row, the futures and a tick of one run.
LEMMA LocalTypes ==
  ASSUME TypeInv, NEW i \in DOMAIN runs, NEW row, Acts(i, row),
         LocalRuns(i, row), LocalFrun(i, row), LocalFut(i, row), LocalTick(i, row), LocalLocks
  PROVE  TypeInv'
<1>0. /\ i \in 1..Len(runs) /\ Len(runs) \in Nat /\ DOMAIN runs = 1..Len(runs) /\ DOMAIN runs' = DOMAIN runs
      /\ Len(runs') = Len(runs) /\ runs'[i] = row /\ \A j \in DOMAIN runs : j # i => runs'[j] = runs[j]
  BY RowType DEF Acts, RowBecomes
<1>1. \A j \in DOMAIN runs : DOMAIN runs'[j].view = DOMAIN runs[j].view
  <2> DEFINE r == runs[i].report
  <2>0. r \in Reports /\ runs[i] \in RunsOf(r) /\ row \in RunsOf(r)
    BY RowType DEF Acts
  <2> HIDE DEF r
  <2>1. DOMAIN row.view = DOMAIN PlanViews[r] /\ DOMAIN runs[i].view = DOMAIN PlanViews[r]
    BY <2>0, RowFields
  <2> QED  BY <1>0, <2>1
<1>2. RunsType'
  BY <1>0 DEF TypeInv, RunsType, LocalRuns
<1>3. FrunType'
  <2>a. frun \in Seq(FlowRuns) /\ frun' \in Seq(FlowRuns)
    BY DEF TypeInv, FrunType, LocalFrun
  <2>0. Len(frun) \in Nat /\ Len(frun') \in Nat
    BY <2>a
  <2>1. \A j \in DOMAIN runs : \A k \in DOMAIN runs'[j].flow : runs'[j].flow[k].run <= Len(frun')
    <3> SUFFICES ASSUME NEW j \in DOMAIN runs, NEW k \in DOMAIN runs'[j].flow PROVE runs'[j].flow[k].run <= Len(frun')
      OBVIOUS
    <3>1. CASE j = i
      BY <1>0, <3>1 DEF LocalFrun
    <3>2. CASE j # i
      <4>1. runs'[j] = runs[j] /\ runs[j].flow[k].run <= Len(frun)
        BY <1>0, <3>2 DEF TypeInv, FrunType
      <4>2. runs[j].report \in Reports /\ runs[j].flow \in [DOMAIN PlanFlows[runs[j].report] -> FlowSteps]
        BY RowType, RowFields
      <4>3. runs[j].flow[k].run \in Nat
        BY <4>1, <4>2, <3>2 DEF FlowSteps
      <4>4. Len(frun) <= Len(frun')
        BY DEF LocalFrun
      <4> QED  BY <2>0, <4>1, <4>3, <4>4
    <3> QED  BY <3>1, <3>2
  <2> QED  BY <1>0, <2>1 DEF FrunType, LocalFrun
<1>4. FutType'
  <2>1. \A j \in 1..MaxRuns : j > Len(runs) => fut'[j] = NoFutures
    BY <1>0 DEF TypeInv, FutType, LocalFut
  <2>2. ASSUME NEW j \in DOMAIN runs
        PROVE  /\ fut'[j].mv.todo \subseteq DOMAIN runs'[j].view
               /\ fut'[j].mv.pc \in {"refresh", "refreshed"} => fut'[j].mv.todo # {}
    <3>1. CASE j = i
      BY <1>0, <3>1 DEF LocalFut
    <3>2. CASE j # i
      BY <1>0, <3>2, RowType DEF LocalFut
    <3> QED  BY <3>1, <3>2
  <2> QED  BY <1>0, <2>1, <2>2 DEF FutType, LocalFut
<1>5. TickType'
  <2> SUFFICES ASSUME NEW t \in Ticks
               PROVE  /\ tick'[t].run <= Len(runs)
                      /\ tick'[t].pc # "idle" => tick'[t].run # 0
                      /\ tick'[t].pc = "mvs read" /\ tick'[t].k # 0 => tick'[t].k \in DOMAIN runs'[tick'[t].run].view
    BY <1>0 DEF TickType, LocalTick
  <2>0. /\ tick[t].run <= Len(runs) /\ tick[t].run \in Nat
        /\ tick[t].pc # "idle" => tick[t].run # 0
        /\ tick[t].pc = "mvs read" /\ tick[t].k # 0 => tick[t].k \in DOMAIN runs[tick[t].run].view
    BY DEF TypeInv, TickType, TickRows
  <2>1. CASE tick'[t] = tick[t]
    <3>1. tick[t].pc = "mvs read" => tick[t].run \in DOMAIN runs
      BY TickRun
    <3> QED  BY <1>1, <2>0, <2>1, <3>1
  <2>2. CASE tick'[t] = Idle
    <3>1. tick'[t].pc = "idle" /\ tick'[t].run = 0
      BY <2>2 DEF Idle
    <3> QED  BY <1>0, <3>1
  <2>3. CASE /\ tick'[t].run = i
             /\ tick'[t].pc = "mvs read" /\ tick'[t].k # 0 => tick'[t].k \in DOMAIN row.view
    <3>1. i <= Len(runs) /\ i # 0 /\ runs'[i] = row
      BY <1>0
    <3> QED  BY <2>3, <3>1
  <2> QED  BY <2>1, <2>2, <2>3 DEF LocalTick
<1>6. BuiltType'
  <2>a. frun \in Seq(FlowRuns) /\ frun' \in Seq(FlowRuns) /\ Len(frun) <= Len(frun')
    BY DEF TypeInv, FrunType, LocalFrun
  <2>b. Len(frun) \in Nat /\ Len(frun') \in Nat
    BY <2>a
  <2>0. Len(frun) <= Len(frun') /\ built' = built /\ BuiltType
    BY <2>a DEF TypeInv, LocalRuns
  <2>1. ASSUME NEW r \in Reports, built[r] # NoPlan PROVE built[r] \in BuiltOf(r) /\ built[r].seen <= Len(frun')
    <3>1. built[r] \in BuiltOf(r) /\ built[r].seen <= Len(frun)
      BY <2>0, <2>1 DEF BuiltType
    <3>2. built[r].seen \in Nat
      BY <3>1 DEF BuiltOf
    <3> QED  BY <2>0, <2>b, <3>1, <3>2
  <2> QED  BY <2>0, <2>1 DEF BuiltType
<1>7. LockType'
  BY <1>0 DEF TypeInv, LockType, LocalLocks
<1> QED  BY <1>2, <1>3, <1>4, <1>5, <1>6, <1>7 DEF TypeInv, LocalRuns

\* A tick moves to another step.
LEMMA GotoEffect ==
  ASSUME TypeInv, NEW t \in Ticks, NEW pc \in {"idle", "release"} \cup EarlyTicks \cup MvTicks \cup PbiTicks, Goto(t, pc)
  PROVE  TickGoes(t, pc) /\ tick' \in [Ticks -> TickRows]
<1>1. tick \in [Ticks -> TickRows]
  BY DEF TypeInv, TickType
<1>2. tick[t] \in TickRows
  BY <1>1
<1>3. tick' = [tick EXCEPT ![t] = [tick[t] EXCEPT !.pc = pc]]
  BY DEF Goto
<1>4. [tick[t] EXCEPT !.pc = pc] \in TickRows /\ [tick[t] EXCEPT !.pc = pc].pc = pc /\ [tick[t] EXCEPT !.pc = pc].run = tick[t].run
  BY <1>2 DEF TickRows
<1> QED  BY <1>1, <1>3, <1>4 DEF TickGoes

\* An unchanged table of runs.
LEMMA NoRowChanges ==
  ASSUME TypeInv, NEW i \in DOMAIN runs, runs' = runs
  PROVE  Acts(i, runs[i]) /\ Same(runs[i], runs[i], {}) /\ runs' \in Seq(AllRuns)
<1>1. runs \in Seq(AllRuns) /\ runs[i] \in RunsOf(runs[i].report)
  BY RowType DEF TypeInv, RunsType
<1> QED  BY <1>1 DEF Acts, RowBecomes, Same

\* A row with another stage.
LEMMA StageChanges ==
  ASSUME NEW r \in Reports, NEW run \in RunsOf(r), NEW stage \in Stages
  PROVE  LET row == SetStage(run, stage)
         IN  row \in RunsOf(r) /\ Same(run, row, {"stage"}) /\ row.stage = stage
BY DEF RunsOf, SetStage, Same

\* A row that has met a fault.
LEMMA HurtChanges ==
  ASSUME TypeInv, NEW i \in DOMAIN runs, NEW how \in Harms, NEW when
  PROVE  LET row == Hurt(i, how, when)
         IN  /\ row \in RunsOf(runs[i].report) /\ Same(runs[i], row, {"hurt"})
             /\ row.hurt = runs[i].hurt \cup IF when THEN {how} ELSE {}
BY RowType DEF RunsOf, Hurt, Same, Harms

\* A row with another lease.
LEMMA LeaseChanges ==
  ASSUME NEW r \in Reports, NEW run \in RunsOf(r), NEW lease \in Leases
  PROVE  LET row == [run EXCEPT !.lease = lease]
         IN  row \in RunsOf(r) /\ Same(run, row, {"lease"}) /\ row.lease = lease
BY DEF RunsOf, Same

\* A row with other flow steps.
LEMMA FlowChanges ==
  ASSUME NEW r \in Reports, NEW run \in RunsOf(r), NEW flow \in [DOMAIN PlanFlows[r] -> FlowSteps]
  PROVE  LET row == [run EXCEPT !.flow = flow]
         IN  row \in RunsOf(r) /\ Same(run, row, {"flow"}) /\ row.flow = flow
BY DEF RunsOf, Same

\* A row with other view steps.
LEMMA ViewChanges ==
  ASSUME NEW r \in Reports, NEW run \in RunsOf(r), NEW view \in [DOMAIN PlanViews[r] -> ViewSteps]
  PROVE  LET row == [run EXCEPT !.view = view]
         IN  row \in RunsOf(r) /\ Same(run, row, {"view"}) /\ row.view = view
BY DEF RunsOf, Same

\* A row with another dataset step.
LEMMA PbiChanges ==
  ASSUME NEW r \in Reports, NEW run \in RunsOf(r), NEW pbi \in PbiSteps
  PROVE  LET row == [run EXCEPT !.pbi = pbi]
         IN  row \in RunsOf(r) /\ Same(run, row, {"pbi"}) /\ row.pbi = pbi
BY DEF RunsOf, Same

(***************************************************************************)
(* The effect of each step of a tick.                                      *)
(***************************************************************************)

\* The steps of a run are those of its plan.
LEMMA SameShape ==
  ASSUME TypeInv, NEW i \in DOMAIN runs, NEW row, Acts(i, row)
  PROVE  /\ DOMAIN row.flow = DOMAIN runs[i].flow /\ DOMAIN row.view = DOMAIN runs[i].view
         /\ runs[i].report \in Reports /\ row \in RunsOf(runs[i].report) /\ row.report = runs[i].report
<1> DEFINE r == runs[i].report
<1>1. r \in Reports /\ runs[i] \in RunsOf(r) /\ row \in RunsOf(r)
  BY RowType DEF Acts
<1> HIDE DEF r
<1>2. DOMAIN row.flow = DOMAIN runs[i].flow /\ DOMAIN row.view = DOMAIN runs[i].view /\ row.report = r
  BY <1>1, RowFields
<1> QED  BY <1>1, <1>2 DEF r

\* A transaction that writes the row of run i and no lock.
LEMMA UpdateEffect ==
  ASSUME TypeInv, NEW i \in DOMAIN runs, NEW row \in RunsOf(runs[i].report), Update(i, row)
  PROVE  Acts(i, runs'[i]) /\ runs'[i] = row /\ runs' \in Seq(AllRuns) /\ locks' = locks /\ LocalLocks
<1>1. RowBecomes(i, row) /\ runs' \in Seq(AllRuns) /\ locks' = locks
  BY RowUpdate DEF Update
<1> QED  BY <1>1 DEF Acts, RowBecomes, LocalLocks

\* A transaction that ends run i.
LEMMA FailEffect ==
  ASSUME TypeInv, NEW i \in DOMAIN runs, NEW run \in RunsOf(runs[i].report), NEW inspect \in BOOLEAN,
         Fails(i, run, inspect)
  PROVE  /\ Acts(i, runs'[i]) /\ Ends(i, run, runs'[i]) /\ runs' \in Seq(AllRuns) /\ LocalLocks
         /\ \A k \in DOMAIN runs[i].flow : runs'[i].flow[k].run = run.flow[k].run
<1>1. PICK row \in RunsOf(runs[i].report) : RowBecomes(i, row) /\ Ends(i, run, row) /\ runs' \in Seq(AllRuns)
  BY FailsEffect
<1>2. runs'[i] = row /\ Acts(i, row)
  BY <1>1 DEF RowBecomes, Acts
<1>3. LocalLocks
  BY <1>1 DEF Ends, Released, LocalLocks
<1>4. \A k \in DOMAIN runs[i].flow : row.flow[k].run = run.flow[k].run
  <2> DEFINE r == runs[i].report
  <2>1. r \in Reports /\ run \in RunsOf(r) /\ runs[i] \in RunsOf(r)
    BY RowType
  <2> HIDE DEF r
  <2>2. DOMAIN runs[i].flow = DOMAIN run.flow /\ run.flow \in [DOMAIN run.flow -> FlowSteps]
    BY <2>1, RowFields
  <2> QED  BY <1>1, <2>2 DEF Ends, Failed, Skipped, FlowSteps
<1> QED  BY <1>1, <1>2, <1>3, <1>4

\* The type of the flow runs.
LEMMA FrunFacts ==
  ASSUME TypeInv
  PROVE  /\ frun \in Seq(FlowRuns) /\ Len(frun) \in Nat /\ DOMAIN frun = 1..Len(frun) /\ Len(frun) <= Len(frun)
         /\ \A j \in DOMAIN frun : frun[j] \in FlowRuns /\ frun[j].parent <= Len(runs)
<1>1. frun \in Seq(FlowRuns) /\ \A j \in DOMAIN frun : frun[j].parent <= Len(runs)
  BY DEF TypeInv, FrunType
<1>2. Len(frun) \in Nat /\ DOMAIN frun = 1..Len(frun) /\ \A j \in DOMAIN frun : frun[j] \in FlowRuns
  BY <1>1
<1>3. Len(frun) <= Len(frun)
  BY <1>2
<1> QED  BY <1>1, <1>2, <1>3

\* A tick step that leaves the flow runs and the futures alone.
LEMMA TickTypes ==
  ASSUME TypeInv, NEW i \in DOMAIN runs, NEW t \in Ticks, OnRun(t, i), NEW pc,
         Acts(i, runs'[i]), runs' \in Seq(AllRuns), UNCHANGED <<target, built, server, frun, fut>>,
         TickGoes(t, pc), pc # "mvs read", tick' \in [Ticks -> TickRows],
         \A k \in DOMAIN runs[i].flow : runs'[i].flow[k].run = runs[i].flow[k].run,
         LocalLocks
  PROVE  TypeInv'
<1>0. DOMAIN runs'[i].flow = DOMAIN runs[i].flow /\ DOMAIN runs'[i].view = DOMAIN runs[i].view
  BY SameShape
<1>1. LocalRuns(i, runs'[i])
  BY DEF LocalRuns, TypeInv
<1>2. LocalFrun(i, runs'[i])
  <2>2. frun \in Seq(FlowRuns) /\ (\A j \in DOMAIN frun : frun[j].parent <= Len(runs)) /\ \A k \in DOMAIN runs[i].flow : runs[i].flow[k].run <= Len(frun)
    BY DEF TypeInv, FrunType
  <2>3. Len(frun) <= Len(frun)
    BY FrunFacts
  <2> QED  BY <1>0, <2>2, <2>3 DEF LocalFrun
<1>3. LocalFut(i, runs'[i])
  <2> QED  BY <1>0, RowType DEF TypeInv, FutType, LocalFut
<1>4. LocalTick(i, runs'[i])
  BY DEF LocalTick, TickGoes, OnRun
<1> QED  BY <1>1, <1>2, <1>3, <1>4, LocalTypes

\* A tick in stage queued moves the run to its first stage.
LEMMA TickQueuedEffect ==
  ASSUME TypeInv, NEW t \in Ticks, NEW i \in DOMAIN runs, OnRun(t, i), TickQueued(t)
  PROVE  /\ TypeInv' /\ tick[t].pc = "queued"
         /\ Acts(i, runs'[i]) /\ Same(runs[i], runs'[i], {"stage"})
         /\ UNCHANGED <<target, built, server, frun, fut, locks>>
         /\ \/ /\ runs[i].flow = <<>> /\ runs'[i].stage = AfterFlows(runs[i]) /\ TickGoes(t, "release")
            \/ runs[i].flow # <<>> /\ runs'[i].stage = "preparing_workers" /\ TickGoes(t, "launch")
<1> DEFINE r == runs[i].report
           none == runs[i].flow = <<>>
           row == SetStage(runs[i], IF none THEN AfterFlows(runs[i]) ELSE "preparing_workers")
<1>0. r \in Reports /\ runs[i] \in RunsOf(r)
  BY RowType
<1>1. /\ tick[t].pc = "queued" /\ Update(i, row)
      /\ Goto(t, IF none THEN "release" ELSE "launch") /\ UNCHANGED <<target, built, server, frun, fut>>
  BY DEF TickQueued, OnRun
<1>2. (IF none THEN AfterFlows(runs[i]) ELSE "preparing_workers") \in Stages
  BY DEF AfterFlows, Stages
<1>3. row \in RunsOf(r) /\ Same(runs[i], row, {"stage"})
      /\ row.stage = (IF none THEN AfterFlows(runs[i]) ELSE "preparing_workers")
  BY <1>0, <1>2, StageChanges
<1> HIDE DEF row
<1>4. Acts(i, runs'[i]) /\ runs'[i] = row /\ runs' \in Seq(AllRuns) /\ locks' = locks /\ LocalLocks
  BY <1>1, <1>3, UpdateEffect
<1>5. TickGoes(t, IF none THEN "release" ELSE "launch") /\ tick' \in [Ticks -> TickRows]
  BY <1>1, GotoEffect DEF EarlyTicks
<1>6. TypeInv'
  BY <1>1, <1>3, <1>4, <1>5, TickTypes DEF Same
<1> QED  BY <1>1, <1>3, <1>4, <1>5, <1>6

\* _submit_future: what becomes of the run whose future is wanted.
Submitted(i, kind, stage, future) ==
  /\ UNCHANGED <<target, built, server, frun>>
  /\ \/ /\ Live(i, kind)
        /\ Same(runs[i], runs'[i], {}) /\ UNCHANGED <<fut, runs, locks>>
     \/ /\ ~Live(i, kind) /\ server.up = "serving"
        /\ FutBecomes(i, future) /\ Same(runs[i], runs'[i], {"hurt"}) /\ UNCHANGED locks
        /\ runs'[i].hurt = runs[i].hurt \cup IF runs[i].stage # stage THEN {"stale"} ELSE {}
     \/ /\ ~Live(i, kind) /\ server.up # "serving"
        /\ Ends(i, runs[i], runs'[i]) /\ UNCHANGED fut

\* _submit_future starts the future, finds it live, or ends the run.
LEMMA SubmitEffect ==
  ASSUME TypeInv, NEW t \in Ticks, NEW i \in DOMAIN runs, OnRun(t, i),
         NEW kind, NEW stage, NEW future \in Futures,
         future.mv.todo \subseteq DOMAIN runs[i].view,
         future.mv.pc \in {"refresh", "refreshed"} => future.mv.todo # {},
         Submit(t, i, kind, stage, future), UNCHANGED <<target, built, server, frun>>
  PROVE  /\ TypeInv' /\ TickGoes(t, "release") /\ Acts(i, runs'[i])
         /\ Submitted(i, kind, stage, future)
<1>0. runs[i].report \in Reports /\ runs[i] \in RunsOf(runs[i].report) /\ i \in 1..MaxRuns
  BY RowType
<1>1. TickGoes(t, "release") /\ tick' \in [Ticks -> TickRows]
  BY GotoEffect DEF Submit
<1>2. CASE Live(i, kind)
  <2>1. UNCHANGED <<fut, runs, locks>>
    BY <1>2 DEF Submit
  <2>2. Acts(i, runs[i]) /\ Same(runs[i], runs[i], {}) /\ runs' \in Seq(AllRuns) /\ runs'[i] = runs[i] /\ LocalLocks
    BY <2>1, NoRowChanges DEF LocalLocks
  <2>3. TypeInv'
    BY <1>1, <2>1, <2>2, TickTypes
  <2> QED  BY <1>1, <1>2, <2>1, <2>2, <2>3 DEF Submitted
<1>3. CASE ~Live(i, kind) /\ server.up = "serving"
  <2> DEFINE row == Hurt(i, "stale", runs[i].stage # stage)
  <2>1. fut' = [fut EXCEPT ![i] = future] /\ Update(i, row)
    BY <1>3 DEF Submit
  <2>2. row \in RunsOf(runs[i].report) /\ Same(runs[i], row, {"hurt"})
        /\ row.hurt = runs[i].hurt \cup IF runs[i].stage # stage THEN {"stale"} ELSE {}
    BY HurtChanges DEF Harms
  <2> HIDE DEF row
  <2>3. Acts(i, runs'[i]) /\ runs'[i] = row /\ runs' \in Seq(AllRuns) /\ locks' = locks /\ LocalLocks
    BY <2>1, <2>2, UpdateEffect
  <2>4. FutBecomes(i, future) /\ fut' \in [1..MaxRuns -> Futures]
    BY <1>0, <2>1 DEF TypeInv, FutType, FutBecomes
  <2>5. LocalRuns(i, row)
    BY <2>3 DEF LocalRuns, TypeInv
  <2>6. LocalFrun(i, row)
    <3>1. frun \in Seq(FlowRuns) /\ (\A j \in DOMAIN frun : frun[j].parent <= Len(runs)) /\ \A k \in DOMAIN runs[i].flow : runs[i].flow[k].run <= Len(frun)
      BY DEF TypeInv, FrunType
    <3>2. Len(frun) <= Len(frun)
      BY FrunFacts
    <3> QED  BY <2>2, <3>1, <3>2 DEF LocalFrun, Same
  <2>7. LocalFut(i, row)
    BY <2>2, <2>4 DEF LocalFut, FutBecomes, Same
  <2>8. LocalTick(i, row)
    BY <1>1 DEF LocalTick, TickGoes, OnRun
  <2>9. TypeInv'
    BY <2>3, <2>5, <2>6, <2>7, <2>8, LocalTypes
  <2> QED  BY <1>1, <1>3, <2>2, <2>3, <2>4, <2>9 DEF Submitted
<1>4. CASE ~Live(i, kind) /\ server.up # "serving"
  <2>1. Fails(i, runs[i], FALSE) /\ fut' = fut
    BY <1>4 DEF Submit, Fail
  <2>2. Acts(i, runs'[i]) /\ Ends(i, runs[i], runs'[i]) /\ runs' \in Seq(AllRuns) /\ LocalLocks
        /\ \A k \in DOMAIN runs[i].flow : runs'[i].flow[k].run = runs[i].flow[k].run
    BY <1>0, <2>1, FailEffect
  <2>3. TypeInv'
    BY <1>1, <2>1, <2>2, TickTypes
  <2> QED  BY <1>1, <1>4, <2>1, <2>2, <2>3 DEF Submitted
<1> QED  BY <1>2, <1>3, <1>4

\* A step that leaves the rows and the locks alone.
LEMMA NullUpdates ==
  ASSUME TypeInv, NEW i \in DOMAIN runs, UNCHANGED <<runs, locks>>
  PROVE  /\ Acts(i, runs'[i]) /\ Same(runs[i], runs'[i], {}) /\ runs'[i] = runs[i]
         /\ runs' \in Seq(AllRuns) /\ LocalLocks
BY NoRowChanges DEF LocalLocks

\* A tick hands the start of the workers to a future.
LEMMA TickLaunchEffect ==
  ASSUME TypeInv, NEW t \in Ticks, NEW i \in DOMAIN runs, OnRun(t, i), TickLaunch(t)
  PROVE  /\ TypeInv' /\ tick[t].pc = "launch" /\ TickGoes(t, "release") /\ Acts(i, runs'[i])
         /\ Submitted(i, "workers", "preparing_workers", [fut[i] EXCEPT !.workers = TRUE])
<1> DEFINE future == [fut[i] EXCEPT !.workers = TRUE]
<1>1. /\ fut[i] \in Futures /\ fut[i].mv.todo \subseteq DOMAIN runs[i].view
      /\ fut[i].mv.pc \in {"refresh", "refreshed"} => fut[i].mv.todo # {}
  BY RowType
<1>2. future \in Futures /\ future.mv = fut[i].mv
  BY <1>1 DEF Futures
<1>3. tick[t].pc = "launch" /\ Submit(t, i, "workers", "preparing_workers", future) /\ UNCHANGED <<target, built, server, frun>>
  BY DEF TickLaunch, OnRun
<1> HIDE DEF future
<1>4. TypeInv' /\ TickGoes(t, "release") /\ Acts(i, runs'[i]) /\ Submitted(i, "workers", "preparing_workers", future)
  BY <1>1, <1>2, <1>3, SubmitEffect
<1> QED  BY <1>3, <1>4 DEF future

\* A tick finds a worker offline and waits.
LEMMA TickWaitsEffect ==
  ASSUME TypeInv, NEW t \in Ticks, NEW i \in DOMAIN runs, OnRun(t, i), TickWaits(t)
  PROVE  /\ TypeInv' /\ tick[t].pc = "preparing_workers" /\ TickGoes(t, "release")
         /\ Acts(i, runs'[i]) /\ Same(runs[i], runs'[i], {})
         /\ UNCHANGED <<target, built, server, runs, frun, fut, locks>>
<1>1. tick[t].pc = "preparing_workers" /\ Goto(t, "release") /\ UNCHANGED <<target, built, server, runs, frun, fut, locks>>
  BY DEF TickWaits
<1>2. TickGoes(t, "release") /\ tick' \in [Ticks -> TickRows]
  BY <1>1, GotoEffect
<1>3. Acts(i, runs'[i]) /\ Same(runs[i], runs'[i], {}) /\ runs'[i] = runs[i] /\ runs' \in Seq(AllRuns) /\ LocalLocks
  BY <1>1, NullUpdates
<1>4. TypeInv'
  BY <1>1, <1>2, <1>3, TickTypes
<1> QED  BY <1>1, <1>2, <1>3, <1>4

\* A tick that ends its run.
TickEnds(t, i) ==
  /\ TickGoes(t, "release") /\ Acts(i, runs'[i]) /\ Ends(i, runs[i], runs'[i])
  /\ UNCHANGED <<target, built, server, frun, fut>>

\* A tick ends its run.
LEMMA TickEndsEffect ==
  ASSUME TypeInv, NEW t \in Ticks, NEW i \in DOMAIN runs, OnRun(t, i), NEW inspect \in BOOLEAN,
         Fail(i, inspect), Goto(t, "release"), UNCHANGED <<target, built, server, frun, fut>>
  PROVE  TypeInv' /\ TickEnds(t, i)
<1>1. runs[i] \in RunsOf(runs[i].report)
  BY RowType
<1>2. TickGoes(t, "release") /\ tick' \in [Ticks -> TickRows]
  BY GotoEffect
<1>3. Acts(i, runs'[i]) /\ Ends(i, runs[i], runs'[i]) /\ runs' \in Seq(AllRuns) /\ LocalLocks
      /\ \A k \in DOMAIN runs[i].flow : runs'[i].flow[k].run = runs[i].flow[k].run
  BY <1>1, FailEffect DEF Fail
<1>4. TypeInv'
  BY <1>2, <1>3, TickTypes
<1> QED  BY <1>2, <1>3, <1>4 DEF TickEnds

\* A tick finds the workers offline for too long.
LEMMA TickGivesUpEffect ==
  ASSUME TypeInv, NEW t \in Ticks, NEW i \in DOMAIN runs, OnRun(t, i), TickGivesUp(t)
  PROVE  TypeInv' /\ tick[t].pc = "preparing_workers" /\ TickEnds(t, i)
BY TickEndsEffect DEF TickGivesUp, OnRun

\* A tick ends the run whose view it could not account for.
LEMMA TickMvUnknownEffect ==
  ASSUME TypeInv, NEW t \in Ticks, NEW i \in DOMAIN runs, OnRun(t, i), TickMvUnknown(t)
  PROVE  TypeInv' /\ tick[t].pc = "mv unknown" /\ TickEnds(t, i)
BY TickEndsEffect DEF TickMvUnknown, OnRun

\* A tick moves the run to its flows.
LEMMA TickAdvanceEffect ==
  ASSUME TypeInv, NEW t \in Ticks, NEW i \in DOMAIN runs, OnRun(t, i), TickAdvance(t)
  PROVE  /\ TypeInv' /\ tick[t].pc = "advance" /\ TickGoes(t, "release")
         /\ Acts(i, runs'[i]) /\ Same(runs[i], runs'[i], {"stage"}) /\ runs'[i].stage = "running_flows"
         /\ UNCHANGED <<target, built, server, frun, fut, locks>>
<1> DEFINE r == runs[i].report
           row == SetStage(runs[i], "running_flows")
<1>0. r \in Reports /\ runs[i] \in RunsOf(r)
  BY RowType
<1>1. tick[t].pc = "advance" /\ Update(i, row) /\ Goto(t, "release") /\ UNCHANGED <<target, built, server, frun, fut>>
  BY DEF TickAdvance, OnRun
<1>2. row \in RunsOf(r) /\ Same(runs[i], row, {"stage"}) /\ row.stage = "running_flows"
  BY <1>0, StageChanges DEF Stages
<1> HIDE DEF row
<1>3. Acts(i, runs'[i]) /\ runs'[i] = row /\ runs' \in Seq(AllRuns) /\ locks' = locks /\ LocalLocks
  BY <1>1, <1>2, UpdateEffect
<1>4. TickGoes(t, "release") /\ tick' \in [Ticks -> TickRows]
  BY <1>1, GotoEffect
<1>5. TypeInv'
  BY <1>1, <1>2, <1>3, <1>4, TickTypes DEF Same
<1> QED  BY <1>1, <1>2, <1>3, <1>4, <1>5

\* The views are read: where a step is running, and whether the stage is half done.
LEMMA TickMvsEffect ==
  ASSUME TypeInv, NEW t \in Ticks, NEW i \in DOMAIN runs, OnRun(t, i), TickMvs(t)
  PROVE  /\ TypeInv' /\ tick[t].pc = "refreshing_mvs" /\ TickGoes(t, "mvs read")
         /\ UNCHANGED <<target, built, server, runs, frun, fut, locks>>
         /\ Acts(i, runs'[i]) /\ Same(runs[i], runs'[i], {})
         /\ \/ tick'[t].k = 0 /\ \A k \in DOMAIN runs[i].view : runs[i].view[k].st # "running"
            \/ tick'[t].k \in DOMAIN runs[i].view /\ tick'[t].k # 0 /\ runs[i].view[tick'[t].k].st = "running"
         /\ tick'[t].flag <=> Has(runs[i].view, "succeeded") /\ Has(runs[i].view, "pending")
<1> DEFINE r == runs[i].report
           view == runs[i].view
           running == {k \in DOMAIN view : view[k].st = "running"}
           flag == Has(view, "succeeded") /\ Has(view, "pending")
           k0 == IF running = {} THEN 0 ELSE Max(running)
           new == [tick[t] EXCEPT !.pc = "mvs read", !.k = k0, !.flag = flag]
<1>0. r \in Reports /\ runs[i] \in RunsOf(r)
  BY RowType
<1>1. PICK n \in Nat : DOMAIN view = 1..n
  BY <1>0, RowFields
<1>2. \/ k0 = 0 /\ running = {}
      \/ k0 \in running
  <2>1. CASE running = {}
    BY <2>1
  <2>2. CASE running # {}
    <3>1. running \in SUBSET (1..n)
      BY <1>1
    <3> HIDE DEF running
    <3> QED  BY <2>2, <3>1, MaxIn
  <2> QED  BY <2>1, <2>2
<1>3. k0 \in Nat /\ (k0 # 0 => k0 \in DOMAIN view /\ view[k0].st = "running") /\ (k0 = 0 => \A k \in DOMAIN view : view[k].st # "running")
  <2>1. k0 \in running => k0 \in DOMAIN view /\ view[k0].st = "running" /\ k0 \in Nat /\ k0 # 0
    BY <1>1
  <2> QED  BY <1>1, <1>2, <2>1
<1> HIDE DEF k0
<1>4. flag \in BOOLEAN
  BY DEF Has
<1> HIDE DEF flag
<1>5. tick[t].pc = "refreshing_mvs" /\ tick' = [tick EXCEPT ![t] = new] /\ UNCHANGED <<target, built, server, runs, frun, fut, locks>>
  BY DEF TickMvs, OnRun, k0, flag
<1>6. tick \in [Ticks -> TickRows] /\ tick[t] \in TickRows
  BY DEF TypeInv, TickType
<1>7. new \in TickRows /\ new.pc = "mvs read" /\ new.run = tick[t].run /\ new.k = k0 /\ new.flag = flag
  BY <1>3, <1>4, <1>6 DEF TickRows, MvTicks
<1> HIDE DEF new
<1>8. tick' \in [Ticks -> TickRows] /\ tick'[t] = new /\ \A s \in Ticks : s # t => tick'[s] = tick[s]
  BY <1>5, <1>6, <1>7
<1>9. Acts(i, runs'[i]) /\ Same(runs[i], runs'[i], {}) /\ runs'[i] = runs[i] /\ runs' \in Seq(AllRuns) /\ LocalLocks
  BY <1>5, NullUpdates
<1>10. TypeInv'
  <2>1. TickType'
    <3>1. \A s \in Ticks : s # t =>
             /\ tick[s].run <= Len(runs)
             /\ tick[s].pc # "idle" => tick[s].run # 0
             /\ tick[s].pc = "mvs read" /\ tick[s].k # 0 => tick[s].k \in DOMAIN runs[tick[s].run].view
      BY DEF TypeInv, TickType
    <3>2. tick[t].run = i /\ i \in DOMAIN runs /\ tick[t].run <= Len(runs) /\ (tick[t].pc # "idle" => tick[t].run # 0)
      BY DEF OnRun, TypeInv, TickType
    <3>3. runs' = runs
      BY <1>5
    <3> QED  BY <1>3, <1>5, <1>7, <1>8, <3>1, <3>2, <3>3 DEF TickType
  <2>2. UNCHANGED <<target, built, server, runs, frun, fut, locks>>
    BY <1>5
  <2> QED  BY <2>1, <2>2 DEF TypeInv, BuiltType, RunsType, FrunType, FutType, LockType
<1> QED  BY <1>3, <1>5, <1>7, <1>8, <1>9, <1>10 DEF TickGoes, flag

\* The step of a view gets a status, or commits.
LEMMA StepChanges ==
  ASSUME NEW D, NEW view \in [D -> ViewSteps], NEW k \in D, NEW st \in StepStatus
  PROVE  LET new == SetStep(view, k, st)
         IN  /\ new \in [D -> ViewSteps] /\ new[k].st = st /\ new[k].commits = view[k].commits
             /\ \A l \in D : l # k => new[l] = view[l]
<1>1. view[k] \in ViewSteps
  OBVIOUS
<1>2. [view[k] EXCEPT !.st = st] \in ViewSteps /\ [view[k] EXCEPT !.st = st].st = st
      /\ [view[k] EXCEPT !.st = st].commits = view[k].commits
  BY <1>1 DEF ViewSteps
<1>3. SetStep(view, k, st) = [view EXCEPT ![k] = [view[k] EXCEPT !.st = st]]
  BY DEF SetStep
<1> QED  BY <1>2, <1>3

\* A view commits n times more.
LEMMA CommitChanges ==
  ASSUME NEW D, NEW view \in [D -> ViewSteps], NEW k \in D, NEW n \in Nat
  PROVE  LET new == Commit(view, k, n)
         IN  /\ new \in [D -> ViewSteps] /\ new[k].st = view[k].st /\ new[k].commits = view[k].commits + n
             /\ \A l \in D : l # k => new[l] = view[l]
<1>1. view[k] \in ViewSteps
  OBVIOUS
<1>2. [view[k] EXCEPT !.commits = view[k].commits + n] \in ViewSteps
      /\ [view[k] EXCEPT !.commits = view[k].commits + n].st = view[k].st
      /\ [view[k] EXCEPT !.commits = view[k].commits + n].commits = view[k].commits + n
  BY <1>1 DEF ViewSteps
<1>3. Commit(view, k, n) = [view EXCEPT ![k] = [view[k] EXCEPT !.commits = view[k].commits + n]]
  BY DEF Commit
<1> QED  BY <1>2, <1>3

\* One step of the views changes, to a status.
ViewGets(i, k, st) ==
  /\ k \in DOMAIN runs[i].view
  /\ runs'[i].view[k].st = st /\ runs'[i].view[k].commits = runs[i].view[k].commits
  /\ \A l \in DOMAIN runs[i].view : l # k => runs'[i].view[l] = runs[i].view[l]

MvDecided(t, i) ==
  \/ /\ tick[t].k # 0 /\ ~Live(i, "mv") /\ TickGoes(t, "mv unknown")
     /\ Same(runs[i], runs'[i], {"view", "hurt"}) /\ ViewGets(i, tick[t].k, "unknown")
     /\ runs'[i].hurt = runs[i].hurt \cup IF runs[i].view[tick[t].k].st # "running" THEN {"stale"} ELSE {}
     /\ UNCHANGED <<target, built, server, frun, fut, locks>>
  \/ /\ tick[t].flag /\ ~Live(i, "mv") /\ tick[t].k = 0 /\ TickEnds(t, i)
  \/ /\ Live(i, "mv") \/ (tick[t].k = 0 /\ ~tick[t].flag)
     /\ TickGoes(t, "release") /\ Submitted(i, "mv", "refreshing_mvs", MvStarts(i))

\* The future of the views before its first step.
LEMMA MvStartsType ==
  ASSUME TypeInv, NEW i \in DOMAIN runs
  PROVE  LET future == MvStarts(i)
         IN /\ future \in Futures /\ future.mv.pc = "start" /\ future.mv.todo = fut[i].mv.todo
            /\ future.pbi = fut[i].pbi /\ future.workers = fut[i].workers
<1>1. fut[i] \in Futures
  BY RowType
<1>2. [fut[i].mv EXCEPT !.pc = "start"] \in MvRows /\ [fut[i].mv EXCEPT !.pc = "start"].pc = "start"
      /\ [fut[i].mv EXCEPT !.pc = "start"].todo = fut[i].mv.todo
  BY <1>1 DEF Futures, MvRows
<1>3. MvStarts(i) = [fut[i] EXCEPT !.mv = [fut[i].mv EXCEPT !.pc = "start"]]
  BY DEF MvStarts
<1> DEFINE mv == [fut[i].mv EXCEPT !.pc = "start"]
<1> HIDE DEF mv
<1>4. [fut[i] EXCEPT !.mv = mv] \in Futures /\ [fut[i] EXCEPT !.mv = mv].mv = mv /\ [fut[i] EXCEPT !.mv = mv].pbi = fut[i].pbi
      /\ [fut[i] EXCEPT !.mv = mv].workers = fut[i].workers
  BY <1>1, <1>2 DEF Futures, mv
<1> QED  BY <1>2, <1>3, <1>4 DEF mv

\* A tick gives up a half-done stage, or starts the future of the views.
LEMMA TickMvDecideEffect ==
  ASSUME TypeInv, NEW t \in Ticks, NEW i \in DOMAIN runs, OnRun(t, i), TickMvDecide(t)
  PROVE  TypeInv' /\ tick[t].pc = "mvs read" /\ Acts(i, runs'[i]) /\ MvDecided(t, i)
<1> DEFINE r == runs[i].report
           k == tick[t].k
<1>0. /\ r \in Reports /\ runs[i] \in RunsOf(r) /\ tick[t].pc = "mvs read" /\ k \in Nat /\ (k # 0 => k \in DOMAIN runs[i].view)
      /\ runs[i].view \in [DOMAIN runs[i].view -> ViewSteps] /\ DOMAIN runs[i].view = DOMAIN PlanViews[r]
  <2>1. r \in Reports /\ runs[i] \in RunsOf(r)
    BY RowType
  <2>2. tick[t].pc = "mvs read" /\ tick[t].run = i
    BY DEF TickMvDecide, OnRun
  <2>3. k \in Nat /\ (k # 0 => k \in DOMAIN runs[i].view)
    BY <2>2 DEF TypeInv, TickType, TickRows
  <2>4. runs[i].view \in [DOMAIN PlanViews[r] -> ViewSteps]
    BY <2>1, RowFields
  <2> QED  BY <2>1, <2>2, <2>3, <2>4
<1>1. CASE k # 0 /\ ~Live(i, "mv")
  <2> DEFINE stale == Hurt(i, "stale", runs[i].view[k].st # "running")
             view == SetStep(runs[i].view, k, "unknown")
             row == [stale EXCEPT !.view = view]
  <2>1. /\ Update(i, [stale EXCEPT !.view = SetStep(@, k, "unknown")]) /\ Goto(t, "mv unknown")
        /\ UNCHANGED <<target, built, server, frun, fut>>
    BY <1>1 DEF TickMvDecide, OnRun
  <2>2. stale \in RunsOf(r) /\ Same(runs[i], stale, {"hurt"})
        /\ stale.hurt = runs[i].hurt \cup IF runs[i].view[k].st # "running" THEN {"stale"} ELSE {}
    BY HurtChanges DEF Harms
  <2>3. /\ view \in [DOMAIN runs[i].view -> ViewSteps] /\ view[k].st = "unknown" /\ view[k].commits = runs[i].view[k].commits
        /\ \A l \in DOMAIN runs[i].view : l # k => view[l] = runs[i].view[l]
    <3>1. k \in DOMAIN runs[i].view /\ "unknown" \in StepStatus /\ runs[i].view \in [DOMAIN runs[i].view -> ViewSteps]
      BY <1>0, <1>1 DEF StepStatus
    <3> QED  BY <3>1, StepChanges
  <2>4. stale.view = runs[i].view
    BY <2>2 DEF Same
  <2>5. Update(i, row)
    BY <2>1, <2>4
  <2> HIDE DEF view, stale
  <2>6. row \in RunsOf(r) /\ Same(stale, row, {"view"}) /\ row.view = view
    <3>1. view \in [DOMAIN PlanViews[r] -> ViewSteps]
      BY <1>0, <2>3
    <3>2. r \in Reports /\ stale \in RunsOf(r)
      BY <1>0, <2>2
    <3> HIDE DEF r
    <3> QED  BY <3>1, <3>2, ViewChanges
  <2>7. Same(runs[i], row, {"hurt", "view"}) /\ row.hurt = stale.hurt
    BY <2>2, <2>6 DEF Same
  <2> HIDE DEF row
  <2>8. Acts(i, runs'[i]) /\ runs'[i] = row /\ runs' \in Seq(AllRuns) /\ locks' = locks /\ LocalLocks
    BY <2>5, <2>6, UpdateEffect
  <2>9. TickGoes(t, "mv unknown") /\ tick' \in [Ticks -> TickRows]
    BY <2>1, GotoEffect DEF MvTicks
  <2>10. TypeInv'
    BY <2>1, <2>7, <2>8, <2>9, TickTypes DEF Same
  <2>11. ViewGets(i, k, "unknown")
    BY <1>0, <1>1, <2>3, <2>6, <2>8 DEF ViewGets
  <2>12. Same(runs[i], runs'[i], {"view", "hurt"}) /\ runs'[i].hurt = runs[i].hurt \cup IF runs[i].view[k].st # "running" THEN {"stale"} ELSE {}
    BY <2>2, <2>7, <2>8 DEF Same
  <2> QED  BY <1>0, <1>1, <2>1, <2>8, <2>9, <2>10, <2>11, <2>12 DEF MvDecided
<1>2. CASE ~(k # 0 /\ ~Live(i, "mv")) /\ tick[t].flag /\ ~Live(i, "mv")
  <2>1. Fail(i, TRUE) /\ Goto(t, "release") /\ UNCHANGED <<target, built, server, frun, fut>>
    BY <1>2 DEF TickMvDecide, OnRun
  <2>2. TypeInv' /\ TickEnds(t, i)
    BY <2>1, TickEndsEffect
  <2> QED  BY <1>0, <1>2, <2>2 DEF MvDecided, TickEnds
<1>3. CASE ~(k # 0 /\ ~Live(i, "mv")) /\ ~(tick[t].flag /\ ~Live(i, "mv"))
  <2>1. Submit(t, i, "mv", "refreshing_mvs", MvStarts(i)) /\ UNCHANGED <<target, built, server, frun>>
    BY <1>3 DEF TickMvDecide, OnRun
  <2> DEFINE future == MvStarts(i)
  <2>2. future \in Futures /\ future.mv.pc = "start" /\ future.mv.todo \subseteq DOMAIN runs[i].view
    BY MvStartsType, RowType
  <2> HIDE DEF future
  <2>3. TypeInv' /\ TickGoes(t, "release") /\ Acts(i, runs'[i]) /\ Submitted(i, "mv", "refreshing_mvs", future)
    BY <2>1, <2>2, SubmitEffect DEF future
  <2>4. Live(i, "mv") \/ (tick[t].k = 0 /\ ~tick[t].flag)
    <3>1. tick[t].flag \in BOOLEAN
      BY DEF TypeInv, TickType, TickRows
    <3> QED  BY <1>3, <3>1
  <2> QED  BY <1>0, <2>3, <2>4 DEF MvDecided, future
<1> QED  BY <1>1, <1>2, <1>3

\* A tick marks the dataset step as running and notes whether it was.
LEMMA TickPbiEffect ==
  ASSUME TypeInv, NEW t \in Ticks, NEW i \in DOMAIN runs, OnRun(t, i), TickPbi(t)
  PROVE  /\ TypeInv' /\ tick[t].pc = "refreshing_powerbi" /\ TickGoes(t, "pbi read")
         /\ tick'[t].flag <=> runs[i].pbi.st = "running"
         /\ Acts(i, runs'[i]) /\ Same(runs[i], runs'[i], {"pbi"})
         /\ runs'[i].pbi.st = IF runs[i].pbi.st = "pending" THEN "running" ELSE runs[i].pbi.st
         /\ runs'[i].pbi.request = runs[i].pbi.request /\ runs'[i].pbi.triggers = runs[i].pbi.triggers
         /\ UNCHANGED <<target, built, server, frun, fut, locks>>
<1> DEFINE r == runs[i].report
           st == IF runs[i].pbi.st = "pending" THEN "running" ELSE runs[i].pbi.st
           flag == runs[i].pbi.st = "running"
           pbi == [runs[i].pbi EXCEPT !.st = st]
           row == [runs[i] EXCEPT !.pbi = pbi]
           new == [tick[t] EXCEPT !.pc = "pbi read", !.flag = flag]
<1>0. r \in Reports /\ runs[i] \in RunsOf(r) /\ runs[i].pbi \in PbiSteps
  <2>1. r \in Reports /\ runs[i] \in RunsOf(r)
    BY RowType
  <2> QED  BY <2>1, RowFields
<1>1. pbi \in PbiSteps /\ pbi.st = st /\ pbi.request = runs[i].pbi.request /\ pbi.triggers = runs[i].pbi.triggers
  BY <1>0 DEF PbiSteps, StepStatus
<1>2. /\ tick[t].pc = "refreshing_powerbi" /\ Update(i, row) /\ tick' = [tick EXCEPT ![t] = new]
      /\ UNCHANGED <<target, built, server, frun, fut>>
  BY DEF TickPbi, OnRun
<1> HIDE DEF pbi
<1>3. row \in RunsOf(r) /\ Same(runs[i], row, {"pbi"}) /\ row.pbi = pbi
  BY <1>0, <1>1, PbiChanges
<1> HIDE DEF row
<1>4. Acts(i, runs'[i]) /\ runs'[i] = row /\ runs' \in Seq(AllRuns) /\ locks' = locks /\ LocalLocks
  BY <1>2, <1>3, UpdateEffect
<1>5. tick \in [Ticks -> TickRows] /\ tick[t] \in TickRows /\ flag \in BOOLEAN
  BY DEF TypeInv, TickType
<1> HIDE DEF flag
<1>6. new \in TickRows /\ new.pc = "pbi read" /\ new.run = tick[t].run /\ new.flag = flag
  BY <1>5 DEF TickRows, PbiTicks
<1> HIDE DEF new
<1>7. TickGoes(t, "pbi read") /\ tick' \in [Ticks -> TickRows] /\ tick'[t].flag = flag
  BY <1>2, <1>5, <1>6 DEF TickGoes
<1>8. TypeInv'
  BY <1>2, <1>3, <1>4, <1>7, TickTypes DEF Same
<1> QED  BY <1>1, <1>2, <1>3, <1>4, <1>7, <1>8 DEF flag

PbiStarts(t, i) == [fut[i] EXCEPT !.pbi = [pc |-> "start", resume |-> tick[t].flag]]

\* A tick hands the dataset to a future.
LEMMA TickPbiSubmitEffect ==
  ASSUME TypeInv, NEW t \in Ticks, NEW i \in DOMAIN runs, OnRun(t, i), TickPbiSubmit(t)
  PROVE  /\ TypeInv' /\ tick[t].pc = "pbi read" /\ TickGoes(t, "release") /\ Acts(i, runs'[i])
         /\ Submitted(i, "pbi", "refreshing_powerbi", PbiStarts(t, i))
         /\ PbiStarts(t, i).mv = fut[i].mv /\ PbiStarts(t, i).pbi = [pc |-> "start", resume |-> tick[t].flag]
<1> DEFINE future == PbiStarts(t, i)
<1>1. /\ fut[i] \in Futures /\ fut[i].mv.todo \subseteq DOMAIN runs[i].view
      /\ fut[i].mv.pc \in {"refresh", "refreshed"} => fut[i].mv.todo # {}
  BY RowType
<1>2. tick[t].flag \in BOOLEAN
  BY DEF TypeInv, TickType, TickRows
<1>3. future \in Futures /\ future.mv = fut[i].mv /\ future.pbi = [pc |-> "start", resume |-> tick[t].flag]
  BY <1>1, <1>2 DEF Futures, PbiRows, PbiStarts
<1>4. tick[t].pc = "pbi read" /\ Submit(t, i, "pbi", "refreshing_powerbi", future) /\ UNCHANGED <<target, built, server, frun>>
  BY DEF TickPbiSubmit, OnRun, PbiStarts
<1> HIDE DEF future
<1>5. TypeInv' /\ TickGoes(t, "release") /\ Acts(i, runs'[i]) /\ Submitted(i, "pbi", "refreshing_powerbi", future)
  BY <1>1, <1>3, <1>4, SubmitEffect
<1> QED  BY <1>3, <1>4, <1>5 DEF future

\* _claim_tick_lease and _release_tick_lease.
LEMMA ClaimLeaseEffect ==
  ASSUME TypeInv, NEW t \in Ticks, NEW i \in DOMAIN runs, ClaimLease(t, i)
  PROVE  /\ TypeInv' /\ tick[t].pc = "idle" /\ runs[i].stage \notin Terminal
         /\ runs[i].lease.token = NoThread \/ runs[i].lease.expired
         /\ Acts(i, runs'[i]) /\ Same(runs[i], runs'[i], {"lease"})
         /\ runs'[i].lease = [token |-> t, expired |-> FALSE]
         /\ TickBecomes(t, [pc |-> runs[i].stage, run |-> i, k |-> 0, flag |-> FALSE])
         /\ UNCHANGED <<target, built, frun, fut, locks>> /\ server'.up = server.up
<1> DEFINE r == runs[i].report
           lease == [token |-> t, expired |-> FALSE]
           row == [runs[i] EXCEPT !.lease = lease]
           new == [pc |-> runs[i].stage, run |-> i, k |-> 0, flag |-> FALSE]
<1>0. r \in Reports /\ runs[i] \in RunsOf(r) /\ runs[i].stage \in Stages /\ i \in Nat /\ i \in 1..Len(runs)
  <2>1. r \in Reports /\ runs[i] \in RunsOf(r) /\ i \in Nat /\ i \in 1..Len(runs)
    BY RowType
  <2> QED  BY <2>1, RowFields
<1>1. lease \in Leases
  BY DEF Leases
<1>2. /\ tick[t].pc = "idle" /\ runs[i].stage \notin Terminal
      /\ runs[i].lease.token = NoThread \/ runs[i].lease.expired
      /\ runs' = [runs EXCEPT ![i] = row] /\ tick' = [tick EXCEPT ![t] = new]
      /\ server' = [server EXCEPT !.boot = server.boot /\ t # Startup]
      /\ UNCHANGED <<target, built, frun, fut, locks>>
  BY DEF ClaimLease
<1>3. server' \in Servers /\ server'.up = server.up
  BY <1>2 DEF TypeInv, Servers
<1>4. row \in RunsOf(r) /\ Same(runs[i], row, {"lease"}) /\ row.lease = lease
  <2>1. r \in Reports /\ runs[i] \in RunsOf(r)
    BY <1>0
  <2> HIDE DEF r, lease
  <2> QED  BY <1>1, <2>1, LeaseChanges
<1> HIDE DEF row
<1>5. Update(i, row)
  BY <1>2 DEF Update
<1>6. Acts(i, runs'[i]) /\ runs'[i] = row /\ runs' \in Seq(AllRuns) /\ locks' = locks /\ LocalLocks
  BY <1>4, <1>5, UpdateEffect
<1>7. new \in TickRows
  BY <1>0, <1>2 DEF TickRows, Stages, Terminal, EarlyTicks, MvTicks, PbiTicks
<1>8. new.run = i /\ new.pc # "mvs read"
  BY <1>0 DEF Stages, Terminal
<1> HIDE DEF new
<1>9. TickBecomes(t, new) /\ tick' \in [Ticks -> TickRows]
  BY <1>2, <1>7 DEF TypeInv, TickType, TickBecomes
<1>10. TypeInv'
  <2>1. LocalRuns(i, row)
    BY <1>2, <1>3, <1>6 DEF LocalRuns
  <2>2. LocalFrun(i, row)
    <3>1. row.flow = runs[i].flow /\ frun' = frun
      BY <1>2, <1>4 DEF Same
    <3>2. \A k \in DOMAIN runs[i].flow : runs[i].flow[k].run <= Len(frun)
      BY DEF TypeInv, FrunType
    <3> QED  BY <3>1, <3>2, FrunFacts DEF LocalFrun
  <2>3. LocalFut(i, row)
    <3>1. row.view = runs[i].view /\ fut' = fut
      BY <1>2, <1>4 DEF Same
    <3> QED  BY <3>1, RowType DEF LocalFut, TypeInv, FutType
  <2>4. LocalTick(i, row)
    BY <1>8, <1>9 DEF LocalTick, TickBecomes
  <2> QED  BY <1>6, <2>1, <2>2, <2>3, <2>4, LocalTypes
<1> QED  BY <1>2, <1>3, <1>4, <1>6, <1>9, <1>10 DEF new

\* _release_tick_lease frees the lease that is still the tick's own.
LEMMA ReleaseEffect ==
  ASSUME TypeInv, NEW t \in Ticks, NEW i \in DOMAIN runs, OnRun(t, i), Release(t)
  PROVE  /\ TypeInv' /\ tick[t].pc = "release" /\ TickBecomes(t, Idle)
         /\ Acts(i, runs'[i]) /\ Same(runs[i], runs'[i], {"lease"})
         /\ runs[i].lease.token # t => runs'[i].lease = runs[i].lease
         /\ UNCHANGED <<target, built, server, frun, fut, locks>>
<1> DEFINE r == runs[i].report
           lease == IF runs[i].lease.token = t THEN [token |-> NoThread, expired |-> FALSE] ELSE runs[i].lease
           row == [runs[i] EXCEPT !.lease = lease]
<1>0. r \in Reports /\ runs[i] \in RunsOf(r) /\ runs[i].lease \in Leases
  <2>1. r \in Reports /\ runs[i] \in RunsOf(r)
    BY RowType
  <2> QED  BY <2>1, RowFields
<1>1. lease \in Leases
  BY <1>0 DEF Leases
<1>2. /\ tick[t].pc = "release" /\ tick' = [tick EXCEPT ![t] = Idle]
      /\ runs' = IF runs[i].lease.token = t
                 THEN [runs EXCEPT ![i] = [runs[i] EXCEPT !.lease = [token |-> NoThread, expired |-> FALSE]]] ELSE runs
      /\ UNCHANGED <<target, built, server, frun, fut, locks>>
  BY DEF Release, OnRun
<1>3. row \in RunsOf(r) /\ Same(runs[i], row, {"lease"}) /\ row.lease = lease
  <2>1. r \in Reports /\ runs[i] \in RunsOf(r)
    BY <1>0
  <2> HIDE DEF r, lease
  <2> QED  BY <1>1, <2>1, LeaseChanges
<1>4. runs' \in Seq(AllRuns) /\ Acts(i, runs'[i]) /\ Same(runs[i], runs'[i], {"lease"})
      /\ (runs[i].lease.token # t => runs'[i].lease = runs[i].lease)
  <2>1. CASE runs[i].lease.token = t
    <3>1. runs' = [runs EXCEPT ![i] = row]
      BY <1>2, <2>1
    <3> HIDE DEF row
    <3>2. Update(i, row)
      BY <1>2, <3>1 DEF Update
    <3> QED  BY <1>3, <2>1, <3>2, UpdateEffect
  <2>2. CASE runs[i].lease.token # t
    <3>1. runs' = runs /\ locks' = locks
      BY <1>2, <2>2
    <3>2. Same(runs[i], runs'[i], {}) /\ Acts(i, runs'[i]) /\ runs' \in Seq(AllRuns)
      BY <3>1, NullUpdates
    <3> QED  BY <3>1, <3>2 DEF Same
  <2> QED  BY <2>1, <2>2
<1>5. TickBecomes(t, Idle) /\ tick' \in [Ticks -> TickRows]
  <2>1. Idle \in TickRows
    BY DEF Idle, TickRows
  <2> QED  BY <1>2, <2>1 DEF TypeInv, TickType, TickBecomes
<1>6. TypeInv'
  <2>1. LocalRuns(i, runs'[i])
    BY <1>2, <1>4 DEF LocalRuns, TypeInv
  <2>2. LocalFrun(i, runs'[i])
    <3>1. runs'[i].flow = runs[i].flow /\ frun' = frun
      BY <1>2, <1>4 DEF Same
    <3>2. \A k \in DOMAIN runs[i].flow : runs[i].flow[k].run <= Len(frun)
      BY DEF TypeInv, FrunType
    <3> QED  BY <3>1, <3>2, FrunFacts DEF LocalFrun
  <2>3. LocalFut(i, runs'[i])
    <3>1. runs'[i].view = runs[i].view /\ fut' = fut
      BY <1>2, <1>4 DEF Same
    <3> QED  BY <3>1, RowType DEF LocalFut, TypeInv, FutType
  <2>4. LocalTick(i, runs'[i])
    BY <1>5 DEF LocalTick, TickBecomes
  <2>5. LocalLocks
    BY <1>2 DEF LocalLocks
  <2> QED  BY <1>4, <2>1, <2>2, <2>3, <2>4, <2>5, LocalTypes
<1> QED  BY <1>2, <1>4, <1>5, <1>6

\* A lease expires; under a tick at work the run is hurt.
LEMMA LeaseExpiresEffect ==
  ASSUME TypeInv, NEW i \in DOMAIN runs, LeaseExpires(i)
  PROVE  /\ TypeInv' /\ Acts(i, runs'[i]) /\ Same(runs[i], runs'[i], {"lease", "hurt"})
         /\ runs[i].hurt \subseteq runs'[i].hurt
         /\ (\E t \in Ticks : OnRun(t, i) /\ runs[i].lease.token = t) => "slow" \in runs'[i].hurt
         /\ runs'[i].lease = [runs[i].lease EXCEPT !.expired = TRUE]
         /\ UNCHANGED <<target, built, server, frun, fut, locks, tick>>
<1> DEFINE r == runs[i].report
           held == \E t \in Ticks : tick[t].pc # "idle" /\ tick[t].run = i /\ runs[i].lease.token = t
           slow == Hurt(i, "slow", held)
           lease == [runs[i].lease EXCEPT !.expired = TRUE]
           row == [slow EXCEPT !.lease = lease]
<1>0. r \in Reports /\ runs[i] \in RunsOf(r) /\ runs[i].lease \in Leases
  <2>1. r \in Reports /\ runs[i] \in RunsOf(r)
    BY RowType
  <2> QED  BY <2>1, RowFields
<1>1. lease \in Leases
  BY <1>0 DEF Leases
<1>2. /\ runs' = [runs EXCEPT ![i] = [slow EXCEPT !.lease = [slow.lease EXCEPT !.expired = TRUE]]]
      /\ UNCHANGED <<target, built, server, frun, fut, locks, tick>>
  BY DEF LeaseExpires
<1>3. slow \in RunsOf(r) /\ Same(runs[i], slow, {"hurt"}) /\ slow.hurt = runs[i].hurt \cup IF held THEN {"slow"} ELSE {}
  BY HurtChanges DEF Harms
<1> HIDE DEF slow
<1>4. runs' = [runs EXCEPT ![i] = row]
  BY <1>2, <1>3 DEF Same
<1> HIDE DEF lease
<1>5. row \in RunsOf(r) /\ Same(slow, row, {"lease"}) /\ row.lease = lease
  <2> HIDE DEF r
  <2> QED  BY <1>0, <1>1, <1>3, LeaseChanges
<1> HIDE DEF row
<1>6. Update(i, row)
  BY <1>2, <1>4 DEF Update
<1>7. Acts(i, runs'[i]) /\ runs'[i] = row /\ runs' \in Seq(AllRuns) /\ locks' = locks /\ LocalLocks
  BY <1>5, <1>6, UpdateEffect
<1>8. Same(runs[i], row, {"lease", "hurt"}) /\ row.hurt = slow.hurt
  BY <1>3, <1>5 DEF Same
<1>9. TypeInv'
  <2>1. LocalRuns(i, row)
    BY <1>2, <1>7 DEF LocalRuns, TypeInv
  <2>2. LocalFrun(i, row)
    <3>1. row.flow = runs[i].flow /\ frun' = frun
      BY <1>2, <1>8 DEF Same
    <3>2. \A k \in DOMAIN runs[i].flow : runs[i].flow[k].run <= Len(frun)
      BY DEF TypeInv, FrunType
    <3> QED  BY <3>1, <3>2, FrunFacts DEF LocalFrun
  <2>3. LocalFut(i, row)
    <3>1. row.view = runs[i].view /\ fut' = fut
      BY <1>2, <1>8 DEF Same
    <3> QED  BY <3>1, RowType DEF LocalFut, TypeInv, FutType
  <2>4. LocalTick(i, row)
    BY <1>2 DEF LocalTick, TypeInv, TickType
  <2> QED  BY <1>7, <2>1, <2>2, <2>3, <2>4, LocalTypes
<1>10. Same(runs[i], runs'[i], {"lease", "hurt"}) /\ runs[i].hurt \subseteq runs'[i].hurt /\ (held => "slow" \in runs'[i].hurt)
  BY <1>3, <1>7, <1>8
<1>11. runs'[i].lease = [runs[i].lease EXCEPT !.expired = TRUE]
  BY <1>5, <1>7 DEF lease
<1> QED  BY <1>2, <1>7, <1>9, <1>10, <1>11 DEF OnRun

\* What a tick does to the flow steps of its run, besides queueing one.
StepMoves(old, new) ==
  /\ new.run = old.run
  /\ \/ new.st = old.st
     \/ new.st \in {"failed", "cancelled", "unknown"}
     \/ new.st = "succeeded" /\ old.st = "running" /\ Child(old) = "succeeded"
FlowMoves(i, row) ==
  /\ DOMAIN row.flow = DOMAIN runs[i].flow
  /\ \A k \in DOMAIN row.flow : StepMoves(runs[i].flow[k], row.flow[k])
Grows(new) ==
  /\ Len(frun') = Len(frun) + 1 /\ DOMAIN frun' = DOMAIN frun \cup {Len(frun) + 1}
  /\ \A j \in DOMAIN frun : frun'[j] = frun[j]
  /\ frun'[Len(frun) + 1] = new
JobGets(j, st) ==
  /\ j \in DOMAIN frun /\ Len(frun') = Len(frun) /\ DOMAIN frun' = DOMAIN frun
  /\ frun'[j].st = st /\ frun'[j].flow = frun[j].flow /\ frun'[j].target = frun[j].target
  /\ frun'[j].views = frun[j].views /\ frun'[j].parent = frun[j].parent
  /\ \A l \in DOMAIN frun : l # j => frun'[l] = frun[l]

\* A flow run is queued.
LEMMA GrowsEffect ==
  ASSUME TypeInv, NEW f \in Flows, NEW views \in {FlowViews[g] : g \in Flows} \cup {{}}, NEW p \in 0..Len(runs),
         frun' = Append(frun, NewFlowRun(f, views, p))
  PROVE  /\ Grows(NewFlowRun(f, views, p)) /\ frun' \in Seq(FlowRuns)
         /\ \A j \in DOMAIN frun' : frun'[j].parent <= Len(runs)
         /\ NewFlowRun(f, views, p).st = "queued" /\ NewFlowRun(f, views, p).flow = f /\ NewFlowRun(f, views, p).target = target[f]
         /\ NewFlowRun(f, views, p).parent = p /\ NewFlowRun(f, views, p).views = views
<1> DEFINE new == NewFlowRun(f, views, p)
<1>1. target[f] \in Targets /\ Len(runs) \in Nat
  BY DEF TypeInv, RunsType
<1>2. new \in FlowRuns /\ new.parent = p /\ new.st = "queued" /\ new.flow = f /\ new.target = target[f] /\ new.views = views
  BY <1>1 DEF NewFlowRun, FlowRuns, FlowActive
<1> HIDE DEF new
<1>3. frun' = Append(frun, new)
  BY DEF new
<1>4. frun \in Seq(FlowRuns) /\ Len(frun) \in Nat /\ DOMAIN frun = 1..Len(frun) /\ \A j \in DOMAIN frun : frun[j].parent <= Len(runs)
  BY FrunFacts
<1>5. frun' \in Seq(FlowRuns) /\ Len(frun') = Len(frun) + 1 /\ (\A j \in 1..Len(frun) : frun'[j] = frun[j]) /\ frun'[Len(frun) + 1] = new
  BY <1>2, <1>3, <1>4
<1>6. DOMAIN frun' = 1..(Len(frun) + 1)
  BY <1>5
<1>7. DOMAIN frun' = DOMAIN frun \cup {Len(frun) + 1}
  BY <1>4, <1>6
<1>8. Grows(new)
  BY <1>4, <1>5, <1>7 DEF Grows
<1>9. \A j \in DOMAIN frun' : frun'[j].parent <= Len(runs)
  BY <1>1, <1>2, <1>4, <1>5, <1>7
<1> QED  BY <1>2, <1>5, <1>8, <1>9 DEF new

\* A flow run gets a status.
LEMMA JobEffect ==
  ASSUME TypeInv, NEW j \in DOMAIN frun, NEW st \in {"running", "succeeded", "failed", "cancelled"},
         frun' = [frun EXCEPT ![j] = [@ EXCEPT !.st = st]]
  PROVE  /\ JobGets(j, st) /\ frun' \in Seq(FlowRuns) /\ \A l \in DOMAIN frun' : frun'[l].parent <= Len(runs)
<1>1. frun \in Seq(FlowRuns) /\ frun[j] \in FlowRuns /\ \A l \in DOMAIN frun : frun[l].parent <= Len(runs)
  BY FrunFacts
<1> DEFINE new == [frun[j] EXCEPT !.st = st]
<1>2. new \in FlowRuns /\ new.st = st /\ new.flow = frun[j].flow /\ new.target = frun[j].target /\ new.views = frun[j].views
      /\ new.parent = frun[j].parent
  BY <1>1 DEF FlowRuns, FlowActive
<1>3. frun' = [frun EXCEPT ![j] = new]
  OBVIOUS
<1> HIDE DEF new
<1>4. frun' \in Seq(FlowRuns) /\ Len(frun') = Len(frun) /\ DOMAIN frun' = DOMAIN frun /\ frun'[j] = new
      /\ \A l \in DOMAIN frun : l # j => frun'[l] = frun[l]
  BY <1>1, <1>2, <1>3, SeqUpdate
<1> QED  BY <1>1, <1>2, <1>4 DEF JobGets

\* The status of the flow run behind a step.
LEMMA ChildValues ==
  ASSUME TypeInv, NEW i \in DOMAIN runs, NEW k \in DOMAIN runs[i].flow
  PROVE  /\ runs[i].flow[k] \in FlowSteps
         /\ runs[i].flow[k].run # 0 => runs[i].flow[k].run \in DOMAIN frun /\ Child(runs[i].flow[k]) = frun[runs[i].flow[k].run].st
         /\ Child(runs[i].flow[k]) \in {"missing", "succeeded", "failed", "cancelled"} \cup FlowActive
         /\ Child(runs[i].flow[k]) # "missing" => runs[i].flow[k].run # 0
<1> DEFINE r == runs[i].report
<1>1. r \in Reports /\ runs[i] \in RunsOf(r)
  BY RowType
<1> HIDE DEF r
<1>2. runs[i].flow \in [DOMAIN PlanFlows[r] -> FlowSteps] /\ DOMAIN runs[i].flow = DOMAIN PlanFlows[r]
  BY <1>1, RowFields
<1>3. runs[i].flow[k] \in FlowSteps
  BY <1>2
<1>4. runs[i].flow[k].run <= Len(frun) /\ runs[i].flow[k].run \in Nat
  BY <1>3 DEF TypeInv, FrunType, FlowSteps
<1>5. runs[i].flow[k].run # 0 => runs[i].flow[k].run \in DOMAIN frun
  BY <1>4, FrunFacts
<1>6. \A j \in DOMAIN frun : frun[j].st \in {"succeeded", "failed", "cancelled"} \cup FlowActive
  BY FrunFacts DEF FlowRuns
<1> QED  BY <1>3, <1>5, <1>6 DEF Child, FlowActive

\* Settle records the outcomes of the flow runs up to step n.
LEMMA SettleEffect ==
  ASSUME TypeInv, NEW i \in DOMAIN runs, NEW n
  PROVE  LET row == Settle(runs[i], n)
         IN  /\ row \in RunsOf(runs[i].report) /\ Same(runs[i], row, {"flow"}) /\ FlowMoves(i, row)
             /\ \A k \in DOMAIN runs[i].flow :
                  row.flow[k].st = IF /\ k <= n /\ runs[i].flow[k].st = "running"
                                      /\ Child(runs[i].flow[k]) \in {"succeeded", "failed", "cancelled"}
                                   THEN Child(runs[i].flow[k]) ELSE runs[i].flow[k].st
<1> DEFINE r == runs[i].report
           flow == [k \in DOMAIN runs[i].flow |->
                      IF k <= n /\ runs[i].flow[k].st = "running" /\ Child(runs[i].flow[k]) \in {"succeeded", "failed", "cancelled"}
                      THEN [runs[i].flow[k] EXCEPT !.st = Child(runs[i].flow[k])] ELSE runs[i].flow[k]]
           row == [runs[i] EXCEPT !.flow = flow]
<1>1. r \in Reports /\ runs[i] \in RunsOf(r)
  BY RowType
<1>2. DOMAIN runs[i].flow = DOMAIN PlanFlows[r]
  <2> HIDE DEF r
  <2> QED  BY <1>1, RowFields
<1>3. ASSUME NEW k \in DOMAIN runs[i].flow
      PROVE  /\ flow[k] \in FlowSteps /\ StepMoves(runs[i].flow[k], flow[k])
             /\ flow[k].st = IF /\ k <= n /\ runs[i].flow[k].st = "running"
                                /\ Child(runs[i].flow[k]) \in {"succeeded", "failed", "cancelled"}
                             THEN Child(runs[i].flow[k]) ELSE runs[i].flow[k].st
  <2>1. runs[i].flow[k] \in FlowSteps
    BY ChildValues
  <2> DEFINE old == runs[i].flow[k]
  <2>2. CASE k <= n /\ old.st = "running" /\ Child(old) \in {"succeeded", "failed", "cancelled"}
    <3>1. flow[k] = [old EXCEPT !.st = Child(old)]
      BY <2>2
    <3>2. flow[k] \in FlowSteps /\ flow[k].st = Child(old) /\ flow[k].run = old.run
      <4> HIDE DEF flow
      <4> QED  BY <2>1, <2>2, <3>1 DEF FlowSteps, StepStatus
    <3> QED  BY <2>2, <3>2 DEF StepMoves
  <2>3. CASE ~(k <= n /\ old.st = "running" /\ Child(old) \in {"succeeded", "failed", "cancelled"})
    <3>1. flow[k] = old
      BY <2>3
    <3> QED  BY <2>1, <2>3, <3>1 DEF StepMoves
  <2> QED  BY <2>2, <2>3
<1>4. DOMAIN flow = DOMAIN runs[i].flow /\ flow \in [DOMAIN PlanFlows[r] -> FlowSteps]
  BY <1>2, <1>3
<1>5. Settle(runs[i], n) = row
  BY DEF Settle
<1> HIDE DEF flow
<1>6. row \in RunsOf(r) /\ Same(runs[i], row, {"flow"}) /\ row.flow = flow
  <2> HIDE DEF r
  <2> QED  BY <1>1, <1>4, FlowChanges
<1> HIDE DEF row
<1>7. FlowMoves(i, row)
  BY <1>3, <1>4, <1>6 DEF FlowMoves
<1> QED  BY <1>3, <1>5, <1>6, <1>7

(***************************************************************************)
(* The steps of a tick that queue or judge the flow runs.                  *)
(***************************************************************************)
\* A flow step of a run in which no child failed stays or succeeds.
StepAdvances(old, new) ==
  /\ new.run = old.run
  /\ \/ new.st = old.st
     \/ new.st = "succeeded" /\ old.st = "running" /\ Child(old) = "succeeded"
FlowAdvances(i, row) ==
  /\ DOMAIN row.flow = DOMAIN runs[i].flow
  /\ \A k \in DOMAIN row.flow : StepAdvances(runs[i].flow[k], row.flow[k])
NewChild(i, k) == NewFlowRun(PlanFlows[runs[i].report][k], {}, i)
\* The flow of step k is queued for run i.
Queues(t, i, k, pc) ==
  /\ TickGoes(t, pc) /\ UNCHANGED <<target, built, server, fut, locks>>
  /\ k \in DOMAIN runs[i].flow /\ runs[i].flow[k].st = "pending"
  /\ PlanFlows[runs[i].report][k] \in Flows /\ Queueable(PlanFlows[runs[i].report][k])
  /\ Grows(NewChild(i, k))
  /\ Same(runs[i], runs'[i], {"flow"}) /\ DOMAIN runs'[i].flow = DOMAIN runs[i].flow
  /\ runs'[i].flow[k] = [st |-> "running", run |-> Len(frun) + 1]
  /\ \A l \in DOMAIN runs[i].flow : l # k => StepAdvances(runs[i].flow[l], runs'[i].flow[l])
\* The flow runs end run i.
FlowsEnd(t, i) ==
  /\ TickGoes(t, "release") /\ UNCHANGED <<target, built, server, fut>>
  /\ \E run \in RunsOf(runs[i].report) :
       Same(runs[i], run, {"flow"}) /\ FlowMoves(i, run) /\ Ends(i, run, runs'[i])
  /\ \/ UNCHANGED frun
     \/ \E j \in Active : JobGets(j, "cancelled")
\* Every flow step of run i is done.
FlowsDone(i) ==
  /\ \A k \in DOMAIN runs[i].flow :
       /\ runs[i].flow[k].st # "pending" /\ Child(runs[i].flow[k]) = "succeeded"
       /\ runs[i].flow[k].st = "running" => runs'[i].flow[k].st = "succeeded"
       /\ runs[i].flow[k].st # "running" => runs'[i].flow[k].st = runs[i].flow[k].st
  /\ runs'[i].stage = AfterFlows(runs[i])
\* The outcomes of the flow runs are recorded.
FlowsSettle(t, i) ==
  /\ TickGoes(t, "release") /\ UNCHANGED <<target, built, server, frun, fut, locks>>
  /\ Same(runs[i], runs'[i], {"flow", "stage"}) /\ FlowAdvances(i, runs'[i])
  /\ runs'[i].stage = runs[i].stage \/ FlowsDone(i)

\* The type invariant after a tick step that may change the flow runs.
LEMMA FlowTickTypes ==
  ASSUME TypeInv, NEW i \in DOMAIN runs, NEW t \in Ticks, OnRun(t, i), NEW pc,
         Acts(i, runs'[i]), runs' \in Seq(AllRuns), UNCHANGED <<target, built, server, fut>>,
         TickGoes(t, pc), pc # "mvs read", tick' \in [Ticks -> TickRows],
         LocalFrun(i, runs'[i]), LocalLocks
  PROVE  TypeInv'
<1>0. DOMAIN runs'[i].flow = DOMAIN runs[i].flow /\ DOMAIN runs'[i].view = DOMAIN runs[i].view
  BY SameShape
<1>1. LocalRuns(i, runs'[i])
  BY DEF LocalRuns, TypeInv
<1>3. LocalFut(i, runs'[i])
  BY <1>0, RowType DEF TypeInv, FutType, LocalFut
<1>4. LocalTick(i, runs'[i])
  BY DEF LocalTick, TickGoes, OnRun
<1> QED  BY <1>1, <1>3, <1>4, LocalTypes

\* The flow steps of a row and their jobs.
LEMMA FlowRow ==
  ASSUME TypeInv, NEW i \in DOMAIN runs
  PROVE  /\ runs[i].report \in Reports /\ runs[i] \in RunsOf(runs[i].report)
         /\ DOMAIN runs[i].flow = DOMAIN PlanFlows[runs[i].report]
         /\ runs[i].flow \in [DOMAIN PlanFlows[runs[i].report] -> FlowSteps]
         /\ DOMAIN runs[i].flow = 1..Len(runs[i].flow) /\ Len(runs[i].flow) \in Nat
         /\ \A k \in DOMAIN runs[i].flow : k \in Nat /\ k <= Len(runs[i].flow) /\ PlanFlows[runs[i].report][k] \in Flows
         /\ Pending(runs[i]) \subseteq Nat /\ Bad(runs[i]) \subseteq Nat
<1> DEFINE r == runs[i].report
<1>1. r \in Reports /\ runs[i] \in RunsOf(r)
  BY RowType
<1>2. runs[i].flow \in [DOMAIN PlanFlows[r] -> FlowSteps] /\ DOMAIN runs[i].flow = DOMAIN PlanFlows[r]
  <2> HIDE DEF r
  <2> QED  BY <1>1, RowFields
<1>3. PlanFlows[r] \in Seq(Flows)
  BY <1>1, ShapeAssumption
<1>4. DOMAIN PlanFlows[r] = 1..Len(PlanFlows[r]) /\ Len(PlanFlows[r]) \in Nat /\ \A k \in DOMAIN PlanFlows[r] : PlanFlows[r][k] \in Flows
  BY <1>3
<1>5. runs[i].flow \in Seq(FlowSteps)
  BY <1>2, <1>4
<1>6. DOMAIN runs[i].flow = 1..Len(runs[i].flow) /\ Len(runs[i].flow) \in Nat
  BY <1>5
<1>7. \A k \in DOMAIN runs[i].flow : k \in Nat /\ k <= Len(runs[i].flow) /\ PlanFlows[r][k] \in Flows
  BY <1>2, <1>4, <1>6
<1> QED  BY <1>1, <1>2, <1>6, <1>7 DEF Pending, Bad

\* A row whose flow steps moved and its flow runs.
LEMMA MovedFrun ==
  ASSUME TypeInv, NEW i \in DOMAIN runs, NEW row, FlowMoves(i, row),
         frun' \in Seq(FlowRuns), Len(frun') = Len(frun), \A j \in DOMAIN frun' : frun'[j].parent <= Len(runs)
  PROVE  LocalFrun(i, row)
<1>1. \A k \in DOMAIN runs[i].flow : runs[i].flow[k].run <= Len(frun)
  BY DEF TypeInv, FrunType
<1>2. Len(frun) <= Len(frun')
  BY FrunFacts
<1> QED  BY <1>1, <1>2 DEF LocalFrun, FlowMoves, StepMoves

\* Ending a run after its flow steps moved.
LEMMA FlowsEndEffect ==
  ASSUME TypeInv, NEW t \in Ticks, NEW i \in DOMAIN runs, OnRun(t, i),
         NEW run \in RunsOf(runs[i].report), Same(runs[i], run, {"flow"}), FlowMoves(i, run),
         NEW inspect \in BOOLEAN, Fails(i, run, inspect), Goto(t, "release"),
         UNCHANGED <<target, built, server, fut>>,
         frun' = frun \/ \E j \in Active : frun' = [frun EXCEPT ![j] = [@ EXCEPT !.st = "cancelled"]]
  PROVE  TypeInv' /\ Acts(i, runs'[i]) /\ FlowsEnd(t, i)
<1>1. TickGoes(t, "release") /\ tick' \in [Ticks -> TickRows]
  BY GotoEffect
<1>2. Acts(i, runs'[i]) /\ Ends(i, run, runs'[i]) /\ runs' \in Seq(AllRuns) /\ LocalLocks
      /\ \A k \in DOMAIN runs[i].flow : runs'[i].flow[k].run = run.flow[k].run
  BY FailEffect
<1>3. /\ frun' \in Seq(FlowRuns) /\ Len(frun') = Len(frun) /\ \A j \in DOMAIN frun' : frun'[j].parent <= Len(runs)
      /\ frun' = frun \/ \E j \in Active : JobGets(j, "cancelled")
  <2>1. CASE frun' = frun
    BY <2>1, FrunFacts
  <2>2. CASE \E j \in Active : frun' = [frun EXCEPT ![j] = [@ EXCEPT !.st = "cancelled"]]
    <3>1. PICK j \in Active : frun' = [frun EXCEPT ![j] = [@ EXCEPT !.st = "cancelled"]]
      BY <2>2
    <3>2. j \in DOMAIN frun
      BY DEF Active
    <3>3. JobGets(j, "cancelled") /\ frun' \in Seq(FlowRuns) /\ \A l \in DOMAIN frun' : frun'[l].parent <= Len(runs)
      BY <3>1, <3>2, JobEffect
    <3> QED  BY <3>3 DEF JobGets
  <2> QED  BY <2>1, <2>2
<1>4. DOMAIN runs'[i].flow = DOMAIN runs[i].flow
  BY <1>2, SameShape
<1>5. LocalFrun(i, runs'[i])
  <2>1. LocalFrun(i, run)
    BY <1>3, MovedFrun
  <2> QED  BY <1>2, <1>4, <2>1 DEF LocalFrun, FlowMoves
<1>6. TypeInv'
  BY <1>1, <1>2, <1>5, FlowTickTypes
<1> QED  BY <1>1, <1>2, <1>3, <1>6 DEF FlowsEnd

\* One step of the flows changes its status.
LEMMA FlowStepChanges ==
  ASSUME NEW D, NEW flow \in [D -> FlowSteps], NEW k \in D, NEW st \in StepStatus
  PROVE  LET new == SetStep(flow, k, st)
         IN  /\ new \in [D -> FlowSteps] /\ new[k].st = st /\ new[k].run = flow[k].run
             /\ \A l \in D : l # k => new[l] = flow[l]
<1>1. flow[k] \in FlowSteps
  OBVIOUS
<1>2. [flow[k] EXCEPT !.st = st] \in FlowSteps /\ [flow[k] EXCEPT !.st = st].st = st
      /\ [flow[k] EXCEPT !.st = st].run = flow[k].run
  BY <1>1 DEF FlowSteps
<1>3. SetStep(flow, k, st) = [flow EXCEPT ![k] = [flow[k] EXCEPT !.st = st]]
  BY DEF SetStep
<1> QED  BY <1>2, <1>3

\* The flow steps are settled and one of them ends badly.
LEMMA SettleEnds ==
  ASSUME TypeInv, NEW i \in DOMAIN runs, NEW n, NEW k \in DOMAIN runs[i].flow,
         NEW st \in {"failed", "cancelled", "unknown"}
  PROVE  LET row == [Settle(runs[i], n) EXCEPT !.flow = SetStep(@, k, st)]
         IN  row \in RunsOf(runs[i].report) /\ Same(runs[i], row, {"flow"}) /\ FlowMoves(i, row)
<1> DEFINE r == runs[i].report
           settled == Settle(runs[i], n)
           flow == SetStep(settled.flow, k, st)
           row == [settled EXCEPT !.flow = flow]
<1>1. settled \in RunsOf(r) /\ Same(runs[i], settled, {"flow"}) /\ FlowMoves(i, settled)
  BY SettleEffect
<1>2. r \in Reports
  BY RowType
<1> HIDE DEF settled
<1>3. settled.flow \in [DOMAIN PlanFlows[r] -> FlowSteps] /\ DOMAIN settled.flow = DOMAIN PlanFlows[r]
  <2> HIDE DEF r
  <2> QED  BY <1>1, <1>2, RowFields
<1>4. DOMAIN settled.flow = DOMAIN runs[i].flow
  BY <1>1 DEF FlowMoves
<1>5. /\ flow \in [DOMAIN PlanFlows[r] -> FlowSteps] /\ flow[k].st = st /\ flow[k].run = settled.flow[k].run
      /\ \A l \in DOMAIN PlanFlows[r] : l # k => flow[l] = settled.flow[l]
  <2>1. k \in DOMAIN PlanFlows[r] /\ st \in StepStatus
    BY <1>3, <1>4 DEF StepStatus
  <2> HIDE DEF r
  <2> QED  BY <1>3, <2>1, FlowStepChanges
<1> HIDE DEF flow
<1>6. row \in RunsOf(r) /\ Same(settled, row, {"flow"}) /\ row.flow = flow
  <2> HIDE DEF r
  <2> QED  BY <1>1, <1>2, <1>5, FlowChanges
<1> HIDE DEF row
<1>7. FlowMoves(i, row)
  BY <1>1, <1>3, <1>4, <1>5, <1>6 DEF FlowMoves, StepMoves
<1>8. Same(runs[i], row, {"flow"})
  BY <1>1, <1>6 DEF Same
<1> QED  BY <1>6, <1>7, <1>8 DEF row, flow, settled

\* The flow of a pending step is queued, or the run ends.
LEMMA QueueChildEffect ==
  ASSUME TypeInv, NEW t \in Ticks, NEW i \in DOMAIN runs, OnRun(t, i),
         NEW run \in RunsOf(runs[i].report), Same(runs[i], run, {"flow"}), FlowAdvances(i, run),
         NEW k \in DOMAIN runs[i].flow, runs[i].flow[k].st = "pending",
         NEW pc \in {"advance", "release"},
         QueueChild(t, i, run, k, pc), UNCHANGED <<target, built, server, fut>>
  PROVE  TypeInv' /\ Acts(i, runs'[i]) /\ (Queues(t, i, k, pc) \/ FlowsEnd(t, i))
<1> DEFINE r == runs[i].report
           f == PlanFlows[run.report][k]
           step == [st |-> "running", run |-> Len(frun) + 1]
           flow == [run.flow EXCEPT ![k] = step]
           row == [run EXCEPT !.flow = flow]
<1>1. r \in Reports /\ DOMAIN runs[i].flow = DOMAIN PlanFlows[r] /\ run.report = r /\ run \in RunsOf(r)
      /\ f = PlanFlows[r][k] /\ f \in Flows
  BY FlowRow DEF Same
<1>2. CASE Fails(i, run, FALSE) /\ Goto(t, "release") /\ UNCHANGED frun
  <2>1. FALSE \in BOOLEAN /\ FlowMoves(i, run)
    BY DEF FlowAdvances, StepAdvances, FlowMoves, StepMoves
  <2>2. TypeInv' /\ Acts(i, runs'[i]) /\ FlowsEnd(t, i)
    BY <1>2, <2>1, FlowsEndEffect
  <2> QED  BY <2>2
<1>3. CASE /\ Queueable(f)
           /\ frun' = Append(frun, NewFlowRun(f, {}, i))
           /\ Update(i, [run EXCEPT !.flow = [@ EXCEPT ![k] = step]])
           /\ Goto(t, pc)
  <2>1. TickGoes(t, pc) /\ tick' \in [Ticks -> TickRows]
    <3>1. pc \in {"idle", "release"} \cup EarlyTicks \cup MvTicks \cup PbiTicks
      BY DEF EarlyTicks
    <3> QED  BY <1>3, <3>1, GotoEffect
  <2>2. Grows(NewFlowRun(f, {}, i)) /\ frun' \in Seq(FlowRuns) /\ \A j \in DOMAIN frun' : frun'[j].parent <= Len(runs)
    <3>1. i \in 0..Len(runs) /\ {} \in {FlowViews[g] : g \in Flows} \cup {{}}
      BY RowType
    <3> HIDE DEF f
    <3> QED  BY <1>1, <1>3, <3>1, GrowsEffect
  <2>3. Len(frun) \in Nat /\ step \in FlowSteps
    BY FrunFacts DEF FlowSteps, StepStatus
  <2>4. run.flow \in [DOMAIN PlanFlows[r] -> FlowSteps] /\ DOMAIN run.flow = DOMAIN runs[i].flow
    <3>1. run.flow \in [DOMAIN PlanFlows[r] -> FlowSteps]
      <4> HIDE DEF r
      <4> QED  BY <1>1, RowFields
    <3> QED  BY <3>1, <1>1
  <2>5. flow \in [DOMAIN PlanFlows[r] -> FlowSteps] /\ flow[k] = step /\ (\A l \in DOMAIN runs[i].flow : l # k => flow[l] = run.flow[l])
        /\ DOMAIN flow = DOMAIN runs[i].flow
    <3> HIDE DEF step, r
    <3> QED  BY <1>1, <2>3, <2>4
  <2>6. Update(i, row)
    BY <1>3
  <2> HIDE DEF flow
  <2>7. row \in RunsOf(r) /\ Same(run, row, {"flow"}) /\ row.flow = flow
    <3> HIDE DEF r
    <3> QED  BY <1>1, <2>5, FlowChanges
  <2> HIDE DEF row
  <2>8. Acts(i, runs'[i]) /\ runs'[i] = row /\ runs' \in Seq(AllRuns) /\ locks' = locks /\ LocalLocks
    BY <2>6, <2>7, UpdateEffect
  <2>9. Same(runs[i], row, {"flow"})
    BY <2>7 DEF Same
  <2>10. LocalFrun(i, row)
    <3>1. Len(frun') = Len(frun) + 1 /\ Len(frun) <= Len(frun) + 1 /\ Len(frun) \in Nat
      BY <2>2, <2>3 DEF Grows
    <3>2. ASSUME NEW l \in DOMAIN row.flow PROVE row.flow[l].run <= Len(frun')
      <4>1. CASE l = k
        BY <4>1, <3>1, <2>5, <2>7
      <4>2. CASE l # k
        <5>1. row.flow[l].run = runs[i].flow[l].run
          BY <4>2, <2>5, <2>7 DEF FlowAdvances, StepAdvances
        <5>2. runs[i].flow[l].run <= Len(frun) /\ runs[i].flow[l].run \in Nat
          BY <2>5, <2>7, FlowRow DEF TypeInv, FrunType, FlowSteps
        <5> QED  BY <3>1, <5>1, <5>2
      <4> QED  BY <4>1, <4>2
    <3> QED  BY <2>2, <3>1, <3>2 DEF LocalFrun
  <2>11. TypeInv'
    BY <1>3, <2>1, <2>8, <2>10, FlowTickTypes
  <2>12. \A l \in DOMAIN runs[i].flow : l # k => StepAdvances(runs[i].flow[l], row.flow[l])
    BY <2>4, <2>5, <2>7 DEF FlowAdvances
  <2>13. Queues(t, i, k, pc)
    BY <1>1, <1>3, <2>1, <2>2, <2>5, <2>7, <2>8, <2>9, <2>12 DEF Queues, NewChild
  <2> QED  BY <2>8, <2>11, <2>13
<1> QED  BY <1>2, <1>3 DEF QueueChild

\* With its workers online a run queues its first flow, goes on, or ends.
LEMMA TickPrepareEffect ==
  ASSUME TypeInv, NEW t \in Ticks, NEW i \in DOMAIN runs, OnRun(t, i), TickPrepare(t)
  PROVE  /\ TypeInv' /\ tick[t].pc = "preparing_workers" /\ Acts(i, runs'[i])
         /\ \/ /\ TickGoes(t, "advance") /\ Same(runs[i], runs'[i], {})
               /\ \A k \in DOMAIN runs[i].flow : runs[i].flow[k].st # "pending"
               /\ UNCHANGED <<target, built, server, runs, frun, fut, locks>>
            \/ \E k \in DOMAIN runs[i].flow : Queues(t, i, k, "advance")
            \/ FlowsEnd(t, i)
<1>1. tick[t].pc = "preparing_workers" /\ UNCHANGED <<target, built, server, fut>> /\ tick[t].run = i
  BY DEF TickPrepare, OnRun
<1>2. CASE Pending(runs[i]) = {}
  <2>1. Goto(t, "advance") /\ UNCHANGED <<runs, locks, frun>>
    BY <1>1, <1>2 DEF TickPrepare
  <2>2. TickGoes(t, "advance") /\ tick' \in [Ticks -> TickRows]
    BY <2>1, GotoEffect DEF EarlyTicks
  <2>3. Acts(i, runs'[i]) /\ Same(runs[i], runs'[i], {}) /\ runs'[i] = runs[i] /\ runs' \in Seq(AllRuns) /\ LocalLocks
    BY <2>1, NullUpdates
  <2>4. TypeInv'
    BY <1>1, <2>1, <2>2, <2>3, TickTypes
  <2>5. \A k \in DOMAIN runs[i].flow : runs[i].flow[k].st # "pending"
    BY <1>2 DEF Pending
  <2> QED  BY <1>1, <2>1, <2>2, <2>3, <2>4, <2>5
<1>3. CASE Pending(runs[i]) # {}
  <2> DEFINE k == Min(Pending(runs[i]))
  <2>1. QueueChild(t, i, runs[i], k, "advance")
    BY <1>1, <1>3 DEF TickPrepare
  <2>2. k \in Pending(runs[i])
    BY <1>3, FlowRow, MinIn
  <2>3. k \in DOMAIN runs[i].flow /\ runs[i].flow[k].st = "pending"
    BY <2>2 DEF Pending
  <2>4. runs[i] \in RunsOf(runs[i].report) /\ Same(runs[i], runs[i], {"flow"}) /\ FlowAdvances(i, runs[i])
    BY RowType DEF Same, FlowAdvances, StepAdvances
  <2> HIDE DEF k
  <2>5. TypeInv' /\ Acts(i, runs'[i]) /\ (Queues(t, i, k, "advance") \/ FlowsEnd(t, i))
    BY <1>1, <2>1, <2>3, <2>4, QueueChildEffect
  <2> QED  BY <1>1, <2>3, <2>5
<1> QED  BY <1>2, <1>3

\* A flow run that is overdue ends its run.
LEMMA TickOverdueEffect ==
  ASSUME TypeInv, NEW t \in Ticks, NEW i \in DOMAIN runs, OnRun(t, i), TickOverdue(t)
  PROVE  TypeInv' /\ tick[t].pc = "running_flows" /\ Acts(i, runs'[i]) /\ FlowsEnd(t, i)
<1>1. tick[t].pc = "running_flows" /\ UNCHANGED <<target, built, server, fut>> /\ tick[t].run = i /\ ChildOverdue(t, i, runs[i])
  BY DEF TickOverdue, OnRun
<1>2. PICK k \in DOMAIN runs[i].flow :
        /\ LET child == runs[i].flow[k].run IN
             \/ /\ Child(runs[i].flow[k]) = "queued"
                /\ frun' = [frun EXCEPT ![child] = [@ EXCEPT !.st = "cancelled"]]
                /\ Fails(i, [Settle(runs[i], k) EXCEPT !.flow = SetStep(@, k, "cancelled")], FALSE)
             \/ /\ Child(runs[i].flow[k]) = "running"
                /\ UNCHANGED frun
                /\ Fails(i, [Settle(runs[i], k) EXCEPT !.flow = SetStep(@, k, "failed")], FALSE)
        /\ Goto(t, "release")
  BY <1>1 DEF ChildOverdue
<1>3. FALSE \in BOOLEAN
  OBVIOUS
<1> DEFINE child == runs[i].flow[k].run
<1>4. CASE /\ Child(runs[i].flow[k]) = "queued"
           /\ frun' = [frun EXCEPT ![child] = [@ EXCEPT !.st = "cancelled"]]
           /\ Fails(i, [Settle(runs[i], k) EXCEPT !.flow = SetStep(@, k, "cancelled")], FALSE)
  <2> DEFINE run == [Settle(runs[i], k) EXCEPT !.flow = SetStep(@, k, "cancelled")]
  <2>1. run \in RunsOf(runs[i].report) /\ Same(runs[i], run, {"flow"}) /\ FlowMoves(i, run)
    BY SettleEnds
  <2>2. child \in Active
    BY <1>4, ChildValues DEF Active, FlowActive
  <2>3. Fails(i, run, FALSE)
    BY <1>4
  <2> HIDE DEF run, child
  <2>4. \E j \in Active : frun' = [frun EXCEPT ![j] = [@ EXCEPT !.st = "cancelled"]]
    BY <1>4, <2>2
  <2> QED  BY <1>1, <1>2, <1>3, <2>1, <2>3, <2>4, FlowsEndEffect
<1>5. CASE /\ Child(runs[i].flow[k]) = "running"
           /\ UNCHANGED frun
           /\ Fails(i, [Settle(runs[i], k) EXCEPT !.flow = SetStep(@, k, "failed")], FALSE)
  <2> DEFINE run == [Settle(runs[i], k) EXCEPT !.flow = SetStep(@, k, "failed")]
  <2>1. run \in RunsOf(runs[i].report) /\ Same(runs[i], run, {"flow"}) /\ FlowMoves(i, run)
    BY SettleEnds
  <2>2. Fails(i, run, FALSE)
    BY <1>5
  <2> HIDE DEF run
  <2> QED  BY <1>1, <1>2, <1>3, <1>5, <2>1, <2>2, FlowsEndEffect
<1> QED  BY <1>2, <1>4, <1>5

\* A child that failed, was cancelled or disappeared.
LEMMA ChildFailedEffect ==
  ASSUME TypeInv, NEW t \in Ticks, NEW i \in DOMAIN runs, OnRun(t, i),
         ChildFailed(t, i, runs[i]), UNCHANGED <<target, built, server, fut>>
  PROVE  TypeInv' /\ Acts(i, runs'[i]) /\ FlowsEnd(t, i)
<1> DEFINE k == Min(Bad(runs[i]))
           missing == Child(runs[i].flow[k]) = "missing"
           run == IF missing THEN [Settle(runs[i], k) EXCEPT !.flow = SetStep(@, k, "unknown")]
                             ELSE Settle(runs[i], k)
<1>1. Bad(runs[i]) # {} /\ Fails(i, run, missing) /\ Goto(t, "release") /\ UNCHANGED frun
  BY DEF ChildFailed
<1>2. k \in Bad(runs[i])
  BY <1>1, FlowRow, MinIn
<1>3. k \in DOMAIN runs[i].flow
  BY <1>2 DEF Bad
<1> HIDE DEF k
<1>4. run \in RunsOf(runs[i].report) /\ Same(runs[i], run, {"flow"}) /\ FlowMoves(i, run)
  <2>1. CASE missing
    BY <1>3, <2>1, SettleEnds
  <2>2. CASE ~missing
    BY <1>3, <2>2, SettleEffect
  <2> QED  BY <2>1, <2>2
<1>5. missing \in BOOLEAN
  OBVIOUS
<1> HIDE DEF run, missing
<1> QED  BY <1>1, <1>4, <1>5, FlowsEndEffect

\* No child failed: the next flow is queued, or the outcomes are recorded.
LEMMA ChildrenOnTrackEffect ==
  ASSUME TypeInv, NEW t \in Ticks, NEW i \in DOMAIN runs, OnRun(t, i),
         ChildrenOnTrack(t, i, runs[i]), UNCHANGED <<target, built, server, fut>>
  PROVE  /\ TypeInv' /\ Acts(i, runs'[i])
         /\ \/ FlowsEnd(t, i) \/ FlowsSettle(t, i)
            \/ /\ \E k \in DOMAIN runs[i].flow : Queues(t, i, k, "release")
               /\ \A k \in DOMAIN runs[i].flow : Child(runs[i].flow[k]) \notin FlowActive
<1> DEFINE r == runs[i].report
           n == Len(runs[i].flow)
           settled == Settle(runs[i], n)
           active == \E k \in DOMAIN runs[i].flow : Child(runs[i].flow[k]) \in FlowActive
<1>1. /\ settled \in RunsOf(r) /\ Same(runs[i], settled, {"flow"}) /\ FlowMoves(i, settled)
      /\ \A k \in DOMAIN runs[i].flow :
           settled.flow[k].st = IF runs[i].flow[k].st = "running" /\ Child(runs[i].flow[k]) \in {"succeeded", "failed", "cancelled"}
                                THEN Child(runs[i].flow[k]) ELSE runs[i].flow[k].st
  <2>1. \A k \in DOMAIN runs[i].flow : k <= n
    BY FlowRow
  <2> QED  BY <2>1, SettleEffect
<1>2. /\ Bad(runs[i]) = {}
      /\ IF Pending(runs[i]) # {} /\ ~active
         THEN QueueChild(t, i, settled, Min(Pending(runs[i])), "release")
         ELSE /\ Update(i, IF Pending(runs[i]) = {} /\ ~active THEN SetStage(settled, AfterFlows(runs[i])) ELSE settled)
              /\ Goto(t, "release") /\ UNCHANGED frun
  BY DEF ChildrenOnTrack
<1>5. FlowAdvances(i, settled)
  <2>1. ASSUME NEW k \in DOMAIN settled.flow PROVE StepAdvances(runs[i].flow[k], settled.flow[k])
    <3>1. k \in DOMAIN runs[i].flow /\ settled.flow[k].run = runs[i].flow[k].run
      BY <1>1 DEF FlowMoves, StepMoves
    <3>2. runs[i].flow[k].st = "running" => Child(runs[i].flow[k]) \notin {"failed", "cancelled"}
      BY <1>2, <3>1 DEF Bad
    <3> QED  BY <1>1, <3>1, <3>2 DEF StepAdvances
  <2> QED  BY <1>1, <2>1 DEF FlowAdvances, FlowMoves
<1> HIDE DEF settled
<1>3. CASE Pending(runs[i]) # {} /\ ~active
  <2> DEFINE k == Min(Pending(runs[i]))
  <2>1. QueueChild(t, i, settled, k, "release")
    BY <1>2, <1>3
  <2>2. k \in Pending(runs[i])
    BY <1>3, FlowRow, MinIn
  <2>3. k \in DOMAIN runs[i].flow /\ runs[i].flow[k].st = "pending"
    BY <2>2 DEF Pending
  <2> HIDE DEF k
  <2>4. TypeInv' /\ Acts(i, runs'[i]) /\ (Queues(t, i, k, "release") \/ FlowsEnd(t, i))
    BY <1>1, <1>5, <2>1, <2>3, QueueChildEffect
  <2> QED  BY <1>3, <2>3, <2>4
<1>4. CASE ~(Pending(runs[i]) # {} /\ ~active)
  <2> DEFINE done == Pending(runs[i]) = {} /\ ~active
             row == IF done THEN SetStage(settled, AfterFlows(runs[i])) ELSE settled
  <2>1. Update(i, row) /\ Goto(t, "release") /\ UNCHANGED frun
    BY <1>2, <1>4
  <2>2. r \in Reports /\ AfterFlows(runs[i]) \in Stages
    BY RowType DEF AfterFlows, Stages
  <2>3. /\ row \in RunsOf(r) /\ Same(settled, row, {"stage"})
        /\ row.stage = IF done THEN AfterFlows(runs[i]) ELSE settled.stage
    <3>1. CASE done
      <4>1. row = SetStage(settled, AfterFlows(runs[i]))
        BY <3>1
      <4> HIDE DEF r, row
      <4> QED  BY <1>1, <2>2, <3>1, <4>1, StageChanges
    <3>2. CASE ~done
      <4>1. row = settled
        BY <3>2
      <4> HIDE DEF row
      <4> QED  BY <1>1, <3>2, <4>1 DEF Same
    <3> QED  BY <3>1, <3>2
  <2> HIDE DEF row
  <2>4. Acts(i, runs'[i]) /\ runs'[i] = row /\ runs' \in Seq(AllRuns) /\ locks' = locks /\ LocalLocks
    BY <2>1, <2>3, UpdateEffect
  <2>5. TickGoes(t, "release") /\ tick' \in [Ticks -> TickRows]
    BY <2>1, GotoEffect
  <2>6. row.flow = settled.flow /\ FlowMoves(i, row) /\ FlowAdvances(i, row) /\ Same(runs[i], row, {"flow", "stage"})
    BY <1>1, <1>5, <2>3 DEF Same, FlowMoves, FlowAdvances
  <2>7. LocalFrun(i, runs'[i])
    BY <2>1, <2>4, <2>6, MovedFrun, FrunFacts
  <2>8. TypeInv'
    BY <2>1, <2>4, <2>5, <2>7, FlowTickTypes
  <2>9. row.stage = runs[i].stage \/ FlowsDone(i)
    <3>1. CASE ~done
      BY <1>1, <2>3, <3>1 DEF Same
    <3>2. CASE done
      <4>1. ASSUME NEW k \in DOMAIN runs[i].flow
            PROVE  runs[i].flow[k].st # "pending" /\ Child(runs[i].flow[k]) = "succeeded"
        <5>1. k \notin Pending(runs[i]) /\ k \notin Bad(runs[i]) /\ Child(runs[i].flow[k]) \notin FlowActive
          BY <1>2, <3>2
        <5> QED  BY <5>1, ChildValues DEF Pending, Bad
      <4>2. \A k \in DOMAIN runs[i].flow : row.flow[k].st = settled.flow[k].st
        BY <2>6
      <4>3. runs'[i].stage = AfterFlows(runs[i])
        BY <2>3, <2>4, <3>2
      <4> QED  BY <1>1, <2>4, <4>1, <4>2, <4>3 DEF FlowsDone
    <3> QED  BY <3>1, <3>2
  <2>10. FlowsSettle(t, i)
    BY <2>1, <2>4, <2>5, <2>6, <2>9 DEF FlowsSettle
  <2> QED  BY <2>4, <2>8, <2>10
<1> QED  BY <1>3, <1>4

\* A tick judges the flow runs: the run ends, records them, or queues the next.
LEMMA TickFlowsEffect ==
  ASSUME TypeInv, NEW t \in Ticks, NEW i \in DOMAIN runs, OnRun(t, i), TickFlows(t)
  PROVE  /\ TypeInv' /\ tick[t].pc = "running_flows" /\ Acts(i, runs'[i])
         /\ \/ FlowsEnd(t, i) \/ FlowsSettle(t, i)
            \/ /\ \E k \in DOMAIN runs[i].flow : Queues(t, i, k, "release")
               /\ \A k \in DOMAIN runs[i].flow : Child(runs[i].flow[k]) \notin FlowActive
<1>1. /\ tick[t].pc = "running_flows" /\ UNCHANGED <<target, built, server, fut>>
      /\ ChildFailed(t, i, runs[i]) \/ ChildrenOnTrack(t, i, runs[i])
  BY DEF TickFlows, OnRun
<1> QED  BY <1>1, ChildFailedEffect, ChildrenOnTrackEffect
(***************************************************************************)
(* The effect of each step of a future.                                    *)
(***************************************************************************)
MvIs(i, pc, todo) ==
  /\ fut'[i].mv.pc = pc /\ fut'[i].mv.todo = todo
  /\ fut'[i].pbi = fut[i].pbi /\ fut'[i].workers = fut[i].workers
  /\ \A j \in 1..MaxRuns : j # i => fut'[j] = fut[j]
PbiIs(i, pc, resume) ==
  /\ fut'[i].pbi.pc = pc /\ fut'[i].pbi.resume = resume
  /\ fut'[i].mv = fut[i].mv /\ fut'[i].workers = fut[i].workers
  /\ \A j \in 1..MaxRuns : j # i => fut'[j] = fut[j]
ViewTo(i, k, st, commits) ==
  /\ k \in DOMAIN runs[i].view
  /\ runs'[i].view[k].st = st /\ runs'[i].view[k].commits = commits
  /\ \A l \in DOMAIN runs[i].view : l # k => runs'[i].view[l] = runs[i].view[l]
Elsewhere == UNCHANGED <<target, built, server, frun, tick>>

\* The type invariant after a step of a future.
LEMMA FutureTypes ==
  ASSUME TypeInv, NEW i \in DOMAIN runs, Elsewhere,
         Acts(i, runs'[i]), runs' \in Seq(AllRuns), LocalLocks,
         \A k \in DOMAIN runs[i].flow : runs'[i].flow[k].run = runs[i].flow[k].run,
         fut' \in [1..MaxRuns -> Futures], \A j \in 1..MaxRuns : j # i => fut'[j] = fut[j],
         fut'[i].mv.todo \subseteq DOMAIN runs[i].view,
         fut'[i].mv.pc \in {"refresh", "refreshed"} => fut'[i].mv.todo # {}
  PROVE  TypeInv'
<1>0. DOMAIN runs'[i].flow = DOMAIN runs[i].flow /\ DOMAIN runs'[i].view = DOMAIN runs[i].view
  BY SameShape
<1>1. LocalRuns(i, runs'[i])
  BY DEF LocalRuns, TypeInv, Elsewhere
<1>2. LocalFrun(i, runs'[i])
  <2>2. frun \in Seq(FlowRuns) /\ (\A j \in DOMAIN frun : frun[j].parent <= Len(runs)) /\ \A k \in DOMAIN runs[i].flow : runs[i].flow[k].run <= Len(frun)
    BY DEF TypeInv, FrunType
  <2>3. Len(frun) <= Len(frun)
    BY FrunFacts
  <2> QED  BY <1>0, <2>2, <2>3 DEF LocalFrun, Elsewhere
<1>3. LocalFut(i, runs'[i])
  BY <1>0 DEF LocalFut
<1>4. LocalTick(i, runs'[i])
  BY DEF LocalTick, TypeInv, TickType, Elsewhere
<1> QED  BY <1>1, <1>2, <1>3, <1>4, LocalTypes

\* The future of the views gets a state.
LEMMA MvBecomesEffect ==
  ASSUME TypeInv, NEW i \in DOMAIN runs, NEW mv \in MvRows, MvBecomes(i, mv)
  PROVE  MvIs(i, mv.pc, mv.todo) /\ fut' \in [1..MaxRuns -> Futures]
<1>1. fut[i] \in Futures /\ i \in 1..MaxRuns /\ fut \in [1..MaxRuns -> Futures]
  BY RowType DEF TypeInv, FutType
<1> DEFINE new == [fut[i] EXCEPT !.mv = mv]
<1>2. new \in Futures /\ new.mv = mv /\ new.pbi = fut[i].pbi /\ new.workers = fut[i].workers
  BY <1>1 DEF Futures
<1>3. fut' = [fut EXCEPT ![i] = new]
  BY DEF MvBecomes
<1> HIDE DEF new
<1> QED  BY <1>1, <1>2, <1>3 DEF MvIs

\* The future of the views moves to another step.
LEMMA MvGotoEffect ==
  ASSUME TypeInv, NEW i \in DOMAIN runs, NEW pc \in {"none", "start", "next", "refresh", "refreshed", "failed"},
         MvGoto(i, pc)
  PROVE  MvIs(i, pc, fut[i].mv.todo) /\ fut' \in [1..MaxRuns -> Futures]
<1>1. fut[i] \in Futures
  BY RowType
<1> DEFINE mv == [fut[i].mv EXCEPT !.pc = pc]
<1>2. mv \in MvRows /\ mv.pc = pc /\ mv.todo = fut[i].mv.todo
  BY <1>1 DEF Futures, MvRows
<1>3. MvBecomes(i, mv)
  BY DEF MvGoto
<1> HIDE DEF mv
<1> QED  BY <1>2, <1>3, MvBecomesEffect

\* The future of the views ends.
LEMMA MvIdleEffect ==
  ASSUME TypeInv, NEW i \in DOMAIN runs, MvBecomes(i, NoFutures.mv)
  PROVE  MvIs(i, "none", {}) /\ fut' \in [1..MaxRuns -> Futures]
<1>1. NoFutures.mv \in MvRows /\ NoFutures.mv.pc = "none" /\ NoFutures.mv.todo = {}
  BY DEF NoFutures, MvRows
<1> HIDE DEF NoFutures
<1> QED  BY <1>1, MvBecomesEffect

\* The future of the dataset gets a state.
LEMMA PbiFutEffect ==
  ASSUME TypeInv, NEW i \in DOMAIN runs, NEW pbi \in PbiRows, fut' = [fut EXCEPT ![i] = [@ EXCEPT !.pbi = pbi]]
  PROVE  PbiIs(i, pbi.pc, pbi.resume) /\ fut' \in [1..MaxRuns -> Futures]
<1>1. fut[i] \in Futures /\ i \in 1..MaxRuns /\ fut \in [1..MaxRuns -> Futures]
  BY RowType DEF TypeInv, FutType
<1> DEFINE new == [fut[i] EXCEPT !.pbi = pbi]
<1>2. new \in Futures /\ new.mv = fut[i].mv /\ new.pbi = pbi /\ new.workers = fut[i].workers
  BY <1>1 DEF Futures
<1>3. fut' = [fut EXCEPT ![i] = new]
  OBVIOUS
<1> HIDE DEF new
<1> QED  BY <1>1, <1>2, <1>3 DEF PbiIs

\* The future of the dataset moves to another step.
LEMMA PbiGotoEffect ==
  ASSUME TypeInv, NEW i \in DOMAIN runs,
         NEW pc \in {"none", "start", "persist", "poll", "succeeded", "failed", "unknown"}, PbiGoto(i, pc)
  PROVE  PbiIs(i, pc, fut[i].pbi.resume) /\ fut' \in [1..MaxRuns -> Futures]
<1>1. fut[i] \in Futures
  BY RowType
<1> DEFINE pbi == [fut[i].pbi EXCEPT !.pc = pc]
<1>2. pbi \in PbiRows /\ pbi.pc = pc /\ pbi.resume = fut[i].pbi.resume
  BY <1>1 DEF Futures, PbiRows
<1>3. fut' = [fut EXCEPT ![i] = [@ EXCEPT !.pbi = pbi]]
  BY DEF PbiGoto
<1> HIDE DEF pbi
<1> QED  BY <1>2, <1>3, PbiFutEffect

\* A transaction that writes the view steps of run i.
LEMMA ViewUpdate ==
  ASSUME TypeInv, NEW i \in DOMAIN runs, NEW view \in [DOMAIN runs[i].view -> ViewSteps],
         Update(i, [runs[i] EXCEPT !.view = view])
  PROVE  /\ Acts(i, runs'[i]) /\ Same(runs[i], runs'[i], {"view"}) /\ runs'[i].view = view
         /\ runs' \in Seq(AllRuns) /\ locks' = locks /\ LocalLocks
<1> DEFINE r == runs[i].report
           row == [runs[i] EXCEPT !.view = view]
<1>1. r \in Reports /\ runs[i] \in RunsOf(r)
  BY RowType
<1>2. view \in [DOMAIN PlanViews[r] -> ViewSteps]
  <2>1. DOMAIN runs[i].view = DOMAIN PlanViews[r]
    <3> HIDE DEF r
    <3> QED  BY <1>1, RowFields
  <2> QED  BY <2>1
<1>3. row \in RunsOf(r) /\ Same(runs[i], row, {"view"}) /\ row.view = view
  <2> HIDE DEF r
  <2> QED  BY <1>1, <1>2, ViewChanges
<1>4. Update(i, row)
  OBVIOUS
<1> HIDE DEF row
<1> QED  BY <1>3, <1>4, UpdateEffect

\* A transaction that writes the dataset step of run i.
LEMMA PbiUpdate ==
  ASSUME TypeInv, NEW i \in DOMAIN runs, NEW pbi \in PbiSteps, PbiRow(i, pbi)
  PROVE  /\ Acts(i, runs'[i]) /\ Same(runs[i], runs'[i], {"pbi"}) /\ runs'[i].pbi = pbi
         /\ runs' \in Seq(AllRuns) /\ locks' = locks /\ LocalLocks
<1> DEFINE r == runs[i].report
           row == [runs[i] EXCEPT !.pbi = pbi]
<1>1. r \in Reports /\ runs[i] \in RunsOf(r)
  BY RowType
<1>3. row \in RunsOf(r) /\ Same(runs[i], row, {"pbi"}) /\ row.pbi = pbi
  <2> HIDE DEF r
  <2> QED  BY <1>1, PbiChanges
<1>4. Update(i, row)
  BY DEF PbiRow
<1> HIDE DEF row
<1> QED  BY <1>3, <1>4, UpdateEffect

\* The types of the view steps and of their future.
LEMMA ViewFacts ==
  ASSUME TypeInv, NEW i \in DOMAIN runs
  PROVE  /\ runs[i].report \in Reports /\ runs[i] \in RunsOf(runs[i].report)
         /\ runs[i].view \in [DOMAIN runs[i].view -> ViewSteps]
         /\ DOMAIN runs[i].view \subseteq Nat \ {0} /\ fut[i] \in Futures
         /\ fut[i].mv.todo \subseteq DOMAIN runs[i].view /\ fut[i].mv.todo \subseteq Nat
         /\ \A k \in DOMAIN runs[i].view : runs[i].view[k] \in ViewSteps
         /\ fut[i].mv.todo # {} =>
              Min(fut[i].mv.todo) \in fut[i].mv.todo /\ \A y \in fut[i].mv.todo : Min(fut[i].mv.todo) <= y
         /\ runs[i].pbi \in PbiSteps
<1> DEFINE r == runs[i].report
<1>1. r \in Reports /\ runs[i] \in RunsOf(r) /\ fut[i].mv.todo \subseteq DOMAIN runs[i].view /\ fut[i] \in Futures
  BY RowType
<1>2. runs[i].view \in [DOMAIN runs[i].view -> ViewSteps] /\ DOMAIN runs[i].view \subseteq Nat \ {0} /\ runs[i].pbi \in PbiSteps
  <2> HIDE DEF r
  <2> QED  BY <1>1, RowFields
<1>3. fut[i].mv.todo \subseteq Nat
  BY <1>1, <1>2
<1>4. \A k \in DOMAIN runs[i].view : runs[i].view[k] \in ViewSteps
  BY <1>2
<1> QED  BY <1>1, <1>2, <1>3, <1>4, MinIn

Late(i) == runs[i].stage # "preparing_workers" \/ \E t \in Ticks : OnRun(t, i)

\* The launch of the workers ends, and may fail the run.
LEMMA LaunchEffect ==
  ASSUME TypeInv, NEW i \in DOMAIN runs, Launch(i)
  PROVE  /\ TypeInv' /\ Elsewhere /\ Acts(i, runs'[i])
         /\ fut'[i].mv = fut[i].mv /\ fut'[i].pbi = fut[i].pbi /\ \A j \in 1..MaxRuns : j # i => fut'[j] = fut[j]
         /\ \/ UNCHANGED <<runs, locks>> /\ Same(runs[i], runs'[i], {})
            \/ \E run \in RunsOf(runs[i].report) :
                 /\ Same(runs[i], run, {"hurt"}) /\ Ends(i, run, runs'[i])
                 /\ run.hurt = runs[i].hurt \cup IF Late(i) THEN {"late"} ELSE {}
<1> DEFINE late == \/ runs[i].stage # "preparing_workers"
                   \/ \E t \in Ticks : tick[t].run = i /\ tick[t].pc # "idle"
           new == [fut[i] EXCEPT !.workers = FALSE]
<1>0. late <=> Late(i)
  BY DEF Late, OnRun
<1>1. /\ fut' = [fut EXCEPT ![i] = new] /\ Elsewhere
      /\ UNCHANGED <<runs, locks>> \/ Fails(i, Hurt(i, "late", late), FALSE)
  BY DEF Launch, Elsewhere
<1>2. fut[i] \in Futures /\ i \in 1..MaxRuns /\ fut \in [1..MaxRuns -> Futures]
      /\ fut[i].mv.todo \subseteq DOMAIN runs[i].view /\ (fut[i].mv.pc \in {"refresh", "refreshed"} => fut[i].mv.todo # {})
  BY RowType DEF TypeInv, FutType
<1>3. new \in Futures /\ new.mv = fut[i].mv /\ new.pbi = fut[i].pbi
  BY <1>2 DEF Futures
<1> HIDE DEF new
<1>4. /\ fut' \in [1..MaxRuns -> Futures] /\ \A j \in 1..MaxRuns : j # i => fut'[j] = fut[j]
      /\ fut'[i].mv = fut[i].mv /\ fut'[i].pbi = fut[i].pbi
  BY <1>1, <1>2, <1>3
<1>5. CASE UNCHANGED <<runs, locks>>
  <2>1. Acts(i, runs'[i]) /\ Same(runs[i], runs'[i], {}) /\ runs'[i] = runs[i] /\ runs' \in Seq(AllRuns) /\ LocalLocks
    BY <1>5, NullUpdates
  <2>2. TypeInv'
    BY <1>1, <1>2, <1>4, <2>1, FutureTypes
  <2> QED  BY <1>1, <1>4, <1>5, <2>1, <2>2
<1>6. CASE Fails(i, Hurt(i, "late", late), FALSE)
  <2> DEFINE run == Hurt(i, "late", late)
  <2>1. run \in RunsOf(runs[i].report) /\ Same(runs[i], run, {"hurt"})
        /\ run.hurt = runs[i].hurt \cup IF late THEN {"late"} ELSE {}
    BY HurtChanges DEF Harms
  <2>2. Fails(i, run, FALSE) /\ FALSE \in BOOLEAN
    BY <1>6
  <2> HIDE DEF run
  <2>3. /\ Acts(i, runs'[i]) /\ Ends(i, run, runs'[i]) /\ runs' \in Seq(AllRuns) /\ LocalLocks
        /\ \A k \in DOMAIN runs[i].flow : runs'[i].flow[k].run = run.flow[k].run
    BY <2>1, <2>2, FailEffect
  <2>4. run.flow = runs[i].flow
    BY <2>1 DEF Same
  <2>5. TypeInv'
    BY <1>1, <1>2, <1>4, <2>3, <2>4, FutureTypes
  <2>6. run.hurt = runs[i].hurt \cup IF Late(i) THEN {"late"} ELSE {}
    BY <1>0, <2>1
  <2> QED  BY <1>1, <1>4, <2>1, <2>3, <2>5, <2>6
<1> QED  BY <1>1, <1>5, <1>6

\* _run_mv_stage reads the views it has to refresh.
LEMMA MvStartEffect ==
  ASSUME TypeInv, NEW i \in DOMAIN runs, MvStart(i)
  PROVE  /\ TypeInv' /\ Elsewhere /\ Acts(i, runs'[i]) /\ Same(runs[i], runs'[i], {}) /\ UNCHANGED <<runs, locks>>
         /\ fut[i].mv.pc = "start"
         /\ MvIs(i, "next", {k \in DOMAIN runs[i].view : runs[i].view[k].st \in {"pending", "running"}})
<1> DEFINE todo == {k \in DOMAIN runs[i].view : runs[i].view[k].st \in {"pending", "running"}}
           mv == [pc |-> "next", todo |-> todo]
<1>1. fut[i].mv.pc = "start" /\ MvBecomes(i, mv) /\ Elsewhere /\ UNCHANGED <<runs, locks>>
  BY DEF MvStart, Elsewhere
<1>2. mv \in MvRows /\ mv.pc = "next" /\ mv.todo = todo
  <2>1. todo \subseteq Nat
    BY ViewFacts
  <2> HIDE DEF todo
  <2> QED  BY <2>1 DEF MvRows
<1>3. MvIs(i, "next", todo) /\ fut' \in [1..MaxRuns -> Futures]
  <2> HIDE DEF mv
  <2> QED  BY <1>1, <1>2, MvBecomesEffect
<1>4. Acts(i, runs'[i]) /\ Same(runs[i], runs'[i], {}) /\ runs'[i] = runs[i] /\ runs' \in Seq(AllRuns) /\ LocalLocks
  BY <1>1, NullUpdates
<1>5. TypeInv'
  BY <1>1, <1>3, <1>4, FutureTypes DEF MvIs
<1> QED  BY <1>1, <1>3, <1>4, <1>5

\* A step of the views' future that leaves the row alone.
LEMMA MvOnly ==
  ASSUME TypeInv, NEW i \in DOMAIN runs, Elsewhere, UNCHANGED <<runs, locks>>, MvBecomes(i, NoFutures.mv)
  PROVE  TypeInv' /\ Acts(i, runs'[i]) /\ Same(runs[i], runs'[i], {}) /\ MvIs(i, "none", {})
<1>1. MvIs(i, "none", {}) /\ fut' \in [1..MaxRuns -> Futures]
  BY MvIdleEffect
<1>2. Acts(i, runs'[i]) /\ Same(runs[i], runs'[i], {}) /\ runs'[i] = runs[i] /\ runs' \in Seq(AllRuns) /\ LocalLocks
  BY NullUpdates
<1>3. TypeInv'
  BY <1>1, <1>2, FutureTypes DEF MvIs
<1> QED  BY <1>1, <1>2, <1>3

\* One that changes a view step.
LEMMA MvWithView ==
  ASSUME TypeInv, NEW i \in DOMAIN runs, Elsewhere, NEW k \in DOMAIN runs[i].view,
         NEW view \in [DOMAIN runs[i].view -> ViewSteps], NEW st, NEW commits,
         view[k].st = st, view[k].commits = commits, \A l \in DOMAIN runs[i].view : l # k => view[l] = runs[i].view[l],
         Update(i, [runs[i] EXCEPT !.view = view]),
         NEW pc, NEW todo, todo \subseteq fut[i].mv.todo, pc \in {"refresh", "refreshed"} => todo # {},
         MvIs(i, pc, todo), fut' \in [1..MaxRuns -> Futures]
  PROVE  TypeInv' /\ Acts(i, runs'[i]) /\ Same(runs[i], runs'[i], {"view"}) /\ ViewTo(i, k, st, commits) /\ locks' = locks
<1>1. /\ Acts(i, runs'[i]) /\ Same(runs[i], runs'[i], {"view"}) /\ runs'[i].view = view
      /\ runs' \in Seq(AllRuns) /\ locks' = locks /\ LocalLocks
  BY ViewUpdate
<1>2. TypeInv'
  <2>1. todo \subseteq DOMAIN runs[i].view
    BY ViewFacts
  <2>2. \A l \in DOMAIN runs[i].flow : runs'[i].flow[l].run = runs[i].flow[l].run
    BY <1>1 DEF Same
  <2>3. /\ \A j \in 1..MaxRuns : j # i => fut'[j] = fut[j]
        /\ fut'[i].mv.todo \subseteq DOMAIN runs[i].view /\ (fut'[i].mv.pc \in {"refresh", "refreshed"} => fut'[i].mv.todo # {})
    BY <2>1 DEF MvIs
  <2> QED  BY <1>1, <2>2, <2>3, FutureTypes
<1> QED  BY <1>1, <1>2 DEF ViewTo

MvDone(i) ==
  /\ fut[i].mv.todo = {} /\ MvIs(i, "none", {}) /\ Same(runs[i], runs'[i], {"stage"})
  /\ runs'[i].stage = "refreshing_powerbi" /\ locks' = locks
MvQuits(i) == MvIs(i, "none", {}) /\ Same(runs[i], runs'[i], {}) /\ UNCHANGED <<runs, locks>> /\ server.up = "stopping"
MvSteps(i, pc, st, commits) ==
  LET todo == fut[i].mv.todo IN
  /\ todo # {} /\ MvIs(i, pc, todo) /\ Same(runs[i], runs'[i], {"view"}) /\ locks' = locks
  /\ ViewTo(i, Min(todo), st, commits)
Picked(i) == runs[i].view[Min(fut[i].mv.todo)]

\* The loop over the views is done, stops, fails, or marks its next view.
LEMMA MvNextEffect ==
  ASSUME TypeInv, NEW i \in DOMAIN runs, MvNext(i)
  PROVE  /\ TypeInv' /\ Elsewhere /\ Acts(i, runs'[i]) /\ fut[i].mv.pc = "next"
         /\ \/ MvDone(i) \/ MvQuits(i)
            \/ MvSteps(i, "failed", "failed", Picked(i).commits)
            \/ MvSteps(i, "refresh", IF Picked(i).st = "pending" THEN "running" ELSE Picked(i).st, Picked(i).commits)
<1> DEFINE r == runs[i].report
           todo == fut[i].mv.todo
           k == Min(todo)
<1>1. fut[i].mv.pc = "next" /\ Elsewhere
  BY DEF MvNext, Elsewhere
<1>2. /\ r \in Reports /\ runs[i] \in RunsOf(r) /\ todo \subseteq DOMAIN runs[i].view
      /\ runs[i].view \in [DOMAIN runs[i].view -> ViewSteps]
      /\ todo # {} => k \in DOMAIN runs[i].view
  BY ViewFacts
<1> HIDE DEF k
<1>3. CASE todo = {}
  <2> DEFINE row == SetStage(runs[i], "refreshing_powerbi")
  <2>1. MvBecomes(i, NoFutures.mv) /\ Update(i, row)
    BY <1>3 DEF MvNext
  <2>2. row \in RunsOf(r) /\ Same(runs[i], row, {"stage"}) /\ row.stage = "refreshing_powerbi"
    <3> HIDE DEF r
    <3> QED  BY <1>2, StageChanges DEF Stages
  <2> HIDE DEF row
  <2>3. Acts(i, runs'[i]) /\ runs'[i] = row /\ runs' \in Seq(AllRuns) /\ locks' = locks /\ LocalLocks
    BY <2>1, <2>2, UpdateEffect
  <2>4. MvIs(i, "none", {}) /\ fut' \in [1..MaxRuns -> Futures]
    BY <2>1, MvIdleEffect
  <2>5. TypeInv'
    BY <1>1, <2>2, <2>3, <2>4, FutureTypes DEF MvIs, Same
  <2> QED  BY <1>1, <1>3, <2>2, <2>3, <2>4, <2>5 DEF MvDone
<1>4. CASE todo # {} /\ server.up = "stopping"
  <2>1. MvBecomes(i, NoFutures.mv) /\ UNCHANGED <<runs, locks>>
    BY <1>4 DEF MvNext
  <2> QED  BY <1>1, <1>4, <2>1, MvOnly DEF MvQuits
<1>5. CASE todo # {} /\ server.up # "stopping" /\ runs[i].server # server.endpoint
  <2> DEFINE view == SetStep(runs[i].view, k, "failed")
  <2>1. MvGoto(i, "failed") /\ Update(i, [runs[i] EXCEPT !.view = view])
    BY <1>5 DEF MvNext, k
  <2>2. /\ view \in [DOMAIN runs[i].view -> ViewSteps] /\ view[k].st = "failed" /\ view[k].commits = runs[i].view[k].commits
        /\ \A l \in DOMAIN runs[i].view : l # k => view[l] = runs[i].view[l]
    BY <1>2, <1>5, StepChanges DEF StepStatus
  <2> HIDE DEF view
  <2>3. MvIs(i, "failed", todo) /\ fut' \in [1..MaxRuns -> Futures]
    BY <2>1, MvGotoEffect
  <2>4. TypeInv' /\ Acts(i, runs'[i]) /\ Same(runs[i], runs'[i], {"view"})
        /\ ViewTo(i, k, "failed", runs[i].view[k].commits) /\ locks' = locks
    BY <1>1, <1>2, <1>5, <2>1, <2>2, <2>3, MvWithView
  <2> QED  BY <1>1, <1>5, <2>3, <2>4 DEF MvSteps, Picked, k
<1>6. CASE todo # {} /\ server.up # "stopping" /\ runs[i].server = server.endpoint
  <2> DEFINE st == IF runs[i].view[k].st = "pending" THEN "running" ELSE runs[i].view[k].st
             view == IF runs[i].view[k].st = "pending" THEN SetStep(runs[i].view, k, "running") ELSE runs[i].view
  <2>1. MvGoto(i, "refresh") /\ Update(i, [runs[i] EXCEPT !.view = view])
    BY <1>6 DEF MvNext, k
  <2>2. /\ view \in [DOMAIN runs[i].view -> ViewSteps] /\ view[k].st = st /\ view[k].commits = runs[i].view[k].commits
        /\ \A l \in DOMAIN runs[i].view : l # k => view[l] = runs[i].view[l]
    BY <1>2, <1>6, StepChanges DEF StepStatus
  <2> HIDE DEF view, st
  <2>3. MvIs(i, "refresh", todo) /\ fut' \in [1..MaxRuns -> Futures]
    BY <2>1, MvGotoEffect
  <2>4. TypeInv' /\ Acts(i, runs'[i]) /\ Same(runs[i], runs'[i], {"view"})
        /\ ViewTo(i, k, st, runs[i].view[k].commits) /\ locks' = locks
    BY <1>1, <1>2, <1>6, <2>1, <2>2, <2>3, MvWithView
  <2> QED  BY <1>1, <1>6, <2>3, <2>4 DEF MvSteps, Picked, k, st
<1> QED  BY <1>3, <1>4, <1>5, <1>6

\* A refresh commits or raises.
LEMMA MvRefreshEffect ==
  ASSUME TypeInv, NEW i \in DOMAIN runs, MvRefresh(i)
  PROVE  /\ TypeInv' /\ Elsewhere /\ Acts(i, runs'[i]) /\ fut[i].mv.pc = "refresh"
         /\ \/ MvSteps(i, "refreshed", Picked(i).st, Picked(i).commits + 1)
            \/ \E n \in {0, 1} : MvSteps(i, "failed", "failed", Picked(i).commits + n)
<1> DEFINE todo == fut[i].mv.todo
           k == Min(todo)
<1>1. fut[i].mv.pc = "refresh" /\ Elsewhere
  BY DEF MvRefresh, Elsewhere
<1>2. todo # {} /\ k \in DOMAIN runs[i].view /\ runs[i].view \in [DOMAIN runs[i].view -> ViewSteps]
  BY <1>1, ViewFacts, RowType
<1>3. \/ MvGoto(i, "refreshed") /\ Update(i, [runs[i] EXCEPT !.view = Commit(@, k, 1)])
      \/ \E n \in {0, 1} :
           MvGoto(i, "failed") /\ Update(i, [runs[i] EXCEPT !.view = SetStep(Commit(@, k, n), k, "failed")])
  BY DEF MvRefresh
<1> HIDE DEF k
<1>4. CASE MvGoto(i, "refreshed") /\ Update(i, [runs[i] EXCEPT !.view = Commit(@, k, 1)])
  <2> DEFINE view == Commit(runs[i].view, k, 1)
  <2>1. Update(i, [runs[i] EXCEPT !.view = view])
    BY <1>4
  <2>2. /\ view \in [DOMAIN runs[i].view -> ViewSteps] /\ view[k].st = runs[i].view[k].st /\ view[k].commits = runs[i].view[k].commits + 1
        /\ \A l \in DOMAIN runs[i].view : l # k => view[l] = runs[i].view[l]
    BY <1>2, CommitChanges
  <2> HIDE DEF view
  <2>3. MvIs(i, "refreshed", todo) /\ fut' \in [1..MaxRuns -> Futures]
    BY <1>4, MvGotoEffect
  <2>4. TypeInv' /\ Acts(i, runs'[i]) /\ Same(runs[i], runs'[i], {"view"})
        /\ ViewTo(i, k, runs[i].view[k].st, runs[i].view[k].commits + 1) /\ locks' = locks
    BY <1>1, <1>2, <2>1, <2>2, <2>3, MvWithView
  <2> QED  BY <1>1, <1>2, <2>3, <2>4 DEF MvSteps, Picked, k
<1>5. ASSUME NEW n \in {0, 1}, MvGoto(i, "failed"),
             Update(i, [runs[i] EXCEPT !.view = SetStep(Commit(@, k, n), k, "failed")])
      PROVE  TypeInv' /\ Acts(i, runs'[i]) /\ MvSteps(i, "failed", "failed", Picked(i).commits + n)
  <2> DEFINE committed == Commit(runs[i].view, k, n)
             view == SetStep(committed, k, "failed")
  <2>1. Update(i, [runs[i] EXCEPT !.view = view])
    BY <1>5
  <2>2. /\ committed \in [DOMAIN runs[i].view -> ViewSteps] /\ committed[k].commits = runs[i].view[k].commits + n
        /\ \A l \in DOMAIN runs[i].view : l # k => committed[l] = runs[i].view[l]
    BY <1>2, CommitChanges
  <2> HIDE DEF committed
  <2>3. /\ view \in [DOMAIN runs[i].view -> ViewSteps] /\ view[k].st = "failed" /\ view[k].commits = committed[k].commits
        /\ \A l \in DOMAIN runs[i].view : l # k => view[l] = committed[l]
    BY <1>2, <2>2, StepChanges DEF StepStatus
  <2> HIDE DEF view
  <2>4. MvIs(i, "failed", todo) /\ fut' \in [1..MaxRuns -> Futures]
    BY <1>5, MvGotoEffect
  <2>5. view[k].commits = runs[i].view[k].commits + n /\ \A l \in DOMAIN runs[i].view : l # k => view[l] = runs[i].view[l]
    BY <2>2, <2>3
  <2>6. TypeInv' /\ Acts(i, runs'[i]) /\ Same(runs[i], runs'[i], {"view"})
        /\ ViewTo(i, k, "failed", runs[i].view[k].commits + n) /\ locks' = locks
    BY <1>1, <1>2, <2>1, <2>3, <2>4, <2>5, MvWithView
  <2> QED  BY <1>1, <1>2, <2>4, <2>6 DEF MvSteps, Picked, k
<1> QED  BY <1>1, <1>3, <1>4, <1>5

\* A refresh is recorded.
LEMMA MvRecordEffect ==
  ASSUME TypeInv, NEW i \in DOMAIN runs, MvRecord(i)
  PROVE  /\ TypeInv' /\ Elsewhere /\ Acts(i, runs'[i]) /\ fut[i].mv.pc = "refreshed" /\ fut[i].mv.todo # {}
         /\ MvIs(i, "next", fut[i].mv.todo \ {Min(fut[i].mv.todo)})
         /\ Same(runs[i], runs'[i], {"view"}) /\ locks' = locks
         /\ ViewTo(i, Min(fut[i].mv.todo), "succeeded", Picked(i).commits)
<1> DEFINE todo == fut[i].mv.todo
           k == Min(todo)
           mv == [pc |-> "next", todo |-> todo \ {k}]
           view == SetStep(runs[i].view, k, "succeeded")
<1>1. fut[i].mv.pc = "refreshed" /\ Elsewhere /\ MvBecomes(i, mv) /\ Update(i, [runs[i] EXCEPT !.view = view])
  BY DEF MvRecord, Elsewhere
<1>2. todo # {} /\ k \in DOMAIN runs[i].view /\ runs[i].view \in [DOMAIN runs[i].view -> ViewSteps] /\ todo \subseteq Nat
  BY <1>1, ViewFacts, RowType
<1> HIDE DEF k
<1>3. mv \in MvRows /\ mv.pc = "next" /\ mv.todo = todo \ {k}
  BY <1>2 DEF MvRows
<1> HIDE DEF mv
<1>4. MvIs(i, "next", todo \ {k}) /\ fut' \in [1..MaxRuns -> Futures]
  BY <1>1, <1>3, MvBecomesEffect
<1>5. /\ view \in [DOMAIN runs[i].view -> ViewSteps] /\ view[k].st = "succeeded" /\ view[k].commits = runs[i].view[k].commits
      /\ \A l \in DOMAIN runs[i].view : l # k => view[l] = runs[i].view[l]
  BY <1>2, StepChanges DEF StepStatus
<1> HIDE DEF view
<1>6. TypeInv' /\ Acts(i, runs'[i]) /\ Same(runs[i], runs'[i], {"view"})
      /\ ViewTo(i, k, "succeeded", runs[i].view[k].commits) /\ locks' = locks
  BY <1>1, <1>2, <1>4, <1>5, MvWithView
<1> QED  BY <1>1, <1>2, <1>4, <1>6 DEF Picked, k

\* A failed refresh ends the run.
LEMMA MvFailEffect ==
  ASSUME TypeInv, NEW i \in DOMAIN runs, MvFail(i)
  PROVE  /\ TypeInv' /\ Elsewhere /\ Acts(i, runs'[i]) /\ fut[i].mv.pc = "failed" /\ MvIs(i, "none", {})
         /\ Ends(i, runs[i], runs'[i])
<1>1. fut[i].mv.pc = "failed" /\ Elsewhere /\ MvBecomes(i, NoFutures.mv) /\ Fails(i, runs[i], FALSE) /\ FALSE \in BOOLEAN
  BY DEF MvFail, Elsewhere, Fail
<1>2. MvIs(i, "none", {}) /\ fut' \in [1..MaxRuns -> Futures]
  BY <1>1, MvIdleEffect
<1>3. runs[i] \in RunsOf(runs[i].report)
  BY RowType
<1>4. /\ Acts(i, runs'[i]) /\ Ends(i, runs[i], runs'[i]) /\ runs' \in Seq(AllRuns) /\ LocalLocks
      /\ \A k \in DOMAIN runs[i].flow : runs'[i].flow[k].run = runs[i].flow[k].run
  BY <1>1, <1>3, FailEffect
<1>5. TypeInv'
  BY <1>1, <1>2, <1>4, FutureTypes DEF MvIs
<1> QED  BY <1>1, <1>2, <1>4, <1>5

\* The Power BI step and its future after a step of the future.
PbiMoves(i, pc, st, request, triggers) ==
  /\ PbiIs(i, pc, fut[i].pbi.resume) /\ Same(runs[i], runs'[i], {"pbi"}) /\ locks' = locks
  /\ runs'[i].pbi.st = st /\ runs'[i].pbi.request = request /\ runs'[i].pbi.triggers = triggers
PbiKeeps(i, pc) ==
  PbiIs(i, pc, fut[i].pbi.resume) /\ Same(runs[i], runs'[i], {}) /\ UNCHANGED <<runs, locks>>

\* TypeInv after a step of the dataset's future.
LEMMA PbiFutureTypes ==
  ASSUME TypeInv, NEW i \in DOMAIN runs, Elsewhere,
         Acts(i, runs'[i]), runs' \in Seq(AllRuns), LocalLocks,
         \A k \in DOMAIN runs[i].flow : runs'[i].flow[k].run = runs[i].flow[k].run,
         NEW pc, NEW resume, PbiIs(i, pc, resume), fut' \in [1..MaxRuns -> Futures]
  PROVE  TypeInv'
<1>1. fut[i].mv.todo \subseteq DOMAIN runs[i].view /\ (fut[i].mv.pc \in {"refresh", "refreshed"} => fut[i].mv.todo # {})
  BY RowType
<1> QED  BY <1>1, FutureTypes DEF PbiIs

\* The dataset's future moves and writes its step.
LEMMA PbiMovesEffect ==
  ASSUME TypeInv, NEW i \in DOMAIN runs, Elsewhere,
         NEW pc \in {"none", "start", "persist", "poll", "succeeded", "failed", "unknown"}, PbiGoto(i, pc),
         NEW pbi \in PbiSteps, PbiRow(i, pbi)
  PROVE  TypeInv' /\ Acts(i, runs'[i]) /\ PbiMoves(i, pc, pbi.st, pbi.request, pbi.triggers)
<1>1. PbiIs(i, pc, fut[i].pbi.resume) /\ fut' \in [1..MaxRuns -> Futures]
  BY PbiGotoEffect
<1>2. /\ Acts(i, runs'[i]) /\ Same(runs[i], runs'[i], {"pbi"}) /\ runs'[i].pbi = pbi
      /\ runs' \in Seq(AllRuns) /\ locks' = locks /\ LocalLocks
  BY PbiUpdate
<1>3. TypeInv'
  BY <1>1, <1>2, PbiFutureTypes DEF Same
<1> QED  BY <1>1, <1>2, <1>3 DEF PbiMoves

\* The dataset's future moves and writes nothing.
LEMMA PbiKeepsEffect ==
  ASSUME TypeInv, NEW i \in DOMAIN runs, Elsewhere, UNCHANGED <<runs, locks>>,
         NEW pc \in {"none", "start", "persist", "poll", "succeeded", "failed", "unknown"}, PbiGoto(i, pc)
  PROVE  TypeInv' /\ Acts(i, runs'[i]) /\ PbiKeeps(i, pc)
<1>1. PbiIs(i, pc, fut[i].pbi.resume) /\ fut' \in [1..MaxRuns -> Futures]
  BY PbiGotoEffect
<1>2. Acts(i, runs'[i]) /\ Same(runs[i], runs'[i], {}) /\ runs'[i] = runs[i] /\ runs' \in Seq(AllRuns) /\ LocalLocks
  BY NullUpdates
<1>3. TypeInv'
  BY <1>1, <1>2, PbiFutureTypes
<1> QED  BY <1>1, <1>2, <1>3 DEF PbiKeeps

\* A dataset step gets a status.
LEMMA PbiStatus ==
  ASSUME NEW pbi \in PbiSteps, NEW st \in StepStatus
  PROVE  LET new == [pbi EXCEPT !.st = st]
         IN  new \in PbiSteps /\ new.st = st /\ new.request = pbi.request /\ new.triggers = pbi.triggers
BY DEF PbiSteps

\* A dataset step is triggered n times more.
LEMMA PbiTriggers ==
  ASSUME NEW pbi \in PbiSteps, NEW n \in Nat
  PROVE  LET new == [pbi EXCEPT !.triggers = @ + n]
         IN  new \in PbiSteps /\ new.st = pbi.st /\ new.request = pbi.request /\ new.triggers = pbi.triggers + n
<1>1. pbi.triggers \in Nat /\ pbi.triggers + n \in Nat
  BY DEF PbiSteps
<1> DEFINE m == pbi.triggers + n
<1>2. m \in Nat
  BY <1>1
<1> HIDE DEF m
<1>3. LET new == [pbi EXCEPT !.triggers = m]
      IN  new \in PbiSteps /\ new.st = pbi.st /\ new.request = pbi.request /\ new.triggers = m
  BY <1>2 DEF PbiSteps
<1> QED  BY <1>3 DEF m

\* A dataset step is triggered and its request is unknown.
LEMMA PbiUnknown ==
  ASSUME NEW pbi \in PbiSteps
  PROVE  LET new == [pbi EXCEPT !.triggers = @ + 1, !.st = "unknown"]
         IN  new \in PbiSteps /\ new.st = "unknown" /\ new.request = pbi.request /\ new.triggers = pbi.triggers + 1
<1> DEFINE m == pbi.triggers + 1
<1>1. m \in Nat
  BY DEF PbiSteps
<1> HIDE DEF m
<1>2. LET new == [pbi EXCEPT !.triggers = m, !.st = "unknown"]
      IN  new \in PbiSteps /\ new.st = "unknown" /\ new.request = pbi.request /\ new.triggers = m
  BY <1>1 DEF PbiSteps, StepStatus
<1> QED  BY <1>2 DEF m

\* A dataset step has its request id.
LEMMA PbiRequest ==
  ASSUME NEW pbi \in PbiSteps
  PROVE  LET new == [pbi EXCEPT !.request = TRUE]
         IN  new \in PbiSteps /\ new.st = pbi.st /\ new.request = TRUE /\ new.triggers = pbi.triggers
BY DEF PbiSteps

\* _run_powerbi_stage resumes, gives up, or triggers the refresh.
LEMMA PbiStartEffect ==
  ASSUME TypeInv, NEW i \in DOMAIN runs, PbiStart(i)
  PROVE  LET pbi == runs[i].pbi IN
         /\ TypeInv' /\ Elsewhere /\ Acts(i, runs'[i]) /\ fut[i].pbi.pc = "start"
         /\ \/ pbi.request /\ PbiKeeps(i, "poll")
            \/ ~pbi.request /\ fut[i].pbi.resume /\ PbiMoves(i, "unknown", "unknown", pbi.request, pbi.triggers)
            \/ /\ ~pbi.request /\ ~fut[i].pbi.resume
               /\ \/ PbiMoves(i, "persist", pbi.st, pbi.request, pbi.triggers + 1)
                  \/ PbiMoves(i, "unknown", "unknown", pbi.request, pbi.triggers + 1)
                  \/ \E n \in {0, 1} : PbiMoves(i, "failed", pbi.st, pbi.request, pbi.triggers + n)
<1> DEFINE pbi == runs[i].pbi
<1>1. fut[i].pbi.pc = "start" /\ Elsewhere /\ pbi \in PbiSteps
  BY ViewFacts DEF PbiStart, Elsewhere
<1>2. \/ pbi.request /\ PbiGoto(i, "poll") /\ UNCHANGED <<runs, locks>>
      \/ /\ ~pbi.request /\ fut[i].pbi.resume
         /\ PbiGoto(i, "unknown") /\ PbiRow(i, [pbi EXCEPT !.st = "unknown"])
      \/ /\ ~pbi.request /\ ~fut[i].pbi.resume
         /\ \/ PbiGoto(i, "persist") /\ PbiRow(i, [pbi EXCEPT !.triggers = @ + 1])
            \/ /\ PbiGoto(i, "unknown")
               /\ PbiRow(i, [pbi EXCEPT !.triggers = @ + 1, !.st = "unknown"])
            \/ \E n \in {0, 1} : PbiGoto(i, "failed") /\ PbiRow(i, [pbi EXCEPT !.triggers = @ + n])
  BY DEF PbiStart
<1>3. CASE pbi.request /\ PbiGoto(i, "poll") /\ UNCHANGED <<runs, locks>>
  BY <1>1, <1>3, PbiKeepsEffect
<1> HIDE DEF pbi
<1>4. CASE /\ ~pbi.request /\ fut[i].pbi.resume
           /\ PbiGoto(i, "unknown") /\ PbiRow(i, [pbi EXCEPT !.st = "unknown"])
  <2> DEFINE new == [pbi EXCEPT !.st = "unknown"]
  <2>1. new \in PbiSteps /\ new.st = "unknown" /\ new.request = pbi.request /\ new.triggers = pbi.triggers
    BY <1>1, PbiStatus DEF StepStatus
  <2>2. PbiRow(i, new)
    BY <1>4
  <2> HIDE DEF new
  <2>3. TypeInv' /\ Acts(i, runs'[i]) /\ PbiMoves(i, "unknown", "unknown", pbi.request, pbi.triggers)
    BY <1>1, <1>4, <2>1, <2>2, PbiMovesEffect
  <2> QED  BY <1>1, <1>4, <2>3 DEF pbi
<1>5. CASE ~pbi.request /\ ~fut[i].pbi.resume /\ PbiGoto(i, "persist") /\ PbiRow(i, [pbi EXCEPT !.triggers = @ + 1])
  <2> DEFINE new == [pbi EXCEPT !.triggers = @ + 1]
  <2>1. new \in PbiSteps /\ new.st = pbi.st /\ new.request = pbi.request /\ new.triggers = pbi.triggers + 1
    BY <1>1, PbiTriggers
  <2>2. PbiRow(i, new)
    BY <1>5
  <2> HIDE DEF new
  <2>3. TypeInv' /\ Acts(i, runs'[i]) /\ PbiMoves(i, "persist", pbi.st, pbi.request, pbi.triggers + 1)
    BY <1>1, <1>5, <2>1, <2>2, PbiMovesEffect
  <2> QED  BY <1>1, <1>5, <2>3 DEF pbi
<1>6. CASE /\ ~pbi.request /\ ~fut[i].pbi.resume
           /\ PbiGoto(i, "unknown") /\ PbiRow(i, [pbi EXCEPT !.triggers = @ + 1, !.st = "unknown"])
  <2> DEFINE new == [pbi EXCEPT !.triggers = @ + 1, !.st = "unknown"]
  <2>1. new \in PbiSteps /\ new.st = "unknown" /\ new.request = pbi.request /\ new.triggers = pbi.triggers + 1
    BY <1>1, PbiUnknown
  <2>2. PbiRow(i, new)
    BY <1>6
  <2> HIDE DEF new
  <2>3. TypeInv' /\ Acts(i, runs'[i]) /\ PbiMoves(i, "unknown", "unknown", pbi.request, pbi.triggers + 1)
    BY <1>1, <1>6, <2>1, <2>2, PbiMovesEffect
  <2> QED  BY <1>1, <1>6, <2>3 DEF pbi
<1>7. ASSUME ~pbi.request, ~fut[i].pbi.resume, NEW n \in {0, 1}, PbiGoto(i, "failed"),
             PbiRow(i, [pbi EXCEPT !.triggers = @ + n])
      PROVE  TypeInv' /\ Acts(i, runs'[i]) /\ PbiMoves(i, "failed", pbi.st, pbi.request, pbi.triggers + n)
  <2> DEFINE new == [pbi EXCEPT !.triggers = @ + n]
  <2>1. n \in Nat
    OBVIOUS
  <2>2. new \in PbiSteps /\ new.st = pbi.st /\ new.request = pbi.request /\ new.triggers = pbi.triggers + n
    BY <1>1, <2>1, PbiTriggers
  <2>3. PbiRow(i, new)
    BY <1>7
  <2> HIDE DEF new
  <2> QED  BY <1>1, <1>7, <2>2, <2>3, PbiMovesEffect
<1> QED  BY <1>1, <1>2, <1>3, <1>4, <1>5, <1>6, <1>7 DEF pbi

\* The request id is persisted.
LEMMA PbiPersistEffect ==
  ASSUME TypeInv, NEW i \in DOMAIN runs, PbiPersist(i)
  PROVE  /\ TypeInv' /\ Elsewhere /\ Acts(i, runs'[i]) /\ fut[i].pbi.pc = "persist"
         /\ PbiMoves(i, "poll", runs[i].pbi.st, TRUE, runs[i].pbi.triggers)
<1>1. fut[i].pbi.pc = "persist" /\ Elsewhere /\ PbiGoto(i, "poll")
      /\ PbiRow(i, [runs[i].pbi EXCEPT !.request = TRUE]) /\ runs[i].pbi \in PbiSteps
  BY ViewFacts DEF PbiPersist, Elsewhere
<1> DEFINE new == [runs[i].pbi EXCEPT !.request = TRUE]
<1>2. new \in PbiSteps /\ new.st = runs[i].pbi.st /\ new.request = TRUE /\ new.triggers = runs[i].pbi.triggers
  BY <1>1, PbiRequest
<1>3. PbiRow(i, new)
  BY <1>1
<1> HIDE DEF new
<1> QED  BY <1>1, <1>2, <1>3, PbiMovesEffect

\* The poll finds an outcome, fails, or stops with the server.
LEMMA PbiPollEffect ==
  ASSUME TypeInv, NEW i \in DOMAIN runs, PbiPoll(i)
  PROVE  /\ TypeInv' /\ Elsewhere /\ Acts(i, runs'[i]) /\ fut[i].pbi.pc = "poll"
         /\ \/ \E st \in {"succeeded", "failed"} : PbiMoves(i, st, st, runs[i].pbi.request, runs[i].pbi.triggers)
            \/ PbiKeeps(i, "failed") \/ PbiKeeps(i, "none")
<1>1. fut[i].pbi.pc = "poll" /\ Elsewhere /\ runs[i].pbi \in PbiSteps
  BY ViewFacts DEF PbiPoll, Elsewhere
<1>2. \/ \E st \in {"succeeded", "failed"} : PbiGoto(i, st) /\ PbiRow(i, [runs[i].pbi EXCEPT !.st = st])
      \/ PbiGoto(i, "failed") /\ UNCHANGED <<runs, locks>>
      \/ PbiGoto(i, "none") /\ UNCHANGED <<runs, locks>>
  BY DEF PbiPoll
<1>3. ASSUME NEW st \in {"succeeded", "failed"}, PbiGoto(i, st), PbiRow(i, [runs[i].pbi EXCEPT !.st = st])
      PROVE  TypeInv' /\ Acts(i, runs'[i]) /\ PbiMoves(i, st, st, runs[i].pbi.request, runs[i].pbi.triggers)
  <2> DEFINE new == [runs[i].pbi EXCEPT !.st = st]
  <2>0. st \in StepStatus
    BY DEF StepStatus
  <2>1. new \in PbiSteps /\ new.st = st /\ new.request = runs[i].pbi.request /\ new.triggers = runs[i].pbi.triggers
    BY <1>1, <2>0, PbiStatus
  <2>2. PbiRow(i, new)
    BY <1>3
  <2> HIDE DEF new
  <2> QED  BY <1>1, <1>3, <2>1, <2>2, PbiMovesEffect
<1>4. CASE PbiGoto(i, "failed") /\ UNCHANGED <<runs, locks>>
  BY <1>1, <1>4, PbiKeepsEffect
<1>5. CASE PbiGoto(i, "none") /\ UNCHANGED <<runs, locks>>
  BY <1>1, <1>5, PbiKeepsEffect
<1> QED  BY <1>1, <1>2, <1>3, <1>4, <1>5

PbiEnds(i) ==
  /\ PbiIs(i, "none", FALSE)
  /\ \/ /\ fut[i].pbi.pc = "succeeded" /\ Same(runs[i], runs'[i], {"stage"}) /\ runs'[i].stage = "succeeded"
        /\ Released(i)
     \/ fut[i].pbi.pc \in {"failed", "unknown"} /\ Ends(i, runs[i], runs'[i])

\* The outcome of the dataset ends the run.
LEMMA PbiEndEffect ==
  ASSUME TypeInv, NEW i \in DOMAIN runs, PbiEnd(i)
  PROVE  TypeInv' /\ Elsewhere /\ Acts(i, runs'[i]) /\ PbiEnds(i)
<1> DEFINE r == runs[i].report
           pc == fut[i].pbi.pc
<1>1. pc \in {"succeeded", "failed", "unknown"} /\ Elsewhere /\ fut' = [fut EXCEPT ![i] = [@ EXCEPT !.pbi = NoFutures.pbi]]
  BY DEF PbiEnd, Elsewhere
<1>2. PbiIs(i, "none", FALSE) /\ fut' \in [1..MaxRuns -> Futures]
  <2>1. NoFutures.pbi \in PbiRows /\ NoFutures.pbi.pc = "none" /\ NoFutures.pbi.resume = FALSE
    BY DEF NoFutures, PbiRows
  <2> HIDE DEF NoFutures
  <2> QED  BY <1>1, <2>1, PbiFutEffect
<1>3. r \in Reports /\ runs[i] \in RunsOf(r)
  BY RowType
<1>4. CASE pc = "succeeded"
  <2> DEFINE row == SetStage(runs[i], "succeeded")
  <2>1. /\ runs' = [runs EXCEPT ![i] = row]
        /\ locks' = [x \in {y \in DOMAIN locks : locks[y] # i} |-> locks[x]]
    BY <1>4 DEF PbiEnd
  <2>2. row \in RunsOf(r) /\ Same(runs[i], row, {"stage"}) /\ row.stage = "succeeded"
    <3> HIDE DEF r
    <3> QED  BY <1>3, StageChanges DEF Stages, Terminal
  <2> HIDE DEF row
  <2>3. RowBecomes(i, row) /\ runs' \in Seq(AllRuns)
    BY <2>1, <2>2, RowUpdate
  <2>4. Acts(i, runs'[i]) /\ runs'[i] = row
    BY <2>2, <2>3 DEF Acts, RowBecomes
  <2>5. Released(i) /\ LocalLocks
    BY <2>1 DEF Released, LocalLocks
  <2>6. TypeInv'
    BY <1>1, <1>2, <2>2, <2>3, <2>4, <2>5, PbiFutureTypes DEF Same
  <2> QED  BY <1>1, <1>2, <1>4, <2>2, <2>4, <2>5, <2>6 DEF PbiEnds
<1>5. CASE pc # "succeeded"
  <2>1. Fails(i, runs[i], pc = "unknown") /\ (pc = "unknown") \in BOOLEAN
    BY <1>5 DEF PbiEnd, Fail
  <2>2. /\ Acts(i, runs'[i]) /\ Ends(i, runs[i], runs'[i]) /\ runs' \in Seq(AllRuns) /\ LocalLocks
        /\ \A k \in DOMAIN runs[i].flow : runs'[i].flow[k].run = runs[i].flow[k].run
    BY <1>3, <2>1, FailEffect
  <2>3. TypeInv'
    BY <1>1, <1>2, <2>2, PbiFutureTypes
  <2> QED  BY <1>1, <1>2, <1>5, <2>2, <2>3 DEF PbiEnds
<1> QED  BY <1>4, <1>5
(***************************************************************************)
(* The effect of the other steps.                                          *)
(***************************************************************************)
Rows == <<runs, locks, fut, tick>>

\* Steps of flow runs and of the plan keep the rows.
LEMMA OutsideTypes ==
  ASSUME TypeInv, UNCHANGED Rows, target' \in [Flows -> Targets], server' \in Servers,
         frun' \in Seq(FlowRuns), Len(frun) <= Len(frun'), \A j \in DOMAIN frun' : frun'[j].parent <= Len(runs),
         BuiltType'
  PROVE  TypeInv'
<1>1. FrunType'
  <2>1. ASSUME NEW i \in DOMAIN runs, NEW k \in DOMAIN runs[i].flow PROVE runs[i].flow[k].run <= Len(frun')
    <3>1. runs[i].flow[k].run <= Len(frun) /\ runs[i].flow[k].run \in Nat
      BY ChildValues DEF TypeInv, FrunType, FlowSteps
    <3>2. Len(frun) \in Nat /\ Len(frun') \in Nat
      <4>1. frun \in Seq(FlowRuns) /\ frun' \in Seq(FlowRuns)
        BY FrunFacts
      <4> QED  BY <4>1
    <3> QED  BY <3>1, <3>2
  <2> QED  BY <2>1 DEF FrunType, Rows
<1> QED  BY <1>1 DEF TypeInv, RunsType, FutType, TickType, LockType, Rows

\* The rebuilt plans are kept when flow runs are added.
LEMMA BuiltGrows ==
  ASSUME TypeInv, UNCHANGED built, frun' \in Seq(FlowRuns), Len(frun) <= Len(frun')
  PROVE  BuiltType'
<1>1. frun \in Seq(FlowRuns)
  BY FrunFacts
<1>2. Len(frun) \in Nat /\ Len(frun') \in Nat
  BY <1>1
<1>3. ASSUME NEW r \in Reports, built[r] # NoPlan PROVE built[r] \in BuiltOf(r) /\ built[r].seen <= Len(frun')
  <2>1. built[r] \in BuiltOf(r) /\ built[r].seen <= Len(frun)
    BY <1>3 DEF TypeInv, BuiltType
  <2>2. built[r].seen \in Nat
    BY <2>1 DEF BuiltOf
  <2> QED  BY <1>2, <2>1, <2>2
<1> QED  BY <1>3 DEF TypeInv, BuiltType

\* A preview changes no other row.
LEMMA PreviewEffect ==
  ASSUME TypeInv, NEW r \in Reports, Preview(r)
  PROVE  TypeInv' /\ UNCHANGED Rows /\ UNCHANGED <<target, built, server, frun>>
<1>1. UNCHANGED Rows /\ UNCHANGED <<target, built, server, frun>>
  BY DEF Preview, Rows
<1> QED  BY <1>1 DEF TypeInv, BuiltType, RunsType, FrunType, FutType, TickType, LockType, Rows

\* The type of a plan.
LEMMA PlanType ==
  ASSUME TypeInv, NEW r \in Reports
  PROVE  Plan(r) \in PlansOf(r) /\ Plan(r).goal = [k \in DOMAIN PlanFlows[r] |-> target[PlanFlows[r][k]]]
         /\ \A k \in DOMAIN PlanFlows[r] : PlanFlows[r][k] \in Flows
<1>1. PlanFlows[r] \in Seq(Flows)
  BY ShapeAssumption
<1>2. \A k \in DOMAIN PlanFlows[r] : PlanFlows[r][k] \in Flows
  BY <1>1
<1>3. [k \in DOMAIN PlanFlows[r] |-> target[PlanFlows[r][k]]] \in [DOMAIN PlanFlows[r] -> Targets]
  BY <1>2 DEF TypeInv
<1>4. server.endpoint \in Endpoints
  BY DEF TypeInv, Servers
<1> QED  BY <1>2, <1>3, <1>4 DEF Plan, PlansOf

\* create_pipeline_run rebuilds the plan of a report without blockers.
LEMMA ConfirmEffect ==
  ASSUME TypeInv, NEW r \in Reports, Confirm(r)
  PROVE  /\ TypeInv' /\ UNCHANGED Rows /\ UNCHANGED <<target, server, frun>>
         /\ ~Blocked(r)
         /\ built'[r].plan = Plan(r) /\ built'[r].seen = Len(frun)
         /\ \A q \in Reports : q # r => built'[q] = built[q]
<1> DEFINE new == [plan |-> Plan(r), seen |-> Len(frun)]
<1>1. UNCHANGED Rows /\ UNCHANGED <<target, server, frun>> /\ ~Blocked(r) /\ built' = [built EXCEPT ![r] = new]
  BY DEF Confirm, Rows
<1>2. new \in BuiltOf(r) /\ new.plan = Plan(r) /\ new.seen = Len(frun) /\ new.seen <= Len(frun)
  <2>1. Plan(r) \in PlansOf(r) /\ Len(frun) \in Nat
    BY PlanType, FrunFacts
  <2> HIDE DEF Plan
  <2>2. Len(frun) <= Len(frun)
    BY <2>1
  <2> QED  BY <2>1, <2>2 DEF BuiltOf
<1> HIDE DEF new
<1>3. DOMAIN built = Reports
  BY DEF TypeInv, BuiltType
<1>4. built'[r] = new /\ (\A q \in Reports : q # r => built'[q] = built[q]) /\ DOMAIN built' = Reports
  BY <1>1, <1>3
<1>5. BuiltType'
  <2>1. ASSUME NEW q \in Reports, built'[q] # NoPlan PROVE built'[q] \in BuiltOf(q) /\ built'[q].seen <= Len(frun)
    <3>1. CASE q = r
      BY <1>2, <1>4, <3>1
    <3>2. CASE q # r
      BY <1>4, <2>1, <3>2 DEF TypeInv, BuiltType
    <3> QED  BY <3>1, <3>2
  <2> QED  BY <1>1, <1>4, <2>1 DEF BuiltType
<1>6. TypeInv'
  <2>1. target' \in [Flows -> Targets] /\ server' \in Servers
    BY <1>1 DEF TypeInv
  <2>2. frun' \in Seq(FlowRuns) /\ Len(frun) <= Len(frun') /\ \A j \in DOMAIN frun' : frun'[j].parent <= Len(runs)
    BY <1>1, FrunFacts
  <2> QED  BY <1>1, <1>5, <2>1, <2>2, OutsideTypes
<1> QED  BY <1>1, <1>2, <1>4, <1>6

\* The row of a new run.
LEMMA NewRunType ==
  ASSUME TypeInv, NEW r \in Reports, built[r] # NoPlan
  PROVE  /\ NewRun(r) \in RunsOf(r) /\ NewRun(r).stage = "queued" /\ NewRun(r).hurt = {}
         /\ NewRun(r).goal = built[r].plan.goal /\ NewRun(r).report = r
         /\ NewRun(r).seen = built[r].seen /\ NewRun(r).born = Len(frun)
         /\ built[r].seen \in Nat /\ built[r].seen <= Len(frun)
         /\ DOMAIN NewRun(r).flow = DOMAIN PlanFlows[r] /\ DOMAIN NewRun(r).view = DOMAIN PlanViews[r]
         /\ \A k \in DOMAIN PlanFlows[r] : NewRun(r).flow[k].st = "pending" /\ NewRun(r).flow[k].run = 0
         /\ \A k \in DOMAIN PlanViews[r] : NewRun(r).view[k].st = "pending" /\ NewRun(r).view[k].commits = 0
         /\ NewRun(r).pbi = [st |-> "pending", request |-> FALSE, triggers |-> 0]
<1> DEFINE flow == [k \in DOMAIN PlanFlows[r] |-> [st |-> "pending", run |-> 0]]
           view == [k \in DOMAIN PlanViews[r] |-> [st |-> "pending", commits |-> 0]]
           pbi == [st |-> "pending", request |-> FALSE, triggers |-> 0]
           lease == [token |-> NoThread, expired |-> FALSE]
<1>1. built[r].plan \in PlansOf(r) /\ built[r].seen \in Nat /\ built[r].seen <= Len(frun)
  BY DEF TypeInv, BuiltType, BuiltOf
<1>2. built[r].plan.goal \in [DOMAIN PlanFlows[r] -> Targets] /\ built[r].plan.server \in Endpoints
  BY <1>1 DEF PlansOf
<1>3. /\ flow \in [DOMAIN PlanFlows[r] -> FlowSteps] /\ DOMAIN flow = DOMAIN PlanFlows[r]
      /\ \A k \in DOMAIN PlanFlows[r] : flow[k].st = "pending" /\ flow[k].run = 0
  BY DEF FlowSteps, StepStatus
<1>4. /\ view \in [DOMAIN PlanViews[r] -> ViewSteps] /\ DOMAIN view = DOMAIN PlanViews[r]
      /\ \A k \in DOMAIN PlanViews[r] : view[k].st = "pending" /\ view[k].commits = 0
  BY DEF ViewSteps, StepStatus
<1>5. pbi \in PbiSteps /\ lease \in Leases
  BY DEF PbiSteps, StepStatus, Leases
<1>6. Len(frun) \in Nat
  BY FrunFacts
<1>7. NewRun(r) = [report |-> r, goal |-> built[r].plan.goal, server |-> built[r].plan.server,
                   stage |-> "queued", inspect |-> FALSE, flow |-> flow, view |-> view, pbi |-> pbi, lease |-> lease,
                   seen |-> built[r].seen, born |-> Len(frun), hurt |-> {}]
  BY DEF NewRun
<1> HIDE DEF flow, view, pbi, lease
<1>8. NewRun(r) \in RunsOf(r)
  BY <1>1, <1>2, <1>3, <1>4, <1>5, <1>6, <1>7 DEF RunsOf, Stages
<1>9. /\ NewRun(r).flow = flow /\ NewRun(r).view = view /\ NewRun(r).pbi = pbi /\ NewRun(r).report = r
      /\ NewRun(r).goal = built[r].plan.goal /\ NewRun(r).stage = "queued" /\ NewRun(r).hurt = {}
      /\ NewRun(r).seen = built[r].seen /\ NewRun(r).born = Len(frun)
  BY <1>7
<1> QED  BY <1>1, <1>3, <1>4, <1>8, <1>9 DEF pbi

Creates(r) ==
  LET n == Len(runs) + 1 IN
  /\ Len(runs') = n /\ DOMAIN runs' = DOMAIN runs \cup {n} /\ n \notin DOMAIN runs /\ n \in 1..MaxRuns
  /\ \A i \in DOMAIN runs : runs'[i] = runs[i]
  /\ runs'[n] = NewRun(r)
  /\ built[r].plan.goal = Plan(r).goal
  /\ \A t \in Range(Plan(r).goal) : ~Writes(t)
  /\ \A x \in Resources(r, built[r].plan) : x \notin DOMAIN locks /\ locks'[x] = n
  /\ DOMAIN locks' = DOMAIN locks \cup Resources(r, built[r].plan)
  /\ \A x \in DOMAIN locks : locks'[x] = locks[x]
Planned(r) ==
  /\ built[r] # NoPlan
  /\ built'[r] = NoPlan /\ \A q \in Reports : q # r => built'[q] = built[q]
  /\ UNCHANGED <<target, server, frun, fut, tick>>

\* The creating transaction adds a run with its locks, or is refused.
LEMMA CreateEffect ==
  ASSUME TypeInv, NEW r \in Reports, Create(r)
  PROVE  TypeInv' /\ Planned(r) /\ (Creates(r) \/ UNCHANGED <<runs, locks>>)
<1> DEFINE n == Len(runs) + 1
<1>1. DOMAIN built = Reports /\ built[r] # NoPlan
  BY DEF TypeInv, BuiltType, Create
<1>2. Planned(r) /\ DOMAIN built' = Reports
  BY <1>1 DEF Create, Planned
<1>3. BuiltType'
  BY <1>2 DEF TypeInv, BuiltType, Planned
<1>4. CASE ~Creatable(r)
  <2>1. UNCHANGED <<runs, locks>> /\ UNCHANGED Rows
    BY <1>4 DEF Create, Rows
  <2>2. target' \in [Flows -> Targets] /\ server' \in Servers
    BY <1>2 DEF TypeInv, Planned
  <2>3. frun' \in Seq(FlowRuns) /\ Len(frun) <= Len(frun') /\ \A j \in DOMAIN frun' : frun'[j].parent <= Len(runs)
    BY <1>2, FrunFacts DEF Planned
  <2> QED  BY <1>2, <1>3, <2>1, <2>2, <2>3, OutsideTypes
<1>5. CASE Creatable(r)
  <2>1. /\ runs' = Append(runs, NewRun(r)) /\ Len(runs) < MaxRuns
        /\ locks' = [x \in DOMAIN locks \cup Resources(r, built[r].plan) |-> IF x \in DOMAIN locks THEN locks[x] ELSE n]
        /\ built[r].plan.goal = Plan(r).goal /\ (\A t \in Range(Plan(r).goal) : ~Writes(t))
        /\ \A x \in Resources(r, built[r].plan) : x \notin DOMAIN locks
    BY <1>5 DEF Create, Creatable, Locked
  <2>2. /\ runs \in Seq(AllRuns) /\ Len(runs) \in Nat /\ MaxRuns \in Nat /\ DOMAIN runs = 1..Len(runs) /\ Len(runs) <= MaxRuns
        /\ NewRun(r) \in RunsOf(r) /\ NewRun(r) \in AllRuns
    <3>1. runs \in Seq(AllRuns) /\ MaxRuns \in Nat /\ Len(runs) <= MaxRuns
      BY ShapeAssumption DEF TypeInv, RunsType
    <3>2. NewRun(r) \in RunsOf(r)
      BY <1>1, NewRunType
    <3> HIDE DEF NewRun
    <3> QED  BY <3>1, <3>2 DEF AllRuns
  <2> HIDE DEF NewRun
  <2>3. /\ runs' \in Seq(AllRuns) /\ Len(runs') = n /\ (\A i \in 1..Len(runs) : runs'[i] = runs[i]) /\ runs'[n] = NewRun(r)
    BY <2>1, <2>2
  <2>4. DOMAIN runs' = 1..n /\ n \in Nat /\ n \in 1..MaxRuns /\ n \notin DOMAIN runs /\ DOMAIN runs' = DOMAIN runs \cup {n}
    BY <2>1, <2>2, <2>3
  <2>5. Creates(r)
    BY <2>1, <2>2, <2>3, <2>4 DEF Creates
  <2>6. RunsType'
    BY <2>1, <2>2, <2>3, <2>4 DEF RunsType
  <2>7. FrunType'
    <3>1. ASSUME NEW i \in DOMAIN runs', NEW k \in DOMAIN runs'[i].flow PROVE runs'[i].flow[k].run <= Len(frun)
      <4>1. CASE i \in DOMAIN runs
        BY <4>1, <2>5 DEF Creates, TypeInv, FrunType
      <4>2. CASE i = n
        <5>1. runs'[i].flow[k].run = 0
          BY <1>1, <4>2, <2>3, NewRunType
        <5> QED  BY <5>1, FrunFacts
      <4> QED  BY <2>4, <4>1, <4>2
    <3>2. ASSUME NEW j \in DOMAIN frun PROVE frun[j].parent <= n
      <4>1. frun[j].parent <= Len(runs) /\ frun[j].parent \in Nat
        BY FrunFacts DEF FlowRuns
      <4>2. Len(runs) \in Nat
        BY <2>2
      <4> QED  BY <4>1, <4>2
    <3> QED  BY <1>2, <2>3, <3>1, <3>2, FrunFacts DEF FrunType, Planned
  <2>8. FutType'
    <3>1. fut' = fut /\ fut \in [1..MaxRuns -> Futures] /\ (\A i \in 1..MaxRuns : i > Len(runs) => fut[i] = NoFutures)
      BY <1>2 DEF TypeInv, FutType, Planned
    <3>2. ASSUME NEW i \in 1..MaxRuns, i > n PROVE fut[i] = NoFutures
      <4>1. Len(runs) \in Nat /\ i \in Nat
        BY <2>2
      <4>2. i > Len(runs)
        BY <3>2, <4>1
      <4> QED  BY <3>1, <4>2
    <3>3. fut[n].mv.todo = {} /\ fut[n].mv.pc = "none"
      <4>1. fut[n] = NoFutures
        BY <2>2, <2>4, <3>1
      <4> QED  BY <4>1 DEF NoFutures
    <3>4. ASSUME NEW i \in DOMAIN runs'
          PROVE  /\ fut[i].mv.todo \subseteq DOMAIN runs'[i].view
                 /\ fut[i].mv.pc \in {"refresh", "refreshed"} => fut[i].mv.todo # {}
      <4>1. CASE i \in DOMAIN runs
        BY <4>1, <2>5, RowType DEF Creates
      <4>2. CASE i = n
        BY <3>3, <4>2
      <4> QED  BY <2>4, <4>1, <4>2
    <3> QED  BY <2>3, <3>1, <3>2, <3>4 DEF FutType
  <2>9. TickType'
    <3>1. tick' = tick /\ tick \in [Ticks -> TickRows]
      BY <1>2 DEF TypeInv, TickType, Planned
    <3>2. ASSUME NEW t \in Ticks
          PROVE  /\ tick[t].run <= n
                 /\ tick[t].pc # "idle" => tick[t].run # 0
                 /\ tick[t].pc = "mvs read" /\ tick[t].k # 0 => tick[t].k \in DOMAIN runs'[tick[t].run].view
      <4>1. /\ tick[t].run <= Len(runs) /\ tick[t].run \in Nat /\ (tick[t].pc # "idle" => tick[t].run # 0)
            /\ (tick[t].pc = "mvs read" /\ tick[t].k # 0 => tick[t].k \in DOMAIN runs[tick[t].run].view)
        BY DEF TypeInv, TickType, TickRows
      <4>2. tick[t].pc = "mvs read" => runs'[tick[t].run] = runs[tick[t].run]
        BY TickRun, <2>5 DEF Creates
      <4>3. tick[t].run <= n
        <5>1. Len(runs) \in Nat /\ tick[t].run \in Nat /\ tick[t].run <= Len(runs)
          BY <2>2, <4>1
        <5> QED  BY <5>1
      <4> QED  BY <4>1, <4>2, <4>3
    <3> QED  BY <2>3, <3>1, <3>2 DEF TickType
  <2>10. LockType'
    <3>1. \A x \in DOMAIN locks' : locks'[x] = n \/ (x \in DOMAIN locks /\ locks'[x] = locks[x])
      BY <2>1
    <3> QED  BY <2>4, <3>1 DEF TypeInv, LockType
  <2>11. target' \in [Flows -> Targets] /\ server' \in Servers
    BY <1>2 DEF TypeInv, Planned
  <2> QED  BY <1>2, <1>3, <2>5, <2>6, <2>7, <2>8, <2>9, <2>10, <2>11 DEF TypeInv
<1> QED  BY <1>4, <1>5

\* An edit changes the table of a flow that nobody has reserved.
LEMMA EditFlowEffect ==
  ASSUME TypeInv, NEW f \in Flows, NEW t \in Targets, EditFlow(f, t)
  PROVE  /\ TypeInv' /\ UNCHANGED Rows /\ UNCHANGED <<built, server, frun>>
         /\ ~Locked(<<"flow", f>>) /\ ~Locked(<<"target", target[f]>>)
         /\ \A g \in Flows : g # f => target'[g] = target[g]
<1>1. /\ UNCHANGED Rows /\ UNCHANGED <<built, server, frun>>
      /\ ~Locked(<<"flow", f>>) /\ ~Locked(<<"target", target[f]>>) /\ target' = [target EXCEPT ![f] = t]
  BY DEF EditFlow, Rows
<1>2. target' \in [Flows -> Targets] /\ \A g \in Flows : g # f => target'[g] = target[g]
  BY <1>1 DEF TypeInv
<1>3. frun' \in Seq(FlowRuns) /\ Len(frun) <= Len(frun') /\ (\A j \in DOMAIN frun' : frun'[j].parent <= Len(runs))
      /\ server' \in Servers
  BY <1>1, FrunFacts DEF TypeInv
<1>4. BuiltType'
  BY <1>1, <1>3, BuiltGrows
<1> QED  BY <1>1, <1>2, <1>3, <1>4, OutsideTypes

\* A direct flow run is queued where its table and its views are free.
LEMMA QueueDirectEffect ==
  ASSUME TypeInv, NEW f \in Flows, QueueDirect(f)
  PROVE  /\ TypeInv' /\ UNCHANGED Rows /\ UNCHANGED <<target, built, server>>
         /\ ~Locked(<<"target", target[f]>>) /\ Queueable(f)
         /\ \A v \in FlowViews[f] : ~Locked(<<"mv", v>>)
         /\ Grows(NewFlowRun(f, FlowViews[f], 0))
<1>1. /\ UNCHANGED Rows /\ UNCHANGED <<target, built, server>>
      /\ ~Locked(<<"target", target[f]>>) /\ Queueable(f) /\ (\A v \in FlowViews[f] : ~Locked(<<"mv", v>>))
      /\ frun' = Append(frun, NewFlowRun(f, FlowViews[f], 0))
  BY DEF QueueDirect, Rows
<1>2. FlowViews[f] \in {FlowViews[g] : g \in Flows} \cup {{}} /\ 0 \in 0..Len(runs)
  <2>1. runs \in Seq(AllRuns)
    BY DEF TypeInv, RunsType
  <2>2. Len(runs) \in Nat
    BY <2>1
  <2> QED  BY <2>2
<1>3. Grows(NewFlowRun(f, FlowViews[f], 0)) /\ frun' \in Seq(FlowRuns) /\ \A j \in DOMAIN frun' : frun'[j].parent <= Len(runs)
  BY <1>1, <1>2, GrowsEffect
<1>4. Len(frun) <= Len(frun')
  BY <1>3, FrunFacts DEF Grows
<1>5. BuiltType' /\ target' \in [Flows -> Targets] /\ server' \in Servers
  BY <1>1, <1>3, <1>4, BuiltGrows DEF TypeInv
<1> QED  BY <1>1, <1>3, <1>4, <1>5, OutsideTypes

\* A flow run changes hands, at its worker or by a user's stop.
JobMoves(j) ==
  /\ UNCHANGED Rows /\ UNCHANGED <<target, built, server>>
  /\ frun[j].st \in FlowActive
  /\ \/ frun[j].st = "queued" /\ JobGets(j, "running")
     \/ \E st \in {"succeeded", "failed", "cancelled"} : JobGets(j, st)

\* A worker claims or ends a flow run.
LEMMA JobStepEffect ==
  ASSUME TypeInv, NEW j \in DOMAIN frun, FlowClaimed(j) \/ FlowEnds(j)
  PROVE  TypeInv' /\ JobMoves(j)
<1>1. PICK st \in {"running", "succeeded", "failed", "cancelled"} :
        /\ frun' = [frun EXCEPT ![j] = [@ EXCEPT !.st = st]] /\ frun[j].st \in FlowActive
        /\ st = "running" => frun[j].st = "queued"
        /\ UNCHANGED Rows /\ UNCHANGED <<target, built, server>>
  BY DEF FlowClaimed, FlowEnds, FlowActive, Rows
<1>2. JobGets(j, st) /\ frun' \in Seq(FlowRuns) /\ \A l \in DOMAIN frun' : frun'[l].parent <= Len(runs)
  BY <1>1, JobEffect
<1>3. Len(frun) <= Len(frun')
  BY <1>2, FrunFacts DEF JobGets
<1>4. BuiltType' /\ target' \in [Flows -> Targets] /\ server' \in Servers
  BY <1>1, <1>2, <1>3, BuiltGrows DEF TypeInv
<1>5. TypeInv'
  BY <1>1, <1>2, <1>3, <1>4, OutsideTypes
<1> QED  BY <1>1, <1>2, <1>5 DEF JobMoves

Stopped ==
  /\ UNCHANGED <<target, built, runs, locks, frun, tick>> /\ server'.up = "stopping"
  /\ \A i \in 1..MaxRuns :
       /\ fut'[i].workers = fut[i].workers
       /\ fut'[i].mv = IF fut[i].mv.pc = "start" THEN NoFutures.mv ELSE fut[i].mv
       /\ fut'[i].pbi = IF fut[i].pbi.pc = "start" THEN NoFutures.pbi ELSE fut[i].pbi

\* A stop cancels the futures that have not started.
LEMMA StopEffect ==
  ASSUME TypeInv, Stop
  PROVE  TypeInv' /\ Stopped
<1> DEFINE new(i) == [fut[i] EXCEPT !.mv  = IF @.pc = "start" THEN NoFutures.mv ELSE @,
                                    !.pbi = IF @.pc = "start" THEN NoFutures.pbi ELSE @]
<1>1. /\ UNCHANGED <<target, built, runs, locks, frun, tick>> /\ server' = [server EXCEPT !.up = "stopping"]
      /\ fut' = [i \in DOMAIN fut |-> new(i)] /\ server \in Servers /\ fut \in [1..MaxRuns -> Futures]
  BY DEF Stop, TypeInv, FutType
<1>2. server' \in Servers /\ server'.up = "stopping"
  BY <1>1 DEF Servers
<1>3. NoFutures.mv \in MvRows /\ NoFutures.pbi \in PbiRows /\ NoFutures.mv.pc = "none" /\ NoFutures.mv.todo = {}
  BY DEF NoFutures, MvRows, PbiRows
<1>4. ASSUME NEW i \in 1..MaxRuns
      PROVE  /\ fut'[i] = new(i) /\ fut'[i] \in Futures /\ fut'[i].workers = fut[i].workers
             /\ fut'[i].mv = IF fut[i].mv.pc = "start" THEN NoFutures.mv ELSE fut[i].mv
             /\ fut'[i].pbi = IF fut[i].pbi.pc = "start" THEN NoFutures.pbi ELSE fut[i].pbi
  <2>1. fut[i] \in Futures /\ fut'[i] = new(i)
    BY <1>1
  <2> DEFINE mv == IF fut[i].mv.pc = "start" THEN NoFutures.mv ELSE fut[i].mv
             pbi == IF fut[i].pbi.pc = "start" THEN NoFutures.pbi ELSE fut[i].pbi
  <2>2. mv \in MvRows /\ pbi \in PbiRows
    BY <1>3, <2>1 DEF Futures
  <2>3. new(i) = [fut[i] EXCEPT !.mv = mv, !.pbi = pbi]
    OBVIOUS
  <2> HIDE DEF mv, pbi
  <2>4. new(i) \in Futures /\ new(i).mv = mv /\ new(i).pbi = pbi /\ new(i).workers = fut[i].workers
    BY <2>1, <2>2, <2>3 DEF Futures
  <2> QED  BY <2>1, <2>4 DEF mv, pbi
<1> HIDE DEF new
<1>5. Stopped
  BY <1>1, <1>2, <1>4 DEF Stopped
<1>6. DOMAIN fut' = 1..MaxRuns /\ fut' \in [1..MaxRuns -> Futures]
  BY <1>1, <1>4
<1>7. FutType'
  <2>1. ASSUME NEW i \in 1..MaxRuns, i > Len(runs) PROVE fut'[i] = NoFutures
    <3>1. fut[i] = NoFutures
      BY <2>1 DEF TypeInv, FutType
    <3>2. new(i) = NoFutures
      BY <3>1 DEF new, NoFutures
    <3> QED  BY <1>4, <3>2
  <2>2. ASSUME NEW i \in DOMAIN runs
        PROVE  /\ fut'[i].mv.todo \subseteq DOMAIN runs[i].view
               /\ fut'[i].mv.pc \in {"refresh", "refreshed"} => fut'[i].mv.todo # {}
    <3>1. i \in 1..MaxRuns /\ fut[i].mv.todo \subseteq DOMAIN runs[i].view
          /\ (fut[i].mv.pc \in {"refresh", "refreshed"} => fut[i].mv.todo # {})
      BY RowType
    <3> QED  BY <1>3, <1>4, <3>1
  <2> QED  BY <1>1, <1>6, <2>1, <2>2 DEF FutType
<1>8. TypeInv'
  BY <1>1, <1>2, <1>7 DEF TypeInv, BuiltType, RunsType, FrunType, TickType, LockType
<1> QED  BY <1>5, <1>8

Restarted ==
  /\ UNCHANGED <<target, locks, frun>>
  /\ Len(runs') = Len(runs) /\ DOMAIN runs' = DOMAIN runs
  /\ \A i \in DOMAIN runs :
       /\ Same(runs[i], runs'[i], {"hurt"})
       /\ runs'[i].hurt = runs[i].hurt \cup IF Split(i) THEN {"cut"} ELSE {}
  /\ \A r \in Reports : built'[r] = NoPlan
  /\ \A i \in 1..MaxRuns : fut'[i] = NoFutures
  /\ \A t \in Ticks : tick'[t] = Idle

\* A restart keeps the rows only, and hurts a run that was between two commits.
LEMMA RestartEffect ==
  ASSUME TypeInv, Restart
  PROVE  TypeInv' /\ Restarted
<1>1. /\ UNCHANGED <<target, locks, frun>> /\ runs' = [i \in DOMAIN runs |-> Hurt(i, "cut", Split(i))]
      /\ built' = [r \in Reports |-> NoPlan] /\ fut' = [i \in DOMAIN fut |-> NoFutures] /\ tick' = [t \in Ticks |-> Idle]
      /\ \E e \in Endpoints :
           server' = [up |-> "serving", endpoint |-> e, restarts |-> server.restarts + 1, boot |-> TRUE]
  BY DEF Restart
<1>2. runs \in Seq(AllRuns) /\ Len(runs) \in Nat /\ DOMAIN runs = 1..Len(runs) /\ Len(runs) <= MaxRuns
  <2>1. runs \in Seq(AllRuns) /\ Len(runs) <= MaxRuns
    BY DEF TypeInv, RunsType
  <2> QED  BY <2>1
<1>3. ASSUME NEW i \in DOMAIN runs
      PROVE  /\ runs'[i] = Hurt(i, "cut", Split(i)) /\ runs'[i] \in RunsOf(runs[i].report)
             /\ Same(runs[i], runs'[i], {"hurt"}) /\ runs'[i].hurt = runs[i].hurt \cup IF Split(i) THEN {"cut"} ELSE {}
             /\ runs[i].report \in Reports
  <2> DEFINE row == Hurt(i, "cut", Split(i))
  <2>1. /\ row \in RunsOf(runs[i].report) /\ Same(runs[i], row, {"hurt"})
        /\ row.hurt = runs[i].hurt \cup IF Split(i) THEN {"cut"} ELSE {}
    BY HurtChanges DEF Harms
  <2>2. runs'[i] = row
    BY <1>1
  <2> HIDE DEF row
  <2> QED  BY <2>1, <2>2, RowType DEF row
<1>4. DOMAIN runs' = DOMAIN runs
  BY <1>1
<1>5. runs' \in Seq(AllRuns) /\ Len(runs') = Len(runs)
  <2>1. \A i \in 1..Len(runs) : runs'[i] \in AllRuns
    BY <1>2, <1>3 DEF AllRuns
  <2>2. runs' = [i \in 1..Len(runs) |-> runs'[i]]
    BY <1>1, <1>2
  <2>3. runs' \in [1..Len(runs) -> AllRuns]
    BY <2>1, <2>2
  <2> QED  BY <1>2, <2>3
<1>6. fut \in [1..MaxRuns -> Futures] /\ NoFutures \in Futures /\ NoFutures.mv.todo = {} /\ NoFutures.mv.pc = "none"
  BY DEF TypeInv, FutType, NoFutures, Futures, MvRows, PbiRows
<1>7. \A i \in 1..MaxRuns : fut'[i] = NoFutures
  BY <1>1, <1>6
<1>8. Restarted
  BY <1>1, <1>3, <1>4, <1>5, <1>7 DEF Restarted
<1>9. FutType'
  <2>1. fut' \in [1..MaxRuns -> Futures]
    BY <1>1, <1>6
  <2>2. \A i \in DOMAIN runs : fut'[i] = NoFutures
    BY <1>7, RowType
  <2> QED  BY <1>4, <1>5, <1>6, <1>7, <2>1, <2>2 DEF FutType
<1>10. FrunType'
  BY <1>1, <1>3, <1>4, <1>5 DEF TypeInv, FrunType, Same
<1>11. TickType'
  <2>1. Idle \in TickRows /\ Idle.run = 0 /\ Idle.pc = "idle"
    BY DEF Idle, TickRows
  <2>2. 0 <= Len(runs)
    BY <1>2
  <2> QED  BY <1>1, <1>5, <2>1, <2>2 DEF TickType
<1>12. BuiltType' /\ LockType' /\ RunsType'
  BY <1>1, <1>2, <1>4, <1>5 DEF TypeInv, BuiltType, LockType, RunsType
<1>13. server' \in Servers /\ target' \in [Flows -> Targets]
  <2>1. server.restarts + 1 \in Nat
    BY DEF TypeInv, Servers
  <2> QED  BY <1>1, <2>1 DEF TypeInv, Servers
<1> QED  BY <1>8, <1>9, <1>10, <1>11, <1>12, <1>13 DEF TypeInv

\* The initial values.
LEMMA InitTypes ==
  ASSUME Init
  PROVE  TypeInv /\ Len(runs) = 0 /\ DOMAIN runs = {} /\ DOMAIN frun = {} /\ Len(frun) = 0 /\ DOMAIN locks = {}
         /\ \A r \in Reports : built[r] = NoPlan
<1>1. runs = <<>> /\ frun = <<>> /\ locks = [x \in {} |-> 0] /\ target = FirstTarget
      /\ built = [r \in Reports |-> NoPlan] /\ fut = [i \in 1..MaxRuns |-> NoFutures] /\ tick = [t \in Ticks |-> Idle]
      /\ server = [up |-> "serving", endpoint |-> CHOOSE e \in Endpoints : TRUE, restarts |-> 0, boot |-> TRUE]
  BY DEF Init
<1>2. runs \in Seq(AllRuns) /\ Len(runs) = 0 /\ DOMAIN runs = {} /\ frun \in Seq(FlowRuns) /\ DOMAIN frun = {} /\ Len(frun) = 0
      /\ DOMAIN locks = {}
  BY <1>1
<1>3. NoFutures \in Futures /\ Idle \in TickRows /\ Idle.run = 0 /\ Idle.pc = "idle"
  BY DEF NoFutures, Futures, MvRows, PbiRows, Idle, TickRows
<1>4. target \in [Flows -> Targets] /\ MaxRuns \in Nat
  BY <1>1, ShapeAssumption
<1>5. server \in Servers
  <2>1. (CHOOSE e \in Endpoints : TRUE) \in Endpoints
    BY ShapeAssumption
  <2> QED  BY <1>1, <2>1 DEF Servers
<1>6. FutType
  <2>1. fut \in [1..MaxRuns -> Futures] /\ \A i \in 1..MaxRuns : fut[i] = NoFutures
    BY <1>1, <1>3
  <2> QED  BY <1>2, <2>1 DEF FutType
<1>7. TickType
  <2>1. tick \in [Ticks -> TickRows] /\ \A t \in Ticks : tick[t] = Idle
    BY <1>1, <1>3
  <2>2. \A t \in Ticks : tick[t].run = 0 /\ tick[t].pc = "idle"
    BY <1>3, <2>1
  <2>3. 0 <= Len(runs)
    BY <1>2
  <2> QED  BY <2>1, <2>2, <2>3 DEF TickType
<1>8. BuiltType /\ \A r \in Reports : built[r] = NoPlan
  BY <1>1 DEF BuiltType
<1>9. RunsType /\ FrunType /\ LockType
  BY <1>2, <1>4 DEF RunsType, FrunType, LockType
<1> QED  BY <1>2, <1>4, <1>5, <1>6, <1>7, <1>8, <1>9 DEF TypeInv
(***************************************************************************)
(* The steps of the specification, by what they do to the rows.            *)
(***************************************************************************)
Begins(t, i) ==
  /\ tick[t].pc = "queued" /\ Same(runs[i], runs'[i], {"stage"}) /\ UNCHANGED <<frun, fut, locks>>
  /\ \/ /\ runs[i].flow = <<>> /\ runs'[i].stage = AfterFlows(runs[i]) /\ TickGoes(t, "release")
     \/ runs[i].flow # <<>> /\ runs'[i].stage = "preparing_workers" /\ TickGoes(t, "launch")
Launches(t, i) ==
  /\ tick[t].pc = "launch" /\ TickGoes(t, "release")
  /\ Submitted(i, "workers", "preparing_workers", [fut[i] EXCEPT !.workers = TRUE])
Waits(t, i) ==
  /\ tick[t].pc = "preparing_workers" /\ TickGoes(t, "release") /\ Same(runs[i], runs'[i], {})
  /\ UNCHANGED <<runs, frun, fut, locks>>
GivesUp(t, i) == tick[t].pc \in {"preparing_workers", "mv unknown"} /\ TickEnds(t, i)
Prepares(t, i) ==
  /\ tick[t].pc = "preparing_workers"
  /\ \/ /\ TickGoes(t, "advance") /\ Same(runs[i], runs'[i], {})
        /\ \A k \in DOMAIN runs[i].flow : runs[i].flow[k].st # "pending"
        /\ UNCHANGED <<runs, frun, fut, locks>>
     \/ \E k \in DOMAIN runs[i].flow : Queues(t, i, k, "advance")
Advances(t, i) ==
  /\ tick[t].pc = "advance" /\ TickGoes(t, "release")
  /\ Same(runs[i], runs'[i], {"stage"}) /\ runs'[i].stage = "running_flows"
  /\ UNCHANGED <<frun, fut, locks>>
Judges(t, i) == tick[t].pc \in {"preparing_workers", "running_flows"} /\ FlowsEnd(t, i)
Continues(t, i) ==
  /\ tick[t].pc = "running_flows"
  /\ \/ FlowsSettle(t, i)
     \/ /\ \E k \in DOMAIN runs[i].flow : Queues(t, i, k, "release")
        /\ \A k \in DOMAIN runs[i].flow : Child(runs[i].flow[k]) \notin FlowActive
Reads(t, i) ==
  /\ tick[t].pc = "refreshing_mvs" /\ TickGoes(t, "mvs read")
  /\ UNCHANGED <<runs, frun, fut, locks>> /\ Same(runs[i], runs'[i], {})
  /\ \/ tick'[t].k = 0 /\ \A k \in DOMAIN runs[i].view : runs[i].view[k].st # "running"
     \/ tick'[t].k \in DOMAIN runs[i].view /\ tick'[t].k # 0 /\ runs[i].view[tick'[t].k].st = "running"
Decides(t, i) == tick[t].pc = "mvs read" /\ MvDecided(t, i)
Resumes(t, i) ==
  /\ tick[t].pc = "refreshing_powerbi" /\ TickGoes(t, "pbi read")
  /\ tick'[t].flag <=> runs[i].pbi.st = "running"
  /\ Same(runs[i], runs'[i], {"pbi"})
  /\ runs'[i].pbi.st = IF runs[i].pbi.st = "pending" THEN "running" ELSE runs[i].pbi.st
  /\ runs'[i].pbi.request = runs[i].pbi.request /\ runs'[i].pbi.triggers = runs[i].pbi.triggers
  /\ UNCHANGED <<frun, fut, locks>>
Submits(t, i) ==
  /\ tick[t].pc = "pbi read" /\ TickGoes(t, "release")
  /\ Submitted(i, "pbi", "refreshing_powerbi", PbiStarts(t, i))
Leaves(t, i) ==
  /\ tick[t].pc = "release" /\ TickBecomes(t, Idle) /\ Same(runs[i], runs'[i], {"lease"})
  /\ runs[i].lease.token # t => runs'[i].lease = runs[i].lease
  /\ UNCHANGED <<frun, fut, locks>>
TickStep(t, i) ==
  /\ OnRun(t, i) /\ Acts(i, runs'[i]) /\ UNCHANGED <<target, built, server>>
  /\ \/ Begins(t, i) \/ Launches(t, i) \/ Waits(t, i) \/ GivesUp(t, i) \/ Prepares(t, i) \/ Advances(t, i)
     \/ Judges(t, i) \/ Continues(t, i) \/ Reads(t, i) \/ Decides(t, i) \/ Resumes(t, i) \/ Submits(t, i)
     \/ Leaves(t, i)
Claims(t, i) ==
  /\ tick[t].pc = "idle" /\ runs[i].stage \notin Terminal
  /\ runs[i].lease.token = NoThread \/ runs[i].lease.expired
  /\ Acts(i, runs'[i]) /\ Same(runs[i], runs'[i], {"lease"})
  /\ runs'[i].lease = [token |-> t, expired |-> FALSE]
  /\ TickBecomes(t, [pc |-> runs[i].stage, run |-> i, k |-> 0, flag |-> FALSE])
  /\ UNCHANGED <<target, built, frun, fut, locks>> /\ server'.up = server.up
Expires(i) ==
  /\ Acts(i, runs'[i]) /\ Same(runs[i], runs'[i], {"lease", "hurt"})
  /\ runs[i].hurt \subseteq runs'[i].hurt
  /\ (\E t \in Ticks : OnRun(t, i) /\ runs[i].lease.token = t) => "slow" \in runs'[i].hurt
  /\ runs'[i].lease = [runs[i].lease EXCEPT !.expired = TRUE]
  /\ UNCHANGED <<target, built, server, frun, fut, locks, tick>>
LaunchEnds(i) ==
  /\ fut'[i].mv = fut[i].mv /\ fut'[i].pbi = fut[i].pbi /\ \A j \in 1..MaxRuns : j # i => fut'[j] = fut[j]
  /\ \/ UNCHANGED <<runs, locks>> /\ Same(runs[i], runs'[i], {})
     \/ \E run \in RunsOf(runs[i].report) :
          /\ Same(runs[i], run, {"hurt"}) /\ Ends(i, run, runs'[i])
          /\ run.hurt = runs[i].hurt \cup IF Late(i) THEN {"late"} ELSE {}
MvBegins(i) ==
  /\ Same(runs[i], runs'[i], {}) /\ UNCHANGED <<runs, locks>> /\ fut[i].mv.pc = "start"
  /\ MvIs(i, "next", {k \in DOMAIN runs[i].view : runs[i].view[k].st \in {"pending", "running"}})
MvTakes(i) ==
  /\ fut[i].mv.pc = "next"
  /\ \/ MvSteps(i, "failed", "failed", Picked(i).commits)
     \/ MvSteps(i, "refresh", IF Picked(i).st = "pending" THEN "running" ELSE Picked(i).st, Picked(i).commits)
MvCommits(i) ==
  /\ fut[i].mv.pc = "refresh"
  /\ \/ MvSteps(i, "refreshed", Picked(i).st, Picked(i).commits + 1)
     \/ \E n \in {0, 1} : MvSteps(i, "failed", "failed", Picked(i).commits + n)
MvRecords(i) ==
  /\ fut[i].mv.pc = "refreshed" /\ fut[i].mv.todo # {}
  /\ MvIs(i, "next", fut[i].mv.todo \ {Min(fut[i].mv.todo)})
  /\ Same(runs[i], runs'[i], {"view"}) /\ locks' = locks
  /\ ViewTo(i, Min(fut[i].mv.todo), "succeeded", Picked(i).commits)
MvEnds(i) == fut[i].mv.pc = "failed" /\ MvIs(i, "none", {}) /\ Ends(i, runs[i], runs'[i])
PbiTriggersOnce(i) ==
  LET pbi == runs[i].pbi IN
  /\ fut[i].pbi.pc = "start"
  /\ \/ pbi.request /\ PbiKeeps(i, "poll")
     \/ ~pbi.request /\ fut[i].pbi.resume /\ PbiMoves(i, "unknown", "unknown", pbi.request, pbi.triggers)
     \/ /\ ~pbi.request /\ ~fut[i].pbi.resume
        /\ \/ PbiMoves(i, "persist", pbi.st, pbi.request, pbi.triggers + 1)
           \/ PbiMoves(i, "unknown", "unknown", pbi.request, pbi.triggers + 1)
           \/ \E n \in {0, 1} : PbiMoves(i, "failed", pbi.st, pbi.request, pbi.triggers + n)
PbiPersists(i) == fut[i].pbi.pc = "persist" /\ PbiMoves(i, "poll", runs[i].pbi.st, TRUE, runs[i].pbi.triggers)
PbiPolls(i) ==
  /\ fut[i].pbi.pc = "poll"
  /\ \/ \E st \in {"succeeded", "failed"} : PbiMoves(i, st, st, runs[i].pbi.request, runs[i].pbi.triggers)
     \/ PbiKeeps(i, "failed") \/ PbiKeeps(i, "none")
FutureStep(i) ==
  /\ Elsewhere /\ Acts(i, runs'[i])
  /\ \/ LaunchEnds(i) \/ MvBegins(i) \/ (fut[i].mv.pc = "next" /\ (MvDone(i) \/ MvQuits(i))) \/ MvTakes(i)
     \/ MvCommits(i) \/ MvRecords(i) \/ MvEnds(i) \/ PbiTriggersOnce(i) \/ PbiPersists(i) \/ PbiPolls(i) \/ PbiEnds(i)
RowStep(i) == (\E t \in Ticks : TickStep(t, i) \/ Claims(t, i)) \/ Expires(i) \/ FutureStep(i)

Confirms(r) ==
  /\ UNCHANGED <<target, server, frun>> /\ ~Blocked(r)
  /\ built'[r].plan = Plan(r) /\ built'[r].seen = Len(frun)
  /\ \A q \in Reports : q # r => built'[q] = built[q]
Edits(f) ==
  /\ UNCHANGED <<built, server, frun>> /\ ~Locked(<<"flow", f>>)
  /\ \A g \in Flows : g # f => target'[g] = target[g]
QueuesDirect(f) ==
  /\ UNCHANGED <<target, built, server>> /\ ~Locked(<<"target", target[f]>>)
  /\ \A v \in FlowViews[f] : ~Locked(<<"mv", v>>)
  /\ Grows(NewFlowRun(f, FlowViews[f], 0))
OutsideStep ==
  /\ UNCHANGED Rows
  /\ \/ UNCHANGED <<target, built, server, frun>>
     \/ \E r \in Reports : Confirms(r) \/ (Planned(r) /\ UNCHANGED <<runs, locks>>)
     \/ \E f \in Flows : Edits(f) \/ QueuesDirect(f)
     \/ \E j \in DOMAIN frun : JobMoves(j)
\* Every step of the specification, and the values of the variables after it.
Stepped ==
  \/ OutsideStep
  \/ \E r \in Reports : Planned(r) /\ Creates(r)
  \/ \E i \in DOMAIN runs : RowStep(i)
  \/ Stopped \/ Restarted

\* Every step of a tick is one of TickStep.
LEMMA TickStepped ==
  ASSUME TypeInv, NEW t \in Ticks, Tick(t)
  PROVE  TypeInv' /\ \E i \in DOMAIN runs : TickStep(t, i)
<1> DEFINE i == tick[t].run
<1>1. tick[t].pc # "idle"
  BY DEF Tick, TickQueued, TickLaunch, TickWaits, TickGivesUp, TickPrepare, TickAdvance, TickFlows, TickOverdue,
         TickMvs, TickMvDecide, TickMvUnknown, TickPbi, TickPbiSubmit, Release
<1>2. i \in DOMAIN runs /\ OnRun(t, i)
  BY <1>1, TickRun
<1> HIDE DEF i
<1>3. CASE TickQueued(t)
  BY <1>2, <1>3, TickQueuedEffect DEF TickStep, Begins
<1>4. CASE TickLaunch(t)
  BY <1>2, <1>4, TickLaunchEffect DEF TickStep, Launches, Submitted
<1>5. CASE TickWaits(t)
  BY <1>2, <1>5, TickWaitsEffect DEF TickStep, Waits
<1>6. CASE TickGivesUp(t)
  BY <1>2, <1>6, TickGivesUpEffect DEF TickStep, GivesUp, TickEnds
<1>7. CASE TickPrepare(t)
  <2>1. /\ TypeInv' /\ tick[t].pc = "preparing_workers" /\ Acts(i, runs'[i])
        /\ \/ /\ TickGoes(t, "advance") /\ Same(runs[i], runs'[i], {})
              /\ \A k \in DOMAIN runs[i].flow : runs[i].flow[k].st # "pending"
              /\ UNCHANGED <<target, built, server, runs, frun, fut, locks>>
           \/ \E k \in DOMAIN runs[i].flow : Queues(t, i, k, "advance")
           \/ FlowsEnd(t, i)
    BY <1>2, <1>7, TickPrepareEffect
  <2>2. UNCHANGED <<target, built, server>>
    BY <2>1 DEF Queues, FlowsEnd
  <2>3. Prepares(t, i) \/ Judges(t, i)
    BY <2>1 DEF Prepares, Judges
  <2> QED  BY <1>2, <2>1, <2>2, <2>3 DEF TickStep
<1>8. CASE TickAdvance(t)
  BY <1>2, <1>8, TickAdvanceEffect DEF TickStep, Advances
<1>9. CASE TickFlows(t)
  <2>1. /\ TypeInv' /\ tick[t].pc = "running_flows" /\ Acts(i, runs'[i])
        /\ \/ FlowsEnd(t, i) \/ FlowsSettle(t, i)
           \/ /\ \E k \in DOMAIN runs[i].flow : Queues(t, i, k, "release")
              /\ \A k \in DOMAIN runs[i].flow : Child(runs[i].flow[k]) \notin FlowActive
    BY <1>2, <1>9, TickFlowsEffect
  <2>2. UNCHANGED <<target, built, server>>
    BY <2>1 DEF Queues, FlowsEnd, FlowsSettle
  <2>3. Continues(t, i) \/ Judges(t, i)
    BY <2>1 DEF Continues, Judges
  <2> QED  BY <1>2, <2>1, <2>2, <2>3 DEF TickStep
<1>10. CASE TickOverdue(t)
  BY <1>2, <1>10, TickOverdueEffect DEF TickStep, Judges, FlowsEnd
<1>11. CASE TickMvs(t)
  BY <1>2, <1>11, TickMvsEffect DEF TickStep, Reads
<1>12. CASE TickMvDecide(t)
  <2>1. TypeInv' /\ tick[t].pc = "mvs read" /\ Acts(i, runs'[i]) /\ MvDecided(t, i)
    BY <1>2, <1>12, TickMvDecideEffect
  <2>2. UNCHANGED <<target, built, server>>
    BY <2>1 DEF MvDecided, TickEnds, Submitted
  <2> QED  BY <1>2, <2>1, <2>2 DEF TickStep, Decides
<1>13. CASE TickMvUnknown(t)
  BY <1>2, <1>13, TickMvUnknownEffect DEF TickStep, GivesUp, TickEnds
<1>14. CASE TickPbi(t)
  BY <1>2, <1>14, TickPbiEffect DEF TickStep, Resumes
<1>15. CASE TickPbiSubmit(t)
  BY <1>2, <1>15, TickPbiSubmitEffect DEF TickStep, Submits, Submitted
<1>16. CASE Release(t)
  BY <1>2, <1>16, ReleaseEffect DEF TickStep, Leaves
<1> QED  BY <1>3, <1>4, <1>5, <1>6, <1>7, <1>8, <1>9, <1>10, <1>11, <1>12, <1>13, <1>14, <1>15, <1>16 DEF Tick

\* Every step of a future is one of FutureStep.
LEMMA FutureStepped ==
  ASSUME TypeInv, NEW i \in DOMAIN runs, Future(i)
  PROVE  TypeInv' /\ FutureStep(i)
<1>1. CASE Launch(i)
  BY <1>1, LaunchEffect DEF FutureStep, LaunchEnds
<1>2. CASE MvStart(i)
  BY <1>2, MvStartEffect DEF FutureStep, MvBegins
<1>3. CASE MvNext(i)
  BY <1>3, MvNextEffect DEF FutureStep, MvTakes
<1>4. CASE MvRefresh(i)
  BY <1>4, MvRefreshEffect DEF FutureStep, MvCommits
<1>5. CASE MvRecord(i)
  BY <1>5, MvRecordEffect DEF FutureStep, MvRecords
<1>6. CASE MvFail(i)
  BY <1>6, MvFailEffect DEF FutureStep, MvEnds
<1>7. CASE PbiStart(i)
  BY <1>7, PbiStartEffect DEF FutureStep, PbiTriggersOnce
<1>8. CASE PbiPersist(i)
  BY <1>8, PbiPersistEffect DEF FutureStep, PbiPersists
<1>9. CASE PbiPoll(i)
  BY <1>9, PbiPollEffect DEF FutureStep, PbiPolls
<1>10. CASE PbiEnd(i)
  BY <1>10, PbiEndEffect DEF FutureStep
<1> QED  BY <1>1, <1>2, <1>3, <1>4, <1>5, <1>6, <1>7, <1>8, <1>9, <1>10 DEF Future

\* Every step of the specification keeps TypeInv and is one of Stepped.
LEMMA NextStepped ==
  ASSUME TypeInv, [Next]_vars
  PROVE  TypeInv' /\ Stepped
<1>1. CASE UNCHANGED vars
  <2>1. UNCHANGED Rows /\ UNCHANGED <<target, built, server, frun>>
    BY <1>1 DEF vars, Rows
  <2> QED  BY <2>1 DEF Stepped, OutsideStep, TypeInv, BuiltType, RunsType, FrunType, FutType, TickType, LockType, Rows
<1>2. ASSUME NEW r \in Reports, Preview(r) \/ Confirm(r) \/ Create(r) PROVE TypeInv' /\ Stepped
  <2>1. CASE Preview(r)
    BY <2>1, PreviewEffect DEF Stepped, OutsideStep
  <2>2. CASE Confirm(r)
    BY <2>2, ConfirmEffect DEF Stepped, OutsideStep, Confirms
  <2>3. CASE Create(r)
    <3>1. TypeInv' /\ Planned(r) /\ (Creates(r) \/ UNCHANGED <<runs, locks>>)
      BY <2>3, CreateEffect
    <3>2. CASE UNCHANGED <<runs, locks>>
      <4>1. UNCHANGED Rows
        BY <3>1, <3>2 DEF Planned, Rows
      <4> QED  BY <3>1, <3>2, <4>1 DEF Stepped, OutsideStep
    <3> QED  BY <3>1, <3>2 DEF Stepped
  <2> QED  BY <1>2, <2>1, <2>2, <2>3
<1>3. ASSUME NEW f \in Flows, QueueDirect(f) PROVE TypeInv' /\ Stepped
  BY <1>3, QueueDirectEffect DEF Stepped, OutsideStep, QueuesDirect
<1>4. ASSUME NEW f \in Flows, NEW t \in Targets, EditFlow(f, t) PROVE TypeInv' /\ Stepped
  BY <1>4, EditFlowEffect DEF Stepped, OutsideStep, Edits
<1>5. ASSUME NEW j \in DOMAIN frun, FlowClaimed(j) \/ FlowEnds(j) PROVE TypeInv' /\ Stepped
  BY <1>5, JobStepEffect DEF Stepped, OutsideStep, JobMoves
<1>6. ASSUME NEW i \in DOMAIN runs, LeaseExpires(i) PROVE TypeInv' /\ Stepped
  BY <1>6, LeaseExpiresEffect DEF Stepped, RowStep, Expires
<1>7. ASSUME NEW i \in DOMAIN runs, Future(i) PROVE TypeInv' /\ Stepped
  BY <1>7, FutureStepped DEF Stepped, RowStep
<1>8. ASSUME NEW i \in DOMAIN runs, NEW t \in Ticks, ClaimLease(t, i) PROVE TypeInv' /\ Stepped
  BY <1>8, ClaimLeaseEffect DEF Stepped, RowStep, Claims
<1>9. ASSUME NEW t \in Ticks, Tick(t) PROVE TypeInv' /\ Stepped
  BY <1>9, TickStepped DEF Stepped, RowStep
<1>10. CASE Stop
  BY <1>10, StopEffect DEF Stepped
<1>11. CASE Restart
  BY <1>11, RestartEffect DEF Stepped
<1> QED  BY <1>1, <1>2, <1>3, <1>4, <1>5, <1>6, <1>7, <1>8, <1>9, <1>10, <1>11 DEF Next
(***************************************************************************)
(* What a step leaves alone: the rows of the other runs, and the past of   *)
(* the flow runs.                                                          *)
(***************************************************************************)
RowKept(i) ==
  /\ i \in DOMAIN runs' /\ runs'[i] = runs[i] /\ fut'[i] = fut[i] /\ Mine(i)' = Mine(i) /\ server'.up = server.up
  /\ \A t \in Ticks : (OnRun(t, i)' <=> OnRun(t, i)) /\ (OnRun(t, i) => tick'[t] = tick[t])
\* The flow runs keep what they are; one that ended keeps its outcome.
JobsKept ==
  \A j \in DOMAIN frun :
    /\ j \in DOMAIN frun' /\ frun'[j].flow = frun[j].flow /\ frun'[j].target = frun[j].target
    /\ frun'[j].views = frun[j].views /\ frun'[j].parent = frun[j].parent
    /\ frun[j].st \notin FlowActive => frun'[j].st = frun[j].st
\* A flow run that is new is active, and only then a child of run i.
NoNewChild(i) == \A j \in DOMAIN frun' : j \notin DOMAIN frun => frun'[j].parent # i
\* The jobs of the other runs.
RestKept(i) == RowKept(i) /\ JobsKept /\ NoNewChild(i)

\* The locks after a step on the row of run i.
LocksOf(i) == locks' = locks \/ Released(i)

\* Ending a run frees its locks only.
LEMMA EndsLocks ==
  ASSUME NEW i, NEW run, NEW row, Ends(i, run, row)
  PROVE  LocksOf(i)
BY DEF Ends, LocksOf

\* What a tick does outside the row of its run.
LEMMA TickFrame ==
  ASSUME TypeInv, NEW i \in DOMAIN runs, NEW t \in Ticks, TickStep(t, i)
  PROVE  /\ LocksOf(i) /\ UNCHANGED <<target, built, server>> /\ OnRun(t, i)
         /\ \A s \in Ticks : s # t => tick'[s] = tick[s]
         /\ tick'[t].pc # "idle" => tick'[t].run = i
         /\ \A j \in 1..MaxRuns : j # i => fut'[j] = fut[j]
<1>1. OnRun(t, i) /\ UNCHANGED <<target, built, server>>
  BY DEF TickStep
<1>2. /\ LocksOf(i) /\ \A j \in 1..MaxRuns : j # i => fut'[j] = fut[j]
      /\ \/ \E pc : TickGoes(t, pc)
         \/ TickBecomes(t, Idle)
  <2>1. CASE Begins(t, i)
    BY <2>1 DEF Begins, LocksOf
  <2>2. CASE Launches(t, i)
    BY <2>2, EndsLocks DEF Launches, Submitted, FutBecomes, LocksOf
  <2>3. CASE Waits(t, i)
    BY <2>3 DEF Waits, LocksOf
  <2>4. CASE GivesUp(t, i)
    BY <2>4, EndsLocks DEF GivesUp, TickEnds, LocksOf
  <2>5. CASE Prepares(t, i)
    BY <2>5 DEF Prepares, Queues, LocksOf
  <2>6. CASE Advances(t, i)
    BY <2>6 DEF Advances, LocksOf
  <2>7. CASE Judges(t, i)
    BY <2>7, EndsLocks DEF Judges, FlowsEnd, LocksOf
  <2>8. CASE Continues(t, i)
    BY <2>8 DEF Continues, FlowsSettle, Queues, LocksOf
  <2>9. CASE Reads(t, i)
    BY <2>9 DEF Reads, LocksOf
  <2>10. CASE Decides(t, i)
    BY <2>10, EndsLocks DEF Decides, MvDecided, TickEnds, Submitted, FutBecomes, LocksOf
  <2>11. CASE Resumes(t, i)
    BY <2>11 DEF Resumes, LocksOf
  <2>12. CASE Submits(t, i)
    BY <2>12, EndsLocks DEF Submits, Submitted, FutBecomes, LocksOf
  <2>13. CASE Leaves(t, i)
    BY <2>13 DEF Leaves, LocksOf
  <2> QED  BY <2>1, <2>2, <2>3, <2>4, <2>5, <2>6, <2>7, <2>8, <2>9, <2>10, <2>11, <2>12, <2>13 DEF TickStep
<1>3. CASE \E pc : TickGoes(t, pc)
  BY <1>1, <1>2, <1>3 DEF TickGoes, OnRun
<1>4. CASE TickBecomes(t, Idle)
  <2>1. tick'[t].pc = "idle"
    BY <1>4 DEF TickBecomes, Idle
  <2> QED  BY <1>1, <1>2, <1>4, <2>1 DEF TickBecomes
<1> QED  BY <1>2, <1>3, <1>4

\* What a future does outside the row of its run.
LEMMA FutureFrame ==
  ASSUME TypeInv, NEW i \in DOMAIN runs, FutureStep(i)
  PROVE  LocksOf(i) /\ \A j \in 1..MaxRuns : j # i => fut'[j] = fut[j]
<1>1. CASE LaunchEnds(i)
  BY <1>1, EndsLocks DEF LaunchEnds, LocksOf
<1>2. CASE MvBegins(i) \/ MvTakes(i) \/ MvCommits(i) \/ MvRecords(i)
  BY <1>2 DEF MvBegins, MvTakes, MvCommits, MvRecords, MvSteps, MvIs, LocksOf
<1>3. CASE MvDone(i) \/ MvQuits(i)
  BY <1>3 DEF MvDone, MvQuits, MvIs, LocksOf
<1>4. CASE MvEnds(i)
  BY <1>4, EndsLocks DEF MvEnds, MvIs, LocksOf
<1>5. CASE PbiTriggersOnce(i) \/ PbiPersists(i) \/ PbiPolls(i)
  BY <1>5 DEF PbiTriggersOnce, PbiPersists, PbiPolls, PbiMoves, PbiKeeps, PbiIs, LocksOf
<1>6. CASE PbiEnds(i)
  BY <1>6, EndsLocks DEF PbiEnds, PbiIs, LocksOf
<1> QED  BY <1>1, <1>2, <1>3, <1>4, <1>5, <1>6 DEF FutureStep

\* A step on the row of one run keeps the rows of the others.
LEMMA RowFrame ==
  ASSUME TypeInv, NEW i \in DOMAIN runs, RowStep(i), NEW l \in DOMAIN runs, l # i
  PROVE  RowKept(l)
<1>1. l \in 1..MaxRuns
  BY RowType
<1>2. /\ DOMAIN runs' = DOMAIN runs /\ runs'[l] = runs[l] /\ LocksOf(i) /\ fut'[l] = fut[l] /\ server'.up = server.up
      /\ \A t \in Ticks : (OnRun(t, l)' <=> OnRun(t, l)) /\ (OnRun(t, l) => tick'[t] = tick[t])
  <2>1. ASSUME NEW t \in Ticks, TickStep(t, i) PROVE <1>2!:
    <3>1. DOMAIN runs' = DOMAIN runs /\ runs'[l] = runs[l]
      BY <2>1 DEF TickStep, Acts, RowBecomes
    <3>2. /\ LocksOf(i) /\ server' = server /\ OnRun(t, i) /\ fut'[l] = fut[l]
          /\ \A s \in Ticks : s # t => tick'[s] = tick[s]
          /\ tick'[t].pc # "idle" => tick'[t].run = i
      BY <1>1, <2>1, TickFrame
    <3> QED  BY <3>1, <3>2 DEF OnRun
  <2>2. ASSUME NEW t \in Ticks, Claims(t, i) PROVE <1>2!:
    <3>1. /\ DOMAIN runs' = DOMAIN runs /\ runs'[l] = runs[l] /\ fut'[l] = fut[l] /\ locks' = locks /\ server'.up = server.up
          /\ tick[t].pc = "idle" /\ tick'[t].run = i /\ \A s \in Ticks : s # t => tick'[s] = tick[s]
      BY <2>2 DEF Claims, Acts, RowBecomes, TickBecomes
    <3> QED  BY <3>1 DEF OnRun, LocksOf
  <2>3. CASE Expires(i)
    BY <2>3 DEF Expires, Acts, RowBecomes, OnRun, LocksOf
  <2>4. CASE FutureStep(i)
    <3>1. DOMAIN runs' = DOMAIN runs /\ runs'[l] = runs[l] /\ tick' = tick /\ server' = server
      BY <2>4 DEF FutureStep, Acts, RowBecomes, Elsewhere
    <3>2. LocksOf(i) /\ fut'[l] = fut[l]
      BY <1>1, <2>4, FutureFrame
    <3> QED  BY <3>1, <3>2 DEF OnRun
  <2> QED  BY <2>1, <2>2, <2>3, <2>4 DEF RowStep
<1>3. Mine(l)' = Mine(l)
  BY <1>2 DEF LocksOf, Released, Mine
<1> QED  BY <1>2, <1>3 DEF RowKept

\* The other steps keep the rows of all runs.
LEMMA OutsideFrame ==
  ASSUME TypeInv, OutsideStep, NEW l \in DOMAIN runs
  PROVE  RowKept(l)
<1>1. UNCHANGED Rows /\ server' = server
  BY DEF OutsideStep, Confirms, Planned, Edits, QueuesDirect, JobMoves
<1> QED  BY <1>1 DEF Rows, RowKept, OnRun, Mine

\* A new run keeps the rows of the others.
LEMMA CreateFrame ==
  ASSUME TypeInv, NEW r \in Reports, Planned(r), Creates(r), NEW l \in DOMAIN runs
  PROVE  RowKept(l)
<1>1. /\ l \in DOMAIN runs' /\ runs'[l] = runs[l] /\ fut' = fut /\ tick' = tick /\ server' = server
      /\ Len(runs) + 1 \notin DOMAIN runs
  BY DEF Creates, Planned
<1>2. Mine(l)' = Mine(l)
  <2>1. \A x \in DOMAIN locks : locks'[x] = locks[x] /\ x \in DOMAIN locks'
    BY DEF Creates
  <2>2. \A x \in DOMAIN locks' : x \notin DOMAIN locks => locks'[x] = Len(runs) + 1
    BY DEF Creates
  <2> QED  BY <1>1, <2>1, <2>2 DEF Mine
<1> QED  BY <1>1, <1>2 DEF RowKept, OnRun
(***************************************************************************)
(* Control: which tick and which future may act on a run that no fault but *)
(* a restart has met, by its stage.  The lease admits one tick; the        *)
(* futures of the views and of the dataset live in their own stage only.   *)
(***************************************************************************)
Whole(i) == runs[i].hurt \subseteq {"cut"}
Unhurt(i) == runs[i].hurt = {}
PcStage(pc, stage) ==
  /\ pc = "queued" => stage = "queued"
  /\ pc \in {"launch", "preparing_workers", "advance"} => stage = "preparing_workers"
  /\ pc = "running_flows" => stage = "running_flows"
  /\ pc \in MvTicks => stage \in {"refreshing_mvs", "refreshing_powerbi", "failed"}
  /\ pc \in PbiTicks => stage \in {"refreshing_powerbi", "succeeded", "failed"}
FutStage(i) ==
  /\ fut[i].mv.pc # "none" => runs[i].stage = "refreshing_mvs"
  /\ fut[i].pbi.pc # "none" => runs[i].stage = "refreshing_powerbi"
TickAt(t, i) ==
  /\ runs[i].lease.token = t /\ ~runs[i].lease.expired
  /\ PcStage(tick[t].pc, runs[i].stage)
  /\ tick[t].pc \in MvTicks => fut[i].pbi.pc = "none"
  /\ tick[t].pc = "mv unknown" => fut[i].mv.pc = "none"
ControlAt(i) == Whole(i) => FutStage(i) /\ \A t \in Ticks : OnRun(t, i) => TickAt(t, i)

\* A run does not recover from what it met.
LEMMA EndsHurt ==
  ASSUME NEW i, NEW run, NEW row, Ends(i, run, row)
  PROVE  row.hurt = run.hurt /\ row.lease = run.lease
BY DEF Ends, Failed

\* A tick neither heals its run nor changes its lease before it releases it.
LEMMA TickHurt ==
  ASSUME TypeInv, NEW i \in DOMAIN runs, NEW t \in Ticks, TickStep(t, i)
  PROVE  runs[i].hurt \subseteq runs'[i].hurt /\ (tick[t].pc # "release" => runs'[i].lease = runs[i].lease)
<1>1. CASE Begins(t, i) \/ Waits(t, i) \/ Advances(t, i) \/ Reads(t, i) \/ Resumes(t, i) \/ Leaves(t, i)
  BY <1>1 DEF Begins, Waits, Advances, Reads, Resumes, Leaves, Same
<1>2. CASE Launches(t, i) \/ Submits(t, i)
  BY <1>2 DEF Launches, Submits, Submitted, Same, Ends, Failed
<1>3. CASE GivesUp(t, i)
  BY <1>3 DEF GivesUp, TickEnds, Ends, Failed
<1>4. CASE Prepares(t, i)
  BY <1>4 DEF Prepares, Queues, Same
<1>5. CASE Judges(t, i)
  BY <1>5, EndsHurt DEF Judges, FlowsEnd, Same
<1>6. CASE Continues(t, i)
  BY <1>6 DEF Continues, FlowsSettle, Queues, Same
<1>7. CASE Decides(t, i)
  BY <1>7 DEF Decides, MvDecided, TickEnds, Submitted, Same, Ends, Failed
<1> QED  BY <1>1, <1>2, <1>3, <1>4, <1>5, <1>6, <1>7 DEF TickStep

\* A future neither heals its run nor changes its lease.
LEMMA FutureHurt ==
  ASSUME TypeInv, NEW i \in DOMAIN runs, FutureStep(i)
  PROVE  runs[i].hurt \subseteq runs'[i].hurt /\ runs'[i].lease = runs[i].lease
<1>1. CASE LaunchEnds(i)
  BY <1>1, EndsHurt DEF LaunchEnds, Same
<1>2. CASE MvBegins(i) \/ MvTakes(i) \/ MvCommits(i) \/ MvRecords(i)
  BY <1>2 DEF MvBegins, MvTakes, MvCommits, MvRecords, MvSteps, Same
<1>3. CASE MvDone(i) \/ MvQuits(i)
  BY <1>3 DEF MvDone, MvQuits, Same
<1>4. CASE MvEnds(i)
  BY <1>4, EndsHurt DEF MvEnds
<1>5. CASE PbiTriggersOnce(i) \/ PbiPersists(i) \/ PbiPolls(i)
  BY <1>5 DEF PbiTriggersOnce, PbiPersists, PbiPolls, PbiMoves, PbiKeeps, Same
<1>6. CASE PbiEnds(i)
  BY <1>6, EndsHurt DEF PbiEnds, Same
<1> QED  BY <1>1, <1>2, <1>3, <1>4, <1>5, <1>6 DEF FutureStep

\* A step on a row does not heal its run.
LEMMA HurtGrows ==
  ASSUME TypeInv, NEW i \in DOMAIN runs, RowStep(i)
  PROVE  runs[i].hurt \subseteq runs'[i].hurt /\ (Whole(i)' => Whole(i)) /\ (Unhurt(i)' => Unhurt(i))
<1>1. runs[i].hurt \subseteq runs'[i].hurt
  <2>1. ASSUME NEW t \in Ticks, TickStep(t, i) PROVE runs[i].hurt \subseteq runs'[i].hurt
    BY <2>1, TickHurt
  <2>2. ASSUME NEW t \in Ticks, Claims(t, i) PROVE runs[i].hurt \subseteq runs'[i].hurt
    BY <2>2 DEF Claims, Same
  <2>3. CASE Expires(i)
    BY <2>3 DEF Expires
  <2>4. CASE FutureStep(i)
    BY <2>4, FutureHurt
  <2> QED  BY <2>1, <2>2, <2>3, <2>4 DEF RowStep
<1> QED  BY <1>1 DEF Whole, Unhurt

\* The futures of a run while a tick is in an early stage.
LEMMA Early ==
  ASSUME NEW i, NEW t \in Ticks, ControlAt(i), Whole(i), OnRun(t, i),
         tick[t].pc \in EarlyTicks
  PROVE  fut[i].mv.pc = "none" /\ fut[i].pbi.pc = "none" /\ runs[i].stage \notin Terminal
         /\ runs[i].stage \notin {"refreshing_mvs", "refreshing_powerbi"}
BY DEF ControlAt, FutStage, TickAt, PcStage, EarlyTicks, Terminal

\* One tick at most works on such a run.
LEMMA Alone ==
  ASSUME NEW i, NEW t \in Ticks, ControlAt(i), Whole(i), OnRun(t, i)
  PROVE  TickAt(t, i) /\ FutStage(i) /\ \A s \in Ticks : OnRun(s, i) => s = t
BY DEF ControlAt, TickAt

\* Control after a step of its tick.
LEMMA ControlGoes ==
  ASSUME TypeInv, NEW i \in DOMAIN runs, NEW t \in Ticks, TickStep(t, i), ControlAt(i), Whole(i),
         tick[t].pc # "release", FutStage(i)', PcStage(tick'[t].pc, runs'[i].stage),
         tick'[t].pc \in MvTicks => fut'[i].pbi.pc = "none",
         tick'[t].pc = "mv unknown" => fut'[i].mv.pc = "none"
  PROVE  ControlAt(i)'
<1>1. /\ OnRun(t, i) /\ \A s \in Ticks : s # t => tick'[s] = tick[s]
  BY TickFrame
<1>2. runs'[i].lease = runs[i].lease
  BY TickHurt
<1>3. TickAt(t, i) /\ \A s \in Ticks : OnRun(s, i) => s = t
  BY <1>1, Alone
<1>4. \A s \in Ticks : OnRun(s, i)' => s = t
  BY <1>1, <1>3 DEF OnRun
<1>5. TickAt(t, i)'
  BY <1>2, <1>3 DEF TickAt
<1> QED  BY <1>4, <1>5 DEF ControlAt

\* Control after a step of a tick.
LEMMA TickControl ==
  ASSUME TypeInv, NEW i \in DOMAIN runs, NEW t \in Ticks, TickStep(t, i), ControlAt(i)
  PROVE  ControlAt(i)'
<1> SUFFICES ASSUME Whole(i)' PROVE ControlAt(i)'
  BY DEF ControlAt
<1>1. Whole(i) /\ OnRun(t, i)
  BY TickHurt DEF Whole, TickStep
<1>2. TickAt(t, i) /\ FutStage(i) /\ \A s \in Ticks : OnRun(s, i) => s = t
  BY <1>1, Alone
<1>3. tick[t].pc \in EarlyTicks => /\ fut[i].mv.pc = "none" /\ fut[i].pbi.pc = "none"
                                   /\ runs[i].stage \notin Terminal
  BY <1>1, Early
<1>4. fut[i] \in Futures /\ i \in 1..MaxRuns
  BY RowType
<1>5. CASE Leaves(t, i)
  <2>1. fut' = fut /\ runs'[i].stage = runs[i].stage /\ tick'[t].pc = "idle"
        /\ \A s \in Ticks : s # t => tick'[s] = tick[s]
    BY <1>5 DEF Leaves, Same, TickBecomes, Idle
  <2> QED  BY <1>2, <2>1 DEF ControlAt, FutStage, OnRun
<1>6. ASSUME ~Leaves(t, i)
      PROVE  /\ tick[t].pc # "release" /\ FutStage(i)' /\ PcStage(tick'[t].pc, runs'[i].stage)
             /\ tick'[t].pc \in MvTicks => fut'[i].pbi.pc = "none"
             /\ tick'[t].pc = "mv unknown" => fut'[i].mv.pc = "none"
  <2>1. CASE Begins(t, i)
    BY <1>3, <2>1 DEF Begins, TickGoes, FutStage, PcStage, EarlyTicks, MvTicks, PbiTicks
  <2>2. CASE Launches(t, i)
    <3>1. fut'[i].mv = fut[i].mv /\ fut'[i].pbi = fut[i].pbi /\ tick'[t].pc = "release"
      BY <1>4, <2>2 DEF Launches, Submitted, FutBecomes, TickGoes, Futures
    <3> QED  BY <1>3, <2>2, <3>1 DEF Launches, FutStage, PcStage, EarlyTicks, MvTicks, PbiTicks
  <2>3. CASE Waits(t, i)
    BY <1>3, <2>3 DEF Waits, TickGoes, FutStage, PcStage, EarlyTicks, MvTicks, PbiTicks
  <2>4. CASE GivesUp(t, i)
    <3>1. fut[i].mv.pc = "none" /\ fut[i].pbi.pc = "none"
      BY <1>2, <1>3, <2>4 DEF GivesUp, TickAt, EarlyTicks, MvTicks
    <3> QED  BY <2>4, <3>1 DEF GivesUp, TickEnds, TickGoes, FutStage, PcStage, EarlyTicks, MvTicks, PbiTicks
  <2>5. CASE Prepares(t, i)
    BY <1>2, <1>3, <2>5 DEF Prepares, Queues, Same, TickGoes, TickAt, FutStage, PcStage, EarlyTicks, MvTicks, PbiTicks
  <2>6. CASE Advances(t, i)
    BY <1>3, <2>6 DEF Advances, TickGoes, FutStage, PcStage, EarlyTicks, MvTicks, PbiTicks
  <2>7. CASE Judges(t, i)
    BY <1>3, <2>7 DEF Judges, FlowsEnd, TickGoes, FutStage, PcStage, EarlyTicks, MvTicks, PbiTicks
  <2>8. CASE Continues(t, i)
    BY <1>3, <2>8 DEF Continues, FlowsSettle, Queues, TickGoes, FutStage, PcStage, EarlyTicks, MvTicks, PbiTicks
  <2>9. CASE Reads(t, i)
    BY <1>2, <2>9 DEF Reads, Same, TickGoes, TickAt, FutStage, PcStage, MvTicks, PbiTicks
  <2>10. CASE Decides(t, i)
    <3>1. tick[t].pc = "mvs read" /\ fut[i].pbi.pc = "none" /\ FutStage(i)
      BY <1>2, <2>10 DEF Decides, TickAt, MvTicks
    <3>2. PcStage("mvs read", runs[i].stage)
      BY <1>2, <3>1 DEF TickAt
    <3>3. CASE /\ ~Live(i, "mv") /\ TickGoes(t, "mv unknown")
               /\ Same(runs[i], runs'[i], {"view", "hurt"}) /\ fut' = fut
      BY <3>1, <3>2, <3>3 DEF Same, TickGoes, FutStage, PcStage, MvTicks, PbiTicks, Live
    <3>4. CASE ~Live(i, "mv") /\ TickEnds(t, i)
      BY <3>1, <3>4 DEF TickEnds, TickGoes, FutStage, PcStage, MvTicks, PbiTicks, Live
    <3>5. CASE TickGoes(t, "release") /\ Submitted(i, "mv", "refreshing_mvs", MvStarts(i))
      <4>1. tick'[t].pc = "release" /\ PcStage(tick'[t].pc, runs'[i].stage) /\ "release" \notin MvTicks
        BY <3>5 DEF TickGoes, PcStage, MvTicks, PbiTicks
      <4>2. FutStage(i)'
        <5>1. CASE fut' = fut /\ Same(runs[i], runs'[i], {})
          BY <3>1, <5>1 DEF FutStage, Same
        <5>2. CASE fut' = fut /\ ~Live(i, "mv")
          BY <3>1, <5>2 DEF FutStage, Live
        <5>3. CASE /\ FutBecomes(i, MvStarts(i)) /\ Same(runs[i], runs'[i], {"hurt"})
                   /\ runs'[i].hurt = runs[i].hurt \cup IF runs[i].stage # "refreshing_mvs" THEN {"stale"} ELSE {}
          <6>1. fut'[i].pbi = fut[i].pbi
            BY <5>3, MvStartsType DEF FutBecomes
          <6>2. runs'[i].stage = "refreshing_mvs"
            BY <5>3 DEF Same, Whole
          <6> QED  BY <3>1, <6>1, <6>2 DEF FutStage
        <5> QED  BY <3>5, <5>1, <5>2, <5>3 DEF Submitted
      <4> QED  BY <3>1, <4>1, <4>2
    <3> QED  BY <2>10, <3>3, <3>4, <3>5 DEF Decides, MvDecided
  <2>11. CASE Resumes(t, i)
    BY <1>2, <2>11 DEF Resumes, Same, TickGoes, TickAt, FutStage, PcStage, MvTicks, PbiTicks
  <2>12. CASE Submits(t, i)
    <3>1. tick[t].pc = "pbi read" /\ PcStage("pbi read", runs[i].stage) /\ tick'[t].pc = "release"
      BY <1>2, <2>12 DEF Submits, TickAt, TickGoes
    <3>2. fut[i].mv.pc = "none"
      BY <1>2, <3>1 DEF FutStage, PcStage, PbiTicks
    <3>3. PcStage(tick'[t].pc, runs'[i].stage) /\ "release" \notin MvTicks /\ "pbi read" # "release"
      BY <3>1 DEF PcStage, MvTicks, PbiTicks
    <3>4. FutStage(i)'
      <4>1. CASE fut' = fut /\ Same(runs[i], runs'[i], {})
        BY <1>2, <4>1 DEF FutStage, Same
      <4>2. CASE fut' = fut /\ ~Live(i, "pbi")
        BY <3>2, <4>2 DEF FutStage, Live
      <4>3. CASE /\ FutBecomes(i, PbiStarts(t, i)) /\ Same(runs[i], runs'[i], {"hurt"})
                 /\ runs'[i].hurt = runs[i].hurt \cup IF runs[i].stage # "refreshing_powerbi" THEN {"stale"} ELSE {}
        <5>1. fut'[i].mv = fut[i].mv
          BY <1>4, <4>3 DEF FutBecomes, PbiStarts, Futures
        <5>2. runs'[i].stage = "refreshing_powerbi"
          BY <4>3 DEF Same, Whole
        <5> QED  BY <3>2, <5>1, <5>2 DEF FutStage
      <4> QED  BY <2>12, <4>1, <4>2, <4>3 DEF Submits, Submitted
    <3> QED  BY <3>1, <3>3, <3>4
  <2> QED  BY <1>6, <2>1, <2>2, <2>3, <2>4, <2>5, <2>6, <2>7, <2>8, <2>9, <2>10, <2>11, <2>12 DEF TickStep
<1>7. ASSUME ~Leaves(t, i) PROVE ControlAt(i)'
  BY <1>1, <1>6, <1>7, ControlGoes
<1> QED  BY <1>5, <1>7

\* A step of a future leaves the ticks and the lease alone.
LEMMA FutureControl ==
  ASSUME TypeInv, NEW i \in DOMAIN runs, FutureStep(i), ControlAt(i)
  PROVE  ControlAt(i)'
<1> SUFFICES ASSUME Whole(i)' PROVE FutStage(i)' /\ \A t \in Ticks : OnRun(t, i)' => TickAt(t, i)'
  BY DEF ControlAt
<1>1. Whole(i) /\ tick' = tick /\ runs'[i].lease = runs[i].lease
  BY FutureHurt DEF Whole, FutureStep, Elsewhere
<1>2. FutStage(i) /\ \A t \in Ticks : OnRun(t, i) => TickAt(t, i)
  BY <1>1 DEF ControlAt
<1>3. ASSUME FutStage(i)',
             \A t \in Ticks : OnRun(t, i) =>
               /\ PcStage(tick[t].pc, runs'[i].stage)
               /\ tick[t].pc \in MvTicks => fut'[i].pbi.pc = "none"
               /\ tick[t].pc = "mv unknown" => fut'[i].mv.pc = "none"
      PROVE  FutStage(i)' /\ \A t \in Ticks : OnRun(t, i)' => TickAt(t, i)'
  BY <1>1, <1>2, <1>3 DEF TickAt, OnRun
\* a future of the views at work: it keeps the stage, or moves it on
<1>4. ASSUME fut[i].mv.pc # "none", fut'[i].pbi = fut[i].pbi, runs'[i].stage \in {"refreshing_mvs", "refreshing_powerbi", "failed"},
             fut'[i].mv.pc # "none" => runs'[i].stage = "refreshing_mvs"
      PROVE  FutStage(i)' /\ \A t \in Ticks : OnRun(t, i)' => TickAt(t, i)'
  <2>1. runs[i].stage = "refreshing_mvs" /\ fut[i].pbi.pc = "none"
    BY <1>2, <1>4 DEF FutStage
  <2>2. FutStage(i)'
    BY <1>4, <2>1 DEF FutStage
  <2>3. ASSUME NEW t \in Ticks, OnRun(t, i)
        PROVE  /\ PcStage(tick[t].pc, runs'[i].stage)
               /\ tick[t].pc \in MvTicks => fut'[i].pbi.pc = "none"
               /\ tick[t].pc = "mv unknown" => fut'[i].mv.pc = "none"
    <3>1. TickAt(t, i)
      BY <1>2, <2>3
    <3> QED  BY <1>4, <2>1, <3>1 DEF TickAt, PcStage, MvTicks, PbiTicks
  <2> QED  BY <1>3, <2>2, <2>3
\* a future of the dataset at work
<1>5. ASSUME fut[i].pbi.pc # "none", fut'[i].mv = fut[i].mv, runs'[i].stage \in {"refreshing_powerbi", "succeeded", "failed"},
             fut'[i].pbi.pc # "none" => runs'[i].stage = "refreshing_powerbi"
      PROVE  FutStage(i)' /\ \A t \in Ticks : OnRun(t, i)' => TickAt(t, i)'
  <2>1. runs[i].stage = "refreshing_powerbi" /\ fut[i].mv.pc = "none"
    BY <1>2, <1>5 DEF FutStage
  <2>2. FutStage(i)'
    BY <1>5, <2>1 DEF FutStage
  <2>3. ASSUME NEW t \in Ticks, OnRun(t, i)
        PROVE  /\ PcStage(tick[t].pc, runs'[i].stage)
               /\ tick[t].pc \in MvTicks => fut'[i].pbi.pc = "none"
               /\ tick[t].pc = "mv unknown" => fut'[i].mv.pc = "none"
    <3>1. TickAt(t, i)
      BY <1>2, <2>3
    <3> QED  BY <1>5, <2>1, <3>1 DEF TickAt, PcStage, MvTicks, PbiTicks
  <2> QED  BY <1>3, <2>2, <2>3
<1>6. CASE LaunchEnds(i)
  <2>1. fut'[i].mv = fut[i].mv /\ fut'[i].pbi = fut[i].pbi
    BY <1>6 DEF LaunchEnds
  <2>2. CASE runs' = runs
    BY <1>2, <1>3, <2>1, <2>2 DEF FutStage, TickAt
  <2>3. ASSUME NEW run \in RunsOf(runs[i].report), Ends(i, run, runs'[i]),
               run.hurt = runs[i].hurt \cup IF Late(i) THEN {"late"} ELSE {}
        PROVE  FutStage(i)' /\ \A t \in Ticks : OnRun(t, i)' => TickAt(t, i)'
    <3>1. runs'[i].hurt = run.hurt
      BY <2>3 DEF Ends, Failed
    <3>2. ~Late(i)
      BY <2>3, <3>1 DEF Whole
    <3>3. runs[i].stage = "preparing_workers" /\ \A t \in Ticks : ~OnRun(t, i)
      BY <3>2 DEF Late
    <3> QED  BY <1>1, <1>2, <2>1, <3>3 DEF FutStage, OnRun
  <2> QED  BY <1>6, <2>2, <2>3 DEF LaunchEnds
<1>7. CASE MvBegins(i) \/ MvTakes(i) \/ MvCommits(i) \/ MvRecords(i)
  <2>1. fut[i].mv.pc # "none" /\ fut'[i].pbi = fut[i].pbi /\ runs'[i].stage = runs[i].stage
    BY <1>7 DEF MvBegins, MvTakes, MvCommits, MvRecords, MvSteps, MvIs, Same
  <2> QED  BY <1>2, <1>4, <2>1 DEF FutStage
<1>8. CASE fut[i].mv.pc = "next" /\ (MvDone(i) \/ MvQuits(i))
  <2>1. fut[i].mv.pc # "none" /\ fut'[i].pbi = fut[i].pbi /\ fut'[i].mv.pc = "none"
        /\ runs'[i].stage \in {runs[i].stage, "refreshing_powerbi"}
    BY <1>8 DEF MvDone, MvQuits, MvIs, Same
  <2> QED  BY <1>2, <1>4, <2>1 DEF FutStage
<1>9. CASE MvEnds(i)
  <2>1. fut[i].mv.pc # "none" /\ fut'[i].pbi = fut[i].pbi /\ fut'[i].mv.pc = "none"
        /\ runs'[i].stage \in {runs[i].stage, "failed"}
    BY <1>9 DEF MvEnds, MvIs, Ends, Failed
  <2> QED  BY <1>2, <1>4, <2>1 DEF FutStage
<1>10. CASE PbiTriggersOnce(i) \/ PbiPersists(i) \/ PbiPolls(i)
  <2>1. fut[i].pbi.pc # "none" /\ fut'[i].mv = fut[i].mv /\ runs'[i].stage = runs[i].stage
    BY <1>10 DEF PbiTriggersOnce, PbiPersists, PbiPolls, PbiMoves, PbiKeeps, PbiIs, Same
  <2> QED  BY <1>2, <1>5, <2>1 DEF FutStage
<1>11. CASE PbiEnds(i)
  <2>1. fut[i].pbi.pc # "none" /\ fut'[i].mv = fut[i].mv /\ fut'[i].pbi.pc = "none"
        /\ runs'[i].stage \in {runs[i].stage, "succeeded", "failed"}
    BY <1>11 DEF PbiEnds, PbiIs, Ends, Failed
  <2> QED  BY <1>2, <1>5, <2>1 DEF FutStage
<1> QED  BY <1>6, <1>7, <1>8, <1>9, <1>10, <1>11 DEF FutureStep

\* Control after a tick has claimed the lease.
LEMMA ClaimsControl ==
  ASSUME TypeInv, NEW i \in DOMAIN runs, NEW t \in Ticks, Claims(t, i), ControlAt(i)
  PROVE  ControlAt(i)'
<1> SUFFICES ASSUME Whole(i)' PROVE FutStage(i)' /\ \A s \in Ticks : OnRun(s, i)' => TickAt(s, i)'
  BY DEF ControlAt
<1>1. /\ runs'[i].hurt = runs[i].hurt /\ runs'[i].stage = runs[i].stage /\ fut' = fut
      /\ runs'[i].lease.token = t /\ ~runs'[i].lease.expired /\ runs[i].stage \notin Terminal
      /\ runs[i].lease.token = NoThread \/ runs[i].lease.expired
      /\ tick'[t].pc = runs[i].stage /\ \A s \in Ticks : s # t => tick'[s] = tick[s]
  BY DEF Claims, Same, TickBecomes
<1>2. FutStage(i) /\ \A s \in Ticks : OnRun(s, i) => TickAt(s, i)
  BY <1>1 DEF ControlAt, Whole
<1>3. \A s \in Ticks : ~OnRun(s, i)
  BY <1>1, <1>2, ShapeAssumption DEF TickAt
<1>4. runs[i].stage \in Stages
  BY RowType, RowFields
<1>5. \A s \in Ticks : OnRun(s, i)' => s = t
  BY <1>1, <1>3 DEF OnRun
<1>6. TickAt(t, i)'
  BY <1>1, <1>2, <1>4 DEF TickAt, PcStage, FutStage, Stages, Terminal, MvTicks, PbiTicks
<1> QED  BY <1>1, <1>2, <1>5, <1>6 DEF FutStage

\* Control after a lease has expired.
LEMMA ExpiresControl ==
  ASSUME TypeInv, NEW i \in DOMAIN runs, Expires(i), ControlAt(i)
  PROVE  ControlAt(i)'
<1> SUFFICES ASSUME Whole(i)' PROVE FutStage(i)' /\ \A s \in Ticks : OnRun(s, i)' => TickAt(s, i)'
  BY DEF ControlAt
<1>1. runs[i].hurt \subseteq runs'[i].hurt /\ runs'[i].stage = runs[i].stage /\ fut' = fut /\ tick' = tick
      /\ ((\E t \in Ticks : OnRun(t, i) /\ runs[i].lease.token = t) => "slow" \in runs'[i].hurt)
  BY DEF Expires, Same
<1>2. FutStage(i) /\ \A s \in Ticks : OnRun(s, i) => TickAt(s, i)
  BY <1>1 DEF ControlAt, Whole
<1>3. \A s \in Ticks : ~OnRun(s, i)
  BY <1>1, <1>2 DEF TickAt, Whole
<1> QED  BY <1>1, <1>2, <1>3 DEF FutStage, OnRun

\* The steps that clear futures and ticks, or create a run.
LEMMA ProcessControl ==
  ASSUME TypeInv, Stopped \/ Restarted, NEW i \in DOMAIN runs, ControlAt(i)
  PROVE  ControlAt(i)'
<1>1. i \in 1..MaxRuns
  BY RowType
<1>2. CASE Stopped
  <2>1. /\ runs' = runs /\ tick' = tick
        /\ fut'[i].mv.pc \in {fut[i].mv.pc, "none"} /\ fut'[i].pbi.pc \in {fut[i].pbi.pc, "none"}
    BY <1>1, <1>2 DEF Stopped, NoFutures
  <2> QED  BY <2>1 DEF ControlAt, Whole, FutStage, OnRun, TickAt
<1>3. CASE Restarted
  <2>1. fut'[i].mv.pc = "none" /\ fut'[i].pbi.pc = "none" /\ \A t \in Ticks : tick'[t].pc = "idle"
    BY <1>1, <1>3 DEF Restarted, NoFutures, Idle
  <2> QED  BY <2>1 DEF ControlAt, FutStage, OnRun
<1> QED  BY <1>2, <1>3

\* Control of a run that a step leaves alone.
LEMMA KeptControl ==
  ASSUME TypeInv, NEW i \in DOMAIN runs, RowKept(i), ControlAt(i)
  PROVE  ControlAt(i)'
BY DEF RowKept, ControlAt, Whole, FutStage, TickAt

\* What a new run finds: no futures, no tick.
LEMMA NewRow ==
  ASSUME TypeInv, NEW r \in Reports, Planned(r), Creates(r), NEW n, n = Len(runs) + 1
  PROVE  /\ runs'[n] = NewRun(r) /\ fut'[n] = NoFutures /\ (\A t \in Ticks : ~OnRun(t, n)')
         /\ DOMAIN runs' = DOMAIN runs \cup {n} /\ n \notin DOMAIN runs /\ n \in 1..MaxRuns
         /\ Mine(n)' = Resources(r, built[r].plan)
<1>1. /\ n \in 1..MaxRuns /\ n \notin DOMAIN runs /\ runs'[n] = NewRun(r) /\ DOMAIN runs' = DOMAIN runs \cup {n}
      /\ fut' = fut /\ tick' = tick
      /\ (\A x \in Resources(r, built[r].plan) : x \notin DOMAIN locks /\ locks'[x] = n)
      /\ DOMAIN locks' = DOMAIN locks \cup Resources(r, built[r].plan)
      /\ \A x \in DOMAIN locks : locks'[x] = locks[x]
  BY DEF Creates, Planned
<1>2. Len(runs) \in Nat /\ (\A t \in Ticks : tick[t].run <= Len(runs) /\ tick[t].run \in Nat)
  <2>1. runs \in Seq(AllRuns)
    BY DEF TypeInv, RunsType
  <2>2. ASSUME NEW t \in Ticks PROVE tick[t].run <= Len(runs) /\ tick[t].run \in Nat
    BY DEF TypeInv, TickType, TickRows
  <2> QED  BY <2>1, <2>2
<1>3. n > Len(runs) /\ fut[n] = NoFutures
  BY <1>1, <1>2 DEF TypeInv, FutType
<1>4. \A x \in DOMAIN locks : locks[x] # n
  BY <1>1 DEF TypeInv, LockType
<1>5. Mine(n)' = Resources(r, built[r].plan)
  BY <1>1, <1>4 DEF Mine
<1>6. \A t \in Ticks : ~OnRun(t, n)'
  <2>1. ASSUME NEW t \in Ticks PROVE tick'[t].run # n
    <3>1. tick[t].run <= Len(runs) /\ tick[t].run \in Nat
      BY <1>2
    <3> QED  BY <1>1, <1>2, <1>3, <3>1
  <2> QED  BY <2>1 DEF OnRun
<1> QED  BY <1>1, <1>3, <1>5, <1>6

\* Control of a new run.
LEMMA CreateControl ==
  ASSUME TypeInv, NEW r \in Reports, Planned(r), Creates(r), NEW n, n = Len(runs) + 1
  PROVE  ControlAt(n)'
<1>1. fut'[n] = NoFutures /\ \A t \in Ticks : ~OnRun(t, n)'
  BY NewRow
<1> QED  BY <1>1 DEF ControlAt, FutStage, NoFutures

Control == \A i \in DOMAIN runs : ControlAt(i)

\* Control is inductive.
LEMMA ControlNext ==
  ASSUME TypeInv, Stepped, Control
  PROVE  Control'
<1>1. CASE OutsideStep
  <2>1. DOMAIN runs' = DOMAIN runs
    BY <1>1 DEF OutsideStep, Rows
  <2> QED  BY <1>1, <2>1, OutsideFrame, KeptControl DEF Control
<1>2. ASSUME NEW r \in Reports, Planned(r), Creates(r) PROVE Control'
  <2> DEFINE n == Len(runs) + 1
  <2>1. DOMAIN runs' = DOMAIN runs \cup {n}
    BY <1>2 DEF Creates
  <2>2. ASSUME NEW i \in DOMAIN runs PROVE ControlAt(i)'
    BY <1>2, <2>2, CreateFrame, KeptControl DEF Control
  <2>3. ASSUME NEW i, i = n PROVE ControlAt(i)'
    BY <1>2, <2>3, CreateControl
  <2> QED  BY <2>1, <2>2, <2>3 DEF Control
<1>3. ASSUME NEW i \in DOMAIN runs, RowStep(i) PROVE Control'
  <2>1. DOMAIN runs' = DOMAIN runs
    BY <1>3 DEF RowStep, TickStep, Claims, Expires, FutureStep, Acts, RowBecomes
  <2>2. ControlAt(i)'
    BY <1>3, TickControl, ClaimsControl, ExpiresControl, FutureControl DEF RowStep, Control
  <2>3. ASSUME NEW l \in DOMAIN runs, l # i PROVE ControlAt(l)'
    BY <1>3, <2>3, RowFrame, KeptControl DEF Control
  <2> QED  BY <2>1, <2>2, <2>3 DEF Control
<1>4. CASE Stopped \/ Restarted
  <2>1. DOMAIN runs' = DOMAIN runs
    BY <1>4 DEF Stopped, Restarted
  <2> QED  BY <1>4, <2>1, ProcessControl DEF Control
<1> QED  BY <1>1, <1>2, <1>3, <1>4 DEF Stepped
(***************************************************************************)
(* Locks: what a step does to the stage of a run and to its locks.         *)
(***************************************************************************)
StageMoves(i) ==
  \/ Mine(i)' = Mine(i) /\ runs'[i].stage = runs[i].stage
  \/ /\ Mine(i)' = Mine(i) /\ runs'[i].stage \notin Terminal
     /\ Whole(i)' => runs[i].stage \notin Terminal
  \/ /\ Mine(i)' = {} /\ runs'[i].stage \in Terminal
     /\ Whole(i)' => runs[i].stage \notin Terminal

\* A step that changes no lock.
LEMMA MineKept ==
  ASSUME NEW i, locks' = locks
  PROVE  Mine(i)' = Mine(i)
BY DEF Mine

\* A step that frees the locks of a run.
LEMMA MineFreed ==
  ASSUME NEW i, Released(i)
  PROVE  Mine(i)' = {}
BY DEF Mine, Released

\* A run that ends, moves its stage and its locks together.
LEMMA EndsMoves ==
  ASSUME NEW i, NEW run, Ends(i, run, runs'[i]), run.stage = runs[i].stage
  PROVE  StageMoves(i)
<1>1. CASE locks' = locks /\ runs'[i] = run
  BY <1>1, MineKept DEF StageMoves
<1>2. CASE run.stage \notin Terminal /\ Failed(run, runs'[i]) /\ Released(i)
  BY <1>2, MineFreed DEF StageMoves, Failed, Terminal
<1> QED  BY <1>1, <1>2 DEF Ends

\* The same, when nothing else of the row changed.
LEMMA OwnEndsMoves ==
  ASSUME NEW i, Ends(i, runs[i], runs'[i])
  PROVE  StageMoves(i)
<1>1. CASE locks' = locks /\ runs'[i] = runs[i]
  BY <1>1, MineKept DEF StageMoves
<1>2. CASE runs[i].stage \notin Terminal /\ Failed(runs[i], runs'[i]) /\ Released(i)
  BY <1>2, MineFreed DEF StageMoves, Failed, Terminal
<1> QED  BY <1>1, <1>2 DEF Ends

\* Stage and locks after a step of a tick.
LEMMA TickMoves ==
  ASSUME TypeInv, NEW i \in DOMAIN runs, NEW t \in Ticks, TickStep(t, i), ControlAt(i)
  PROVE  StageMoves(i)
<1>1. OnRun(t, i) /\ (Whole(i)' => Whole(i))
  BY TickHurt DEF Whole, TickStep
<1>2. Whole(i)' /\ tick[t].pc \in EarlyTicks => runs[i].stage \notin Terminal
  BY <1>1, Early
<1>3. AfterFlows(runs[i]) \notin Terminal
  BY DEF AfterFlows, Terminal
<1>4. CASE Begins(t, i)
  BY <1>2, <1>3, <1>4, MineKept DEF Begins, StageMoves, EarlyTicks, Terminal
<1>5. CASE Launches(t, i)
  BY <1>5, MineKept, OwnEndsMoves DEF Launches, Submitted, Same, StageMoves
<1>6. CASE Waits(t, i) \/ Reads(t, i) \/ Resumes(t, i) \/ Leaves(t, i)
  BY <1>6, MineKept DEF Waits, Reads, Resumes, Leaves, Same, StageMoves
<1>7. CASE GivesUp(t, i)
  BY <1>7, OwnEndsMoves DEF GivesUp, TickEnds
<1>8. CASE Prepares(t, i)
  BY <1>8, MineKept DEF Prepares, Queues, Same, StageMoves
<1>9. CASE Advances(t, i)
  BY <1>2, <1>9, MineKept DEF Advances, StageMoves, EarlyTicks, Terminal
<1>10. CASE Judges(t, i)
  BY <1>10, EndsMoves DEF Judges, FlowsEnd, Same
<1>11. CASE Continues(t, i)
  BY <1>2, <1>3, <1>11, MineKept DEF Continues, FlowsSettle, FlowsDone, Queues, Same, StageMoves, EarlyTicks
<1>12. CASE Decides(t, i)
  BY <1>12, MineKept, OwnEndsMoves DEF Decides, MvDecided, TickEnds, Submitted, Same, StageMoves
<1>13. CASE Submits(t, i)
  BY <1>13, MineKept, OwnEndsMoves DEF Submits, Submitted, Same, StageMoves
<1> QED  BY <1>4, <1>5, <1>6, <1>7, <1>8, <1>9, <1>10, <1>11, <1>12, <1>13 DEF TickStep

\* Stage and locks after a step on the row.
LEMMA RowMoves ==
  ASSUME TypeInv, NEW i \in DOMAIN runs, RowStep(i), ControlAt(i)
  PROVE  StageMoves(i)
<1>1. ASSUME NEW t \in Ticks, TickStep(t, i) PROVE StageMoves(i)
  BY <1>1, TickMoves
<1>2. ASSUME NEW t \in Ticks, Claims(t, i) PROVE StageMoves(i)
  BY <1>2, MineKept DEF Claims, Same, StageMoves
<1>3. CASE Expires(i)
  BY <1>3, MineKept DEF Expires, Same, StageMoves
<1>4. CASE FutureStep(i)
  <2>1. (Whole(i)' => Whole(i)) /\ (Whole(i) => FutStage(i))
    BY <1>4, FutureHurt DEF Whole, ControlAt
  <2>2. CASE LaunchEnds(i)
    BY <2>2, MineKept, EndsMoves DEF LaunchEnds, Same, StageMoves
  <2>3. CASE MvBegins(i) \/ MvTakes(i) \/ MvCommits(i) \/ MvRecords(i) \/ MvQuits(i)
    BY <2>3, MineKept DEF MvBegins, MvTakes, MvCommits, MvRecords, MvQuits, MvSteps, Same, StageMoves
  <2>4. CASE fut[i].mv.pc = "next" /\ MvDone(i)
    BY <2>1, <2>4, MineKept DEF MvDone, FutStage, StageMoves, Terminal
  <2>5. CASE MvEnds(i)
    BY <2>5, OwnEndsMoves DEF MvEnds
  <2>6. CASE PbiTriggersOnce(i) \/ PbiPersists(i) \/ PbiPolls(i)
    BY <2>6, MineKept DEF PbiTriggersOnce, PbiPersists, PbiPolls, PbiMoves, PbiKeeps, Same, StageMoves
  <2>7. CASE PbiEnds(i)
    <3>1. CASE fut[i].pbi.pc = "succeeded" /\ runs'[i].stage = "succeeded" /\ Released(i)
      BY <2>1, <3>1, MineFreed DEF FutStage, StageMoves, Terminal
    <3> QED  BY <2>7, <3>1, OwnEndsMoves DEF PbiEnds
  <2> QED  BY <1>4, <2>2, <2>3, <2>4, <2>5, <2>6, <2>7 DEF FutureStep
<1> QED  BY <1>1, <1>2, <1>3, <1>4 DEF RowStep

\* What a step on a row leaves of the plan it runs.
LEMMA RowSame ==
  ASSUME TypeInv, NEW i \in DOMAIN runs, RowStep(i)
  PROVE  /\ DOMAIN runs' = DOMAIN runs /\ runs'[i].report = runs[i].report /\ runs'[i].goal = runs[i].goal
         /\ runs'[i].seen = runs[i].seen /\ runs'[i].born = runs[i].born /\ LocksOf(i)
<1>1. DOMAIN runs' = DOMAIN runs /\ runs'[i].report = runs[i].report
  <2>1. Acts(i, runs'[i])
    BY DEF RowStep, TickStep, Claims, Expires, FutureStep
  <2> QED  BY <2>1, SameShape DEF Acts, RowBecomes
<1>2. ASSUME NEW t \in Ticks, TickStep(t, i)
      PROVE  runs'[i].goal = runs[i].goal /\ runs'[i].seen = runs[i].seen /\ runs'[i].born = runs[i].born
  <2>1. CASE Begins(t, i) \/ Waits(t, i) \/ Advances(t, i) \/ Reads(t, i) \/ Resumes(t, i) \/ Leaves(t, i)
    BY <2>1 DEF Begins, Waits, Advances, Reads, Resumes, Leaves, Same
  <2>2. CASE Launches(t, i) \/ Submits(t, i)
    BY <2>2 DEF Launches, Submits, Submitted, Same, Ends, Failed
  <2>3. CASE GivesUp(t, i)
    BY <2>3 DEF GivesUp, TickEnds, Ends, Failed
  <2>4. CASE Prepares(t, i)
    BY <2>4 DEF Prepares, Queues, Same
  <2>5. CASE Judges(t, i)
    BY <2>5 DEF Judges, FlowsEnd, Same, Ends, Failed
  <2>6. CASE Continues(t, i)
    BY <2>6 DEF Continues, FlowsSettle, Queues, Same
  <2>7. CASE Decides(t, i)
    BY <2>7 DEF Decides, MvDecided, TickEnds, Submitted, Same, Ends, Failed
  <2> QED  BY <1>2, <2>1, <2>2, <2>3, <2>4, <2>5, <2>6, <2>7 DEF TickStep
<1>3. ASSUME NEW t \in Ticks, Claims(t, i)
      PROVE  runs'[i].goal = runs[i].goal /\ runs'[i].seen = runs[i].seen /\ runs'[i].born = runs[i].born /\ LocksOf(i)
  BY <1>3 DEF Claims, Same, LocksOf
<1>4. CASE Expires(i)
  BY <1>1, <1>4 DEF Expires, Same, LocksOf
<1>5. CASE FutureStep(i)
  <2>1. runs'[i].goal = runs[i].goal /\ runs'[i].seen = runs[i].seen /\ runs'[i].born = runs[i].born
    <3>1. CASE LaunchEnds(i)
      BY <3>1 DEF LaunchEnds, Same, Ends, Failed
    <3>2. CASE MvBegins(i) \/ MvTakes(i) \/ MvCommits(i) \/ MvRecords(i) \/ MvDone(i) \/ MvQuits(i)
      BY <3>2 DEF MvBegins, MvTakes, MvCommits, MvRecords, MvDone, MvQuits, MvSteps, Same
    <3>3. CASE MvEnds(i)
      BY <3>3 DEF MvEnds, Ends, Failed
    <3>4. CASE PbiTriggersOnce(i) \/ PbiPersists(i) \/ PbiPolls(i)
      BY <3>4 DEF PbiTriggersOnce, PbiPersists, PbiPolls, PbiMoves, PbiKeeps, Same
    <3>5. CASE PbiEnds(i)
      BY <3>5 DEF PbiEnds, Same, Ends, Failed
    <3> QED  BY <1>5, <3>1, <3>2, <3>3, <3>4, <3>5 DEF FutureStep
  <2> QED  BY <1>1, <1>5, <2>1, FutureFrame
<1> QED  BY <1>1, <1>2, <1>3, <1>4, <1>5, TickFrame DEF RowStep

LocksAt(i) ==
  /\ runs[i].stage \in Terminal => Mine(i) = {}
  /\ Whole(i) /\ runs[i].stage \notin Terminal => Mine(i) = Resources(runs[i].report, runs[i])

\* The resources of a plan depend on its tables only.
LEMMA SameResources ==
  ASSUME NEW r, NEW a, NEW b, a.goal = b.goal
  PROVE  Resources(r, a) = Resources(r, b)
BY DEF Resources

\* A step that keeps report and tables keeps the resources.
LEMMA RowResources ==
  ASSUME NEW i, runs'[i].goal = runs[i].goal, runs'[i].report = runs[i].report
  PROVE  Resources(runs'[i].report, runs'[i]) = Resources(runs[i].report, runs[i])
BY DEF Resources

\* The locks of a run after a step on its row.
LEMMA RowLocks ==
  ASSUME TypeInv, NEW i \in DOMAIN runs, RowStep(i), ControlAt(i), LocksAt(i)
  PROVE  LocksAt(i)'
<1>1. StageMoves(i) /\ (Whole(i)' => Whole(i))
  BY RowMoves, HurtGrows
<1>2. Resources(runs'[i].report, runs'[i]) = Resources(runs[i].report, runs[i])
  BY RowSame, RowResources
<1>3. Resources(runs[i].report, runs[i])' = Resources(runs'[i].report, runs'[i])
  BY DEF Resources
<1> QED  BY <1>1, <1>2, <1>3 DEF StageMoves, LocksAt

\* The locks of a run that a step leaves alone.
LEMMA KeptLocks ==
  ASSUME TypeInv, NEW i \in DOMAIN runs, RowKept(i), LocksAt(i)
  PROVE  LocksAt(i)'
<1>1. runs'[i] = runs[i] /\ Mine(i)' = Mine(i)
  BY DEF RowKept
<1>2. Resources(runs[i].report, runs[i])' = Resources(runs'[i].report, runs'[i])
  BY DEF Resources
<1> QED  BY <1>1, <1>2 DEF LocksAt, Whole

\* The locks after a stop or a restart.
LEMMA ProcessLocks ==
  ASSUME TypeInv, Stopped \/ Restarted, NEW i \in DOMAIN runs, LocksAt(i)
  PROVE  LocksAt(i)'
<1>1. /\ Mine(i)' = Mine(i) /\ runs'[i].stage = runs[i].stage /\ runs[i].hurt \subseteq runs'[i].hurt
      /\ runs'[i].goal = runs[i].goal /\ runs'[i].report = runs[i].report
  <2>1. locks' = locks
    BY DEF Stopped, Restarted
  <2>2. CASE Stopped
    BY <2>1, <2>2, MineKept DEF Stopped
  <2>3. CASE Restarted
    BY <2>1, <2>3, MineKept DEF Restarted, Same
  <2> QED  BY <2>2, <2>3
<1>2. Resources(runs'[i].report, runs'[i]) = Resources(runs[i].report, runs[i])
  BY <1>1, RowResources
<1>3. Resources(runs[i].report, runs[i])' = Resources(runs'[i].report, runs'[i])
  BY DEF Resources
<1> QED  BY <1>1, <1>2, <1>3 DEF LocksAt, Whole

\* The locks of a new run.
LEMMA CreateLocks ==
  ASSUME TypeInv, NEW r \in Reports, Planned(r), Creates(r), NEW n, n = Len(runs) + 1
  PROVE  LocksAt(n)'
<1>1. runs'[n] = NewRun(r) /\ Mine(n)' = Resources(r, built[r].plan)
  BY NewRow
<1>2. NewRun(r).stage = "queued" /\ NewRun(r).report = r /\ NewRun(r).goal = built[r].plan.goal
  BY NewRunType DEF Planned
<1>3. Resources(r, NewRun(r)) = Resources(r, built[r].plan)
  BY <1>2 DEF Resources
<1>4. Resources(runs[n].report, runs[n])' = Resources(runs'[n].report, runs'[n])
  BY DEF Resources
<1> QED  BY <1>1, <1>2, <1>3, <1>4 DEF LocksAt, Terminal

Locking == \A i \in DOMAIN runs : LocksAt(i)

\* Locking is inductive.
LEMMA LocksNext ==
  ASSUME TypeInv, Stepped, Control, Locking
  PROVE  Locking'
<1>1. CASE OutsideStep
  <2>1. DOMAIN runs' = DOMAIN runs
    BY <1>1 DEF OutsideStep, Rows
  <2> QED  BY <1>1, <2>1, OutsideFrame, KeptLocks DEF Locking
<1>2. ASSUME NEW r \in Reports, Planned(r), Creates(r) PROVE Locking'
  <2> DEFINE n == Len(runs) + 1
  <2>1. DOMAIN runs' = DOMAIN runs \cup {n}
    BY <1>2 DEF Creates
  <2>2. ASSUME NEW i \in DOMAIN runs PROVE LocksAt(i)'
    BY <1>2, <2>2, CreateFrame, KeptLocks DEF Locking
  <2>3. ASSUME NEW i, i = n PROVE LocksAt(i)'
    BY <1>2, <2>3, CreateLocks
  <2> QED  BY <2>1, <2>2, <2>3 DEF Locking
<1>3. ASSUME NEW i \in DOMAIN runs, RowStep(i) PROVE Locking'
  <2>1. DOMAIN runs' = DOMAIN runs
    BY <1>3, RowSame
  <2>2. LocksAt(i)'
    BY <1>3, RowLocks DEF Control, Locking
  <2>3. ASSUME NEW l \in DOMAIN runs, l # i PROVE LocksAt(l)'
    BY <1>3, <2>3, RowFrame, KeptLocks DEF Locking
  <2> QED  BY <2>1, <2>2, <2>3 DEF Locking
<1>4. CASE Stopped \/ Restarted
  <2>1. DOMAIN runs' = DOMAIN runs
    BY <1>4 DEF Stopped, Restarted
  <2> QED  BY <1>4, <2>1, ProcessLocks DEF Locking
<1> QED  BY <1>1, <1>2, <1>3, <1>4 DEF Stepped
(***************************************************************************)
(* Aim: while a run is under way its flows write the tables it planned.    *)
(***************************************************************************)
AimAt(i) ==
  Unhurt(i) /\ runs[i].stage \notin Terminal =>
    \A k \in DOMAIN runs[i].goal : target[PlanFlows[runs[i].report][k]] = runs[i].goal[k]
Aim == \A i \in DOMAIN runs : AimAt(i)

\* The aim of a run that a step leaves alone.
LEMMA KeptAim ==
  ASSUME TypeInv, NEW i \in DOMAIN runs, RowKept(i), target' = target, AimAt(i)
  PROVE  AimAt(i)'
BY DEF RowKept, AimAt, Unhurt

\* An edit changes no table that a run under way has planned.
LEMMA EditAim ==
  ASSUME TypeInv, NEW f \in Flows, UNCHANGED Rows, Edits(f), NEW i \in DOMAIN runs, LocksAt(i), AimAt(i)
  PROVE  AimAt(i)'
<1> SUFFICES ASSUME Unhurt(i), runs[i].stage \notin Terminal, NEW k \in DOMAIN runs[i].goal
             PROVE  target'[PlanFlows[runs[i].report][k]] = runs[i].goal[k]
  BY DEF AimAt, Unhurt, Rows
<1>1. runs[i].report \in Reports /\ DOMAIN runs[i].goal = DOMAIN PlanFlows[runs[i].report]
  BY RowType, RowFields
<1>2. PlanFlows[runs[i].report][k] \in Flows
  BY <1>1, PlanType
<1>3. Mine(i) = Resources(runs[i].report, runs[i])
  BY DEF LocksAt, Whole, Unhurt
<1>4. <<"flow", PlanFlows[runs[i].report][k]>> \in Resources(runs[i].report, runs[i])
  <2>1. PlanFlows[runs[i].report][k] \in Range(PlanFlows[runs[i].report])
    BY <1>1 DEF Range
  <2> QED  BY <2>1 DEF Resources
<1>5. PlanFlows[runs[i].report][k] # f
  BY <1>3, <1>4 DEF Edits, Locked, Mine
<1>6. target'[PlanFlows[runs[i].report][k]] = target[PlanFlows[runs[i].report][k]]
  BY <1>2, <1>5 DEF Edits
<1> QED  BY <1>6 DEF AimAt

\* The aim of a run after a step on its row.
LEMMA RowAim ==
  ASSUME TypeInv, NEW i \in DOMAIN runs, RowStep(i), ControlAt(i), AimAt(i)
  PROVE  AimAt(i)'
<1>1. StageMoves(i) /\ (Unhurt(i)' => Unhurt(i)) /\ (Unhurt(i)' => Whole(i)')
  BY RowMoves, HurtGrows DEF Unhurt, Whole
<1>2. target' = target
  BY TickFrame DEF RowStep, Claims, Expires, FutureStep, Elsewhere
<1>3. runs'[i].goal = runs[i].goal /\ runs'[i].report = runs[i].report
  BY RowSame
<1> QED  BY <1>1, <1>2, <1>3 DEF StageMoves, AimAt

\* Aim is inductive.
LEMMA AimNext ==
  ASSUME TypeInv, Stepped, Control, Locking, Aim
  PROVE  Aim'
<1>1. CASE OutsideStep
  <2>1. DOMAIN runs' = DOMAIN runs /\ UNCHANGED Rows
    BY <1>1 DEF OutsideStep, Rows
  <2>2. ASSUME NEW f \in Flows, Edits(f) PROVE Aim'
    BY <2>1, <2>2, EditAim DEF Aim, Locking
  <2>3. CASE target' = target
    BY <1>1, <2>1, <2>3, OutsideFrame, KeptAim DEF Aim
  <2> QED  BY <1>1, <2>2, <2>3 DEF OutsideStep, Confirms, Planned, QueuesDirect, JobMoves
<1>2. ASSUME NEW r \in Reports, Planned(r), Creates(r) PROVE Aim'
  <2> DEFINE n == Len(runs) + 1
  <2>1. DOMAIN runs' = DOMAIN runs \cup {n} /\ target' = target
    BY <1>2 DEF Creates, Planned
  <2>2. ASSUME NEW i \in DOMAIN runs PROVE AimAt(i)'
    BY <1>2, <2>1, <2>2, CreateFrame, KeptAim DEF Aim
  <2>3. ASSUME NEW i, i = n PROVE AimAt(i)'
    <3>1. runs'[i] = NewRun(r) /\ NewRun(r).goal = Plan(r).goal /\ NewRun(r).report = r
      BY <1>2, <2>3, NewRow, NewRunType DEF Creates, Planned
    <3>2. Plan(r).goal = [k \in DOMAIN PlanFlows[r] |-> target[PlanFlows[r][k]]]
      BY PlanType
    <3> QED  BY <2>1, <3>1, <3>2 DEF AimAt
  <2> QED  BY <2>1, <2>2, <2>3 DEF Aim
<1>3. ASSUME NEW i \in DOMAIN runs, RowStep(i) PROVE Aim'
  <2>1. DOMAIN runs' = DOMAIN runs
    BY <1>3, RowSame
  <2>2. target' = target
    BY <1>3, TickFrame DEF RowStep, Claims, Expires, FutureStep, Elsewhere
  <2>3. AimAt(i)'
    BY <1>3, RowAim DEF Control, Aim
  <2>4. ASSUME NEW l \in DOMAIN runs, l # i PROVE AimAt(l)'
    BY <1>3, <2>2, <2>4, RowFrame, KeptAim DEF Aim
  <2> QED  BY <2>1, <2>3, <2>4 DEF Aim
<1>4. CASE Stopped
  BY <1>4 DEF Stopped, Aim, AimAt, Unhurt
<1>5. CASE Restarted
  BY <1>5 DEF Restarted, Same, Aim, AimAt, Unhurt
<1> QED  BY <1>1, <1>2, <1>3, <1>4, <1>5 DEF Stepped

(***************************************************************************)
(* Commits: where a view of a run that was refreshed may stand.            *)
(***************************************************************************)
CommitAt(i, k) ==
  LET step == runs[i].view[k]
      mv == fut[i].mv
  IN /\ step.commits <= 1
     /\ step.st = "pending" => step.commits = 0
     /\ k \in mv.todo /\ step.commits # 0 => mv.pc \in {"refreshed", "failed"} /\ k = Min(mv.todo)
     /\ step.st = "running" /\ step.commits # 0 =>
          \/ mv.pc = "refreshed" /\ k = Min(mv.todo)
          \/ /\ mv.pc = "none"
             /\ \A t \in Ticks : OnRun(t, i) /\ tick[t].pc = "mvs read" => tick[t].k # 0
     /\ mv.pc \in {"refresh", "refreshed"} /\ k = Min(mv.todo) => step.st # "pending"
CommitsAt(i) == \A k \in DOMAIN runs[i].view : CommitAt(i, k)
Commits == \A i \in DOMAIN runs : CommitsAt(i)

\* The views of a run after a step that leaves them alone, or skips them.
ViewsKept(i) ==
  \/ runs'[i].view = runs[i].view
  \/ Skipped(runs[i].view, runs'[i].view)

\* Ending a run skips its pending views.
LEMMA EndsViews ==
  ASSUME NEW i, NEW run, Ends(i, run, runs'[i]), run.view = runs[i].view
  PROVE  ViewsKept(i)
BY DEF Ends, Failed, ViewsKept

\* The same, when nothing else of the row changed.
LEMMA OwnEndsViews ==
  ASSUME NEW i, Ends(i, runs[i], runs'[i])
  PROVE  ViewsKept(i)
BY DEF Ends, Failed, ViewsKept

\* What ViewsKept says of one view.
LEMMA KeptViews ==
  ASSUME TypeInv, NEW i \in DOMAIN runs, ViewsKept(i)
  PROVE  /\ DOMAIN runs'[i].view = DOMAIN runs[i].view
         /\ \A k \in DOMAIN runs[i].view :
              /\ runs'[i].view[k].commits = runs[i].view[k].commits
              /\ runs'[i].view[k].st = runs[i].view[k].st
                   \/ (runs[i].view[k].st = "pending" /\ runs'[i].view[k].st = "skipped")
<1>1. \A k \in DOMAIN runs[i].view : runs[i].view[k] \in ViewSteps
  BY ViewFacts
<1>2. ASSUME NEW k \in DOMAIN runs[i].view
      PROVE  LET new == [runs[i].view[k] EXCEPT !.st = "skipped"]
             IN  new.st = "skipped" /\ new.commits = runs[i].view[k].commits
  BY <1>1 DEF ViewSteps
<1>3. CASE runs'[i].view = runs[i].view
  BY <1>3
<1>4. CASE Skipped(runs[i].view, runs'[i].view)
  <2>1. DOMAIN runs'[i].view = DOMAIN runs[i].view
    BY <1>4 DEF Skipped
  <2>2. ASSUME NEW k \in DOMAIN runs[i].view
        PROVE  /\ runs'[i].view[k].commits = runs[i].view[k].commits
               /\ runs'[i].view[k].st = runs[i].view[k].st
                    \/ (runs[i].view[k].st = "pending" /\ runs'[i].view[k].st = "skipped")
    <3>1. runs'[i].view[k] = IF runs[i].view[k].st = "pending" THEN [runs[i].view[k] EXCEPT !.st = "skipped"] ELSE runs[i].view[k]
      BY <1>4, <2>2 DEF Skipped
    <3> QED  BY <1>2, <3>1
  <2> QED  BY <2>1, <2>2
<1> QED  BY <1>3, <1>4 DEF ViewsKept

\* Steps that neither touch the views nor their future.
LEMMA CommitsKept ==
  ASSUME TypeInv, NEW i \in DOMAIN runs, CommitsAt(i), ViewsKept(i),
         fut'[i].mv = fut[i].mv,
         \A t \in Ticks : OnRun(t, i)' /\ tick'[t].pc = "mvs read" => OnRun(t, i) /\ tick'[t] = tick[t]
  PROVE  CommitsAt(i)'
<1>1. DOMAIN runs'[i].view = DOMAIN runs[i].view
  BY KeptViews
<1>2. ASSUME NEW k \in DOMAIN runs[i].view PROVE CommitAt(i, k)'
  <2>1. CommitAt(i, k)
    BY DEF CommitsAt
  <2>2. runs'[i].view[k].commits = runs[i].view[k].commits
        /\ (runs'[i].view[k].st = runs[i].view[k].st
              \/ (runs[i].view[k].st = "pending" /\ runs'[i].view[k].st = "skipped"))
    BY KeptViews
  <2>3. \A t \in Ticks : OnRun(t, i)' /\ tick'[t].pc = "mvs read" => OnRun(t, i) /\ tick[t].pc = "mvs read" /\ tick'[t].k = tick[t].k
    OBVIOUS
  <2> QED  BY <2>1, <2>2, <2>3 DEF CommitAt
<1> QED  BY <1>1, <1>2 DEF CommitsAt

\* Or the future of the views ends where no step is half done.
LEMMA CommitsIdle ==
  ASSUME TypeInv, NEW i \in DOMAIN runs, CommitsAt(i), ViewsKept(i),
         fut[i].mv.pc \notin {"refreshed", "none"}, fut'[i].mv.todo = {}, fut'[i].mv.pc = "none"
  PROVE  CommitsAt(i)'
<1>1. DOMAIN runs'[i].view = DOMAIN runs[i].view
  BY KeptViews
<1>2. ASSUME NEW k \in DOMAIN runs[i].view PROVE CommitAt(i, k)'
  <2>1. CommitAt(i, k)
    BY DEF CommitsAt
  <2>2. runs'[i].view[k].commits = runs[i].view[k].commits
        /\ (runs'[i].view[k].st = runs[i].view[k].st
              \/ (runs[i].view[k].st = "pending" /\ runs'[i].view[k].st = "skipped"))
    BY KeptViews
  <2> QED  BY <2>1, <2>2 DEF CommitAt
<1> QED  BY <1>1, <1>2 DEF CommitsAt

\* The steps of a tick.
LEMMA TickCommits ==
  ASSUME TypeInv, NEW i \in DOMAIN runs, NEW t \in Ticks, TickStep(t, i), CommitsAt(i)
  PROVE  CommitsAt(i)'
<1>1. OnRun(t, i) /\ \A s \in Ticks : s # t => tick'[s] = tick[s]
  BY TickFrame
<1>2. fut[i] \in Futures /\ i \in 1..MaxRuns
  BY RowType
<1>3. ASSUME ViewsKept(i), fut'[i].mv = fut[i].mv, tick'[t].pc # "mvs read"
      PROVE  CommitsAt(i)'
  <2>1. \A s \in Ticks : OnRun(s, i)' /\ tick'[s].pc = "mvs read" => OnRun(s, i) /\ tick'[s] = tick[s]
    BY <1>1, <1>3 DEF OnRun
  <2> QED  BY <1>3, <2>1, CommitsKept
<1>4. CASE Begins(t, i) \/ Waits(t, i) \/ Advances(t, i) \/ Resumes(t, i)
  BY <1>3, <1>4 DEF Begins, Waits, Advances, Resumes, Same, TickGoes, ViewsKept
<1>5. CASE Leaves(t, i)
  BY <1>3, <1>5 DEF Leaves, Same, TickBecomes, Idle, ViewsKept
<1>6. CASE Launches(t, i)
  <2>1. fut'[i].mv = fut[i].mv /\ tick'[t].pc = "release"
    BY <1>2, <1>6 DEF Launches, Submitted, FutBecomes, TickGoes, Futures
  <2>2. ViewsKept(i)
    BY <1>6, OwnEndsViews DEF Launches, Submitted, Same, ViewsKept
  <2> QED  BY <1>3, <2>1, <2>2
<1>7. CASE Submits(t, i)
  <2>1. fut'[i].mv = fut[i].mv /\ tick'[t].pc = "release"
    BY <1>2, <1>7 DEF Submits, Submitted, FutBecomes, PbiStarts, TickGoes, Futures
  <2>2. ViewsKept(i)
    BY <1>7, OwnEndsViews DEF Submits, Submitted, Same, ViewsKept
  <2> QED  BY <1>3, <2>1, <2>2
<1>8. CASE GivesUp(t, i)
  BY <1>3, <1>8, OwnEndsViews DEF GivesUp, TickEnds, TickGoes
<1>9. CASE Prepares(t, i)
  BY <1>3, <1>9 DEF Prepares, Queues, Same, TickGoes, ViewsKept
<1>10. CASE Judges(t, i)
  <2>1. ViewsKept(i)
    BY <1>10, EndsViews DEF Judges, FlowsEnd, Same
  <2> QED  BY <1>3, <1>10, <2>1 DEF Judges, FlowsEnd, TickGoes
<1>11. CASE Continues(t, i)
  BY <1>3, <1>11 DEF Continues, FlowsSettle, Queues, Same, TickGoes, ViewsKept
<1>12. CASE Reads(t, i)
  <2>1. /\ runs' = runs /\ fut' = fut /\ tick'[t].pc = "mvs read"
        /\ tick'[t].k = 0 => \A k \in DOMAIN runs[i].view : runs[i].view[k].st # "running"
    BY <1>12 DEF Reads, TickGoes
  <2>2. ASSUME NEW k \in DOMAIN runs[i].view PROVE CommitAt(i, k)'
    <3>1. CommitAt(i, k)
      BY DEF CommitsAt
    <3>2. ASSUME NEW s \in Ticks, s # t PROVE OnRun(s, i)' = OnRun(s, i) /\ tick'[s] = tick[s]
      BY <1>1, <3>2 DEF OnRun
    <3>3. runs[i].view[k].st = "running" => tick'[t].k # 0
      BY <2>1
    <3> QED  BY <2>1, <3>1, <3>2, <3>3 DEF CommitAt
  <2> QED  BY <2>1, <2>2 DEF CommitsAt
<1>13. CASE Decides(t, i)
  <2>1. tick[t].pc = "mvs read"
    BY <1>13 DEF Decides
  <2>2. CASE /\ tick[t].k # 0 /\ ~Live(i, "mv") /\ TickGoes(t, "mv unknown")
             /\ ViewGets(i, tick[t].k, "unknown") /\ fut' = fut
    <3>1. DOMAIN runs'[i].view = DOMAIN runs[i].view
      BY SameShape DEF TickStep
    <3>2. ASSUME NEW k \in DOMAIN runs[i].view PROVE CommitAt(i, k)'
      <4>1. CommitAt(i, k)
        BY DEF CommitsAt
      <4>2. runs'[i].view[k] = runs[i].view[k] \/ (runs'[i].view[k].st = "unknown" /\ runs'[i].view[k].commits = runs[i].view[k].commits)
        BY <2>2 DEF ViewGets
      <4>3. \A s \in Ticks : OnRun(s, i)' /\ tick'[s].pc = "mvs read" => OnRun(s, i) /\ tick[s].pc = "mvs read" /\ tick'[s].k = tick[s].k
        BY <1>1, <2>2 DEF OnRun, TickGoes
      <4> QED  BY <2>2, <4>1, <4>2, <4>3 DEF CommitAt
    <3> QED  BY <3>1, <3>2 DEF CommitsAt
  <2>3. CASE TickEnds(t, i)
    BY <1>3, <2>3, OwnEndsViews DEF TickEnds, TickGoes
  <2>4. CASE /\ Live(i, "mv") \/ tick[t].k = 0
             /\ TickGoes(t, "release") /\ Submitted(i, "mv", "refreshing_mvs", MvStarts(i))
    <3>1. ViewsKept(i) /\ tick'[t].pc = "release"
      BY <2>4, OwnEndsViews DEF Submitted, Same, ViewsKept, TickGoes
    <3>2. CASE fut' = fut
      BY <1>3, <3>1, <3>2
    <3>3. CASE ~Live(i, "mv") /\ FutBecomes(i, MvStarts(i)) /\ Same(runs[i], runs'[i], {"hurt"})
      <4>1. fut[i].mv.pc = "none" /\ tick[t].k = 0
        BY <2>4, <3>3 DEF Live
      <4>2. fut'[i].mv.pc = "start" /\ fut'[i].mv.todo = fut[i].mv.todo /\ runs'[i].view = runs[i].view
        BY <3>3, MvStartsType DEF FutBecomes, Same
      <4>3. ASSUME NEW k \in DOMAIN runs[i].view PROVE CommitAt(i, k)'
        <5>1. CommitAt(i, k)
          BY DEF CommitsAt
        <5>2. ~(runs[i].view[k].st = "running" /\ runs[i].view[k].commits # 0)
          BY <1>1, <2>1, <4>1, <5>1 DEF CommitAt
        <5> QED  BY <4>1, <4>2, <5>1, <5>2 DEF CommitAt
      <4> QED  BY <4>2, <4>3 DEF CommitsAt
    <3> QED  BY <2>4, <3>2, <3>3 DEF Submitted
  <2> QED  BY <1>13, <2>2, <2>3, <2>4 DEF Decides, MvDecided
<1> QED  BY <1>4, <1>5, <1>6, <1>7, <1>8, <1>9, <1>10, <1>11, <1>12, <1>13 DEF TickStep

\* One view of the loop moves on.
LEMMA ViewCommits ==
  ASSUME TypeInv, NEW i \in DOMAIN runs, FutureStep(i), CommitsAt(i), fut[i].mv.todo # {},
         NEW pc, NEW todo, NEW st, NEW commits, NEW least, least = Min(fut[i].mv.todo),
         todo \in {fut[i].mv.todo, fut[i].mv.todo \ {least}},
         MvIs(i, pc, todo), ViewTo(i, least, st, commits),
         fut[i].mv.pc # "none",
         commits \in {0, 1},
         st = "pending" => commits = 0 /\ pc \notin {"refresh", "refreshed"},
         pc \in {"refresh", "refreshed"} => todo = fut[i].mv.todo,
         commits # 0 => \/ todo = fut[i].mv.todo /\ pc = "refreshed"
                        \/ st # "running" /\ (pc = "failed" \/ todo # fut[i].mv.todo)
  PROVE  CommitsAt(i)'
<1>1. Min(fut[i].mv.todo) \in fut[i].mv.todo /\ Min(fut[i].mv.todo) \in DOMAIN runs[i].view
  BY ViewFacts
<1>2. tick' = tick /\ DOMAIN runs'[i].view = DOMAIN runs[i].view
  BY SameShape DEF FutureStep, Elsewhere
<1>3. ASSUME NEW k \in DOMAIN runs[i].view, k # Min(fut[i].mv.todo) PROVE CommitAt(i, k)'
  <2>1. CommitAt(i, k) /\ runs'[i].view[k] = runs[i].view[k] /\ fut'[i].mv.pc = pc /\ fut'[i].mv.todo = todo
    BY <1>3 DEF CommitsAt, MvIs, ViewTo
  <2>2. k \in todo => k \in fut[i].mv.todo
    OBVIOUS
  <2>3. runs[i].view[k].commits # 0 => k \notin todo /\ runs[i].view[k].st # "running"
    BY <1>3, <2>1, <2>2 DEF CommitAt
  <2>4. pc \in {"refresh", "refreshed"} => k # Min(todo)
    BY <1>3
  <2> QED  BY <1>2, <2>1, <2>3, <2>4 DEF CommitAt
<1>4. ASSUME NEW k \in DOMAIN runs[i].view, k = Min(fut[i].mv.todo) PROVE CommitAt(i, k)'
  <2>1. /\ fut'[i].mv.pc = pc /\ fut'[i].mv.todo = todo
        /\ runs'[i].view[k].st = st /\ runs'[i].view[k].commits = commits
    BY <1>4 DEF MvIs, ViewTo
  <2>2. (todo = fut[i].mv.todo => k = Min(todo)) /\ (k \in todo => todo = fut[i].mv.todo)
    BY <1>4
  <2>3. commits <= 1
    OBVIOUS
  <2>4. k \in todo /\ commits # 0 => pc \in {"refreshed", "failed"} /\ k = Min(todo)
    BY <2>2
  <2>5. st = "running" /\ commits # 0 => pc = "refreshed" /\ k = Min(todo)
    BY <2>2
  <2> QED  BY <2>1, <2>3, <2>4, <2>5 DEF CommitAt
<1> QED  BY <1>2, <1>3, <1>4 DEF CommitsAt

\* CommitsAt after a step of the loop over the views.
LEMMA StepCommits ==
  ASSUME TypeInv, NEW i \in DOMAIN runs, FutureStep(i), CommitsAt(i),
         NEW pc, NEW st, NEW commits \in {0, 1}, MvSteps(i, pc, st, commits), fut[i].mv.pc # "none",
         st # "pending", commits # 0 => pc = "refreshed" \/ (pc = "failed" /\ st # "running")
  PROVE  CommitsAt(i)'
<1>1. PICK todo : todo = fut[i].mv.todo
  OBVIOUS
<1>2. PICK least : least = Min(fut[i].mv.todo)
  OBVIOUS
<1>3. todo # {} /\ MvIs(i, pc, todo) /\ ViewTo(i, least, st, commits)
  BY <1>1, <1>2 DEF MvSteps, MvIs, ViewTo
<1> QED  BY <1>1, <1>2, <1>3, ViewCommits

\* CommitsAt after a step of a future.
LEMMA FutureCommits ==
  ASSUME TypeInv, NEW i \in DOMAIN runs, FutureStep(i), CommitsAt(i)
  PROVE  CommitsAt(i)'
<1>1. tick' = tick
  BY DEF FutureStep, Elsewhere
<1>2. ASSUME ViewsKept(i), fut'[i].mv = fut[i].mv PROVE CommitsAt(i)'
  <2>1. \A s \in Ticks : OnRun(s, i)' /\ tick'[s].pc = "mvs read" => OnRun(s, i) /\ tick'[s] = tick[s]
    BY <1>1 DEF OnRun
  <2> QED  BY <1>2, <2>1, CommitsKept
<1>3. CASE LaunchEnds(i)
  BY <1>2, <1>3, EndsViews DEF LaunchEnds, Same, ViewsKept
<1>4. CASE MvBegins(i)
  <2>1. /\ fut[i].mv.pc = "start" /\ runs' = runs /\ fut'[i].mv.pc = "next"
        /\ fut'[i].mv.todo = {k \in DOMAIN runs[i].view : runs[i].view[k].st \in {"pending", "running"}}
    BY <1>4 DEF MvBegins, MvIs
  <2>2. ASSUME NEW k \in DOMAIN runs[i].view PROVE CommitAt(i, k)'
    <3>1. CommitAt(i, k)
      BY DEF CommitsAt
    <3>2. runs[i].view[k].st \in {"pending", "running"} => runs[i].view[k].commits = 0
      BY <2>1, <3>1 DEF CommitAt
    <3> QED  BY <2>1, <3>1, <3>2 DEF CommitAt
  <2> QED  BY <2>1, <2>2 DEF CommitsAt
<1>5. CASE fut[i].mv.pc = "next" /\ (MvDone(i) \/ MvQuits(i))
  BY <1>5, CommitsIdle DEF MvDone, MvQuits, MvIs, Same, ViewsKept
<1>6. ASSUME fut[i].mv.todo # {}
      PROVE  /\ Picked(i) \in ViewSteps /\ Picked(i).commits \in {0, 1}
             /\ Picked(i).st = "pending" => Picked(i).commits = 0
             /\ fut[i].mv.pc \notin {"refreshed", "failed"} => Picked(i).commits = 0
             /\ fut[i].mv.pc = "refresh" => Picked(i).st # "pending"
  <2>1. Min(fut[i].mv.todo) \in fut[i].mv.todo /\ Min(fut[i].mv.todo) \in DOMAIN runs[i].view
    BY <1>6, ViewFacts
  <2>2. PICK k \in DOMAIN runs[i].view : k = Min(fut[i].mv.todo)
    BY <2>1
  <2>3. runs[i].view[k] \in ViewSteps /\ CommitAt(i, k) /\ Picked(i) = runs[i].view[k] /\ k \in fut[i].mv.todo
    BY <2>1, <2>2, ViewFacts DEF CommitsAt, Picked
  <2>4. runs[i].view[k].commits \in Nat
    BY <2>3 DEF ViewSteps
  <2>5. runs[i].view[k].commits = 0 \/ runs[i].view[k].commits = 1
    <3>1. runs[i].view[k].commits <= 1
      BY <2>3 DEF CommitAt
    <3> QED  BY <2>4, <3>1
  <2>6. k = Min(fut[i].mv.todo) /\ CommitAt(i, k) /\ k \in fut[i].mv.todo
    BY <2>2, <2>3
  <2>7. /\ runs[i].view[k].st = "pending" => runs[i].view[k].commits = 0
        /\ fut[i].mv.pc \notin {"refreshed", "failed"} => runs[i].view[k].commits = 0
        /\ fut[i].mv.pc = "refresh" => runs[i].view[k].st # "pending"
    BY <2>6 DEF CommitAt
  <2> QED  BY <2>3, <2>5, <2>7
<1>7. CASE MvTakes(i)
  <2>1. fut[i].mv.todo # {} /\ fut[i].mv.pc = "next"
    BY <1>7 DEF MvTakes, MvSteps
  <2>2. Picked(i).commits = 0
    BY <1>6, <2>1
  <2>3. CASE MvSteps(i, "failed", "failed", Picked(i).commits)
    <3>1. MvSteps(i, "failed", "failed", 0)
      BY <2>2, <2>3
    <3> QED  BY <2>1, <3>1, StepCommits
  <2>4. CASE MvSteps(i, "refresh", IF Picked(i).st = "pending" THEN "running" ELSE Picked(i).st, Picked(i).commits)
    <3>1. PICK st : st # "pending" /\ MvSteps(i, "refresh", st, 0)
      BY <2>2, <2>4
    <3> QED  BY <2>1, <3>1, StepCommits
  <2> QED  BY <1>7, <2>3, <2>4 DEF MvTakes
<1>8. CASE MvCommits(i)
  <2>1. fut[i].mv.todo # {} /\ fut[i].mv.pc = "refresh"
    BY <1>8 DEF MvCommits, MvSteps
  <2>2. Picked(i).commits = 0 /\ Picked(i).st # "pending"
    BY <1>6, <2>1
  <2>3. CASE MvSteps(i, "refreshed", Picked(i).st, Picked(i).commits + 1)
    <3>1. PICK st : st # "pending" /\ MvSteps(i, "refreshed", st, 1)
      BY <2>2, <2>3
    <3> QED  BY <2>1, <3>1, StepCommits
  <2>4. ASSUME NEW n \in {0, 1}, MvSteps(i, "failed", "failed", Picked(i).commits + n) PROVE CommitsAt(i)'
    <3>1. MvSteps(i, "failed", "failed", n)
      BY <2>2, <2>4
    <3> QED  BY <2>1, <3>1, StepCommits
  <2> QED  BY <1>8, <2>3, <2>4 DEF MvCommits
<1>9. CASE MvRecords(i)
  <2>1. /\ fut[i].mv.todo # {} /\ fut[i].mv.pc = "refreshed"
        /\ MvIs(i, "next", fut[i].mv.todo \ {Min(fut[i].mv.todo)})
        /\ ViewTo(i, Min(fut[i].mv.todo), "succeeded", Picked(i).commits)
    BY <1>9 DEF MvRecords
  <2>2. PICK n \in {0, 1} : n = Picked(i).commits
    BY <1>6, <2>1
  <2>3. PICK least : least = Min(fut[i].mv.todo)
    OBVIOUS
  <2>4. ViewTo(i, least, "succeeded", n) /\ least \in fut[i].mv.todo
    BY <2>1, <2>2, <2>3, ViewFacts DEF ViewTo
  <2>5. PICK todo : todo = fut[i].mv.todo \ {least}
    OBVIOUS
  <2>6. MvIs(i, "next", todo) /\ todo # fut[i].mv.todo
    BY <2>1, <2>3, <2>4, <2>5 DEF MvIs
  <2> QED  BY <2>1, <2>3, <2>4, <2>5, <2>6, ViewCommits
<1>10. CASE MvEnds(i)
  BY <1>10, CommitsIdle, OwnEndsViews DEF MvEnds, MvIs
<1>11. CASE PbiTriggersOnce(i) \/ PbiPersists(i) \/ PbiPolls(i)
  BY <1>2, <1>11 DEF PbiTriggersOnce, PbiPersists, PbiPolls, PbiMoves, PbiKeeps, PbiIs, Same, ViewsKept
<1>12. CASE PbiEnds(i)
  BY <1>2, <1>12, OwnEndsViews DEF PbiEnds, PbiIs, Same, ViewsKept
<1> QED  BY <1>3, <1>4, <1>5, <1>7, <1>8, <1>9, <1>10, <1>11, <1>12 DEF FutureStep

\* CommitsAt of a run that a step leaves alone.
LEMMA KeptCommits ==
  ASSUME TypeInv, NEW i \in DOMAIN runs, RowKept(i), CommitsAt(i)
  PROVE  CommitsAt(i)'
<1>1. ViewsKept(i) /\ fut'[i].mv = fut[i].mv
  BY DEF RowKept, ViewsKept
<1>2. \A s \in Ticks : OnRun(s, i)' /\ tick'[s].pc = "mvs read" => OnRun(s, i) /\ tick'[s] = tick[s]
  BY DEF RowKept
<1> QED  BY <1>1, <1>2, CommitsKept

\* CommitsAt after a step on the row.
LEMMA RowCommits ==
  ASSUME TypeInv, NEW i \in DOMAIN runs, RowStep(i), CommitsAt(i)
  PROVE  CommitsAt(i)'
<1>1. ASSUME NEW t \in Ticks, Claims(t, i) PROVE CommitsAt(i)'
  <2>1. ViewsKept(i) /\ fut'[i].mv = fut[i].mv
    BY <1>1 DEF Claims, Same, ViewsKept
  <2>2. runs[i].stage \in Stages /\ "mvs read" \notin Stages
    BY RowType, RowFields DEF Stages, Terminal
  <2>3. \A s \in Ticks : OnRun(s, i)' /\ tick'[s].pc = "mvs read" => OnRun(s, i) /\ tick'[s] = tick[s]
    <3>1. tick'[t].pc = runs[i].stage /\ \A s \in Ticks : s # t => tick'[s] = tick[s]
      BY <1>1 DEF Claims, TickBecomes
    <3> QED  BY <2>2, <3>1 DEF OnRun
  <2> QED  BY <2>1, <2>3, CommitsKept
<1>2. CASE Expires(i)
  <2>1. ViewsKept(i) /\ fut'[i].mv = fut[i].mv /\ tick' = tick
    BY <1>2 DEF Expires, Same, ViewsKept
  <2> QED  BY <2>1, CommitsKept DEF OnRun
<1> QED  BY <1>1, <1>2, TickCommits, FutureCommits DEF RowStep

\* CommitsAt after a stop or a restart.
LEMMA ProcessCommits ==
  ASSUME TypeInv, Stopped \/ Restarted, NEW i \in DOMAIN runs, CommitsAt(i)
  PROVE  CommitsAt(i)'
<1>1. i \in 1..MaxRuns
  BY RowType
<1>2. CASE Stopped
  <2>1. runs' = runs /\ tick' = tick /\ ViewsKept(i)
        /\ fut'[i].mv = IF fut[i].mv.pc = "start" THEN NoFutures.mv ELSE fut[i].mv
    BY <1>1, <1>2 DEF Stopped, ViewsKept
  <2>2. CASE fut[i].mv.pc = "start"
    BY <2>1, <2>2, CommitsIdle DEF NoFutures
  <2>3. CASE fut[i].mv.pc # "start"
    BY <2>1, <2>3, CommitsKept DEF OnRun
  <2> QED  BY <2>2, <2>3
<1>3. CASE Restarted
  <2>1. /\ fut'[i].mv.pc = "none" /\ fut'[i].mv.todo = {} /\ \A t \in Ticks : tick'[t].pc = "idle"
        /\ runs'[i].view = runs[i].view
    BY <1>1, <1>3 DEF Restarted, Same, NoFutures, Idle
  <2>2. ASSUME NEW k \in DOMAIN runs[i].view PROVE CommitAt(i, k)'
    <3>1. CommitAt(i, k)
      BY DEF CommitsAt
    <3> QED  BY <2>1, <3>1 DEF CommitAt, OnRun
  <2> QED  BY <2>1, <2>2 DEF CommitsAt
<1> QED  BY <1>2, <1>3

\* CommitsAt of a new run.
LEMMA CreateCommits ==
  ASSUME TypeInv, NEW r \in Reports, Planned(r), Creates(r), NEW n, n = Len(runs) + 1
  PROVE  CommitsAt(n)'
<1>1. runs'[n] = NewRun(r) /\ fut'[n] = NoFutures
  BY NewRow
<1>2. DOMAIN NewRun(r).view = DOMAIN PlanViews[r]
      /\ \A k \in DOMAIN PlanViews[r] : NewRun(r).view[k].st = "pending" /\ NewRun(r).view[k].commits = 0
  BY NewRunType DEF Planned
<1>3. fut'[n].mv.pc = "none" /\ fut'[n].mv.todo = {}
  BY <1>1 DEF NoFutures
<1>4. ASSUME NEW k \in DOMAIN PlanViews[r] PROVE CommitAt(n, k)'
  <2>1. runs'[n].view[k].st = "pending" /\ runs'[n].view[k].commits = 0
    BY <1>1, <1>2
  <2> QED  BY <1>3, <2>1 DEF CommitAt
<1> QED  BY <1>1, <1>2, <1>4 DEF CommitsAt

\* Commits is inductive.
LEMMA CommitsNext ==
  ASSUME TypeInv, Stepped, Commits
  PROVE  Commits'
<1>1. CASE OutsideStep
  <2>1. DOMAIN runs' = DOMAIN runs
    BY <1>1 DEF OutsideStep, Rows
  <2> QED  BY <1>1, <2>1, OutsideFrame, KeptCommits DEF Commits
<1>2. ASSUME NEW r \in Reports, Planned(r), Creates(r) PROVE Commits'
  <2> DEFINE n == Len(runs) + 1
  <2>1. DOMAIN runs' = DOMAIN runs \cup {n}
    BY <1>2 DEF Creates
  <2>2. ASSUME NEW i \in DOMAIN runs PROVE CommitsAt(i)'
    BY <1>2, <2>2, CreateFrame, KeptCommits DEF Commits
  <2>3. ASSUME NEW i, i = n PROVE CommitsAt(i)'
    BY <1>2, <2>3, CreateCommits
  <2> QED  BY <2>1, <2>2, <2>3 DEF Commits
<1>3. ASSUME NEW i \in DOMAIN runs, RowStep(i) PROVE Commits'
  <2>1. DOMAIN runs' = DOMAIN runs
    BY <1>3, RowSame
  <2>2. CommitsAt(i)'
    BY <1>3, RowCommits DEF Commits
  <2>3. ASSUME NEW l \in DOMAIN runs, l # i PROVE CommitsAt(l)'
    BY <1>3, <2>3, RowFrame, KeptCommits DEF Commits
  <2> QED  BY <2>1, <2>2, <2>3 DEF Commits
<1>4. CASE Stopped \/ Restarted
  <2>1. DOMAIN runs' = DOMAIN runs
    BY <1>4 DEF Stopped, Restarted
  <2> QED  BY <1>4, <2>1, ProcessCommits DEF Commits
<1> QED  BY <1>1, <1>2, <1>3, <1>4 DEF Stepped
(***************************************************************************)
(* Flows: the flow runs of a pipeline, and the steps that wait for them.   *)
(***************************************************************************)
ChildOf(j, i, k) ==
  /\ j \in DOMAIN frun /\ frun[j].parent = i
  /\ frun[j].flow = PlanFlows[runs[i].report][k] /\ frun[j].target = runs[i].goal[k]
FlowAt(i, k) ==
  LET step == runs[i].flow[k] IN
  /\ step.st = "pending" => step.run = 0
  /\ step.st = "running" => step.run # 0
  /\ step.run # 0 => ChildOf(step.run, i, k)
  /\ step.st = "succeeded" => step.run # 0 /\ frun[step.run].st = "succeeded"
  /\ runs[i].stage # "failed" => step.st \in {"pending", "running", "succeeded"}
\* Every child belongs to a step, and one of them at most is active.
ChildrenAt(i) ==
  /\ \A j \in DOMAIN frun : frun[j].parent = i => \E k \in DOMAIN runs[i].flow : runs[i].flow[k].run = j
  /\ \A a, b \in Active : frun[a].parent = i /\ frun[b].parent = i => a = b
StagesAt(i) ==
  /\ runs[i].stage \in {"queued", "preparing_workers"} =>
       \/ \A k \in DOMAIN runs[i].flow : runs[i].flow[k].st = "pending"
       \/ \E t \in Ticks : OnRun(t, i) /\ tick[t].pc = "advance"
  /\ runs[i].stage \in {"refreshing_mvs", "refreshing_powerbi", "succeeded"} => AllSucceeded(runs[i].flow)
  /\ runs[i].stage \in {"queued", "preparing_workers", "running_flows"} =>
       \A k \in DOMAIN runs[i].view : runs[i].view[k].st = "pending"
FlowsAt(i) == Unhurt(i) => (\A k \in DOMAIN runs[i].flow : FlowAt(i, k)) /\ ChildrenAt(i) /\ StagesAt(i)
Flowing == \A i \in DOMAIN runs : FlowsAt(i)

\* A step that leaves the flow runs alone.
LEMMA SameJobs ==
  ASSUME frun' = frun, NEW i
  PROVE  JobsKept /\ NoNewChild(i)
BY DEF JobsKept, NoNewChild

\* A step that queues a flow run.
LEMMA GrownJobs ==
  ASSUME TypeInv, NEW new, Grows(new)
  PROVE  JobsKept /\ \A i : new.parent # i => NoNewChild(i)
BY DEF JobsKept, NoNewChild, Grows

\* A step that gives an active flow run a status.
LEMMA ChangedJobs ==
  ASSUME TypeInv, NEW j \in Active, NEW st, JobGets(j, st), NEW i
  PROVE  JobsKept /\ NoNewChild(i)
<1>1. frun[j].st \in FlowActive
  BY DEF Active
<1> QED  BY <1>1 DEF JobsKept, NoNewChild, JobGets

\* The flow steps of a run that stays, or fails.
FlowsKept(i) ==
  \/ runs'[i].flow = runs[i].flow /\ (runs'[i].stage # "failed" => runs[i].stage # "failed")
  \/ Skipped(runs[i].flow, runs'[i].flow) /\ runs'[i].stage = "failed"

\* What FlowsKept says of one flow step.
LEMMA KeptFlows ==
  ASSUME TypeInv, NEW i \in DOMAIN runs, FlowsKept(i)
  PROVE  /\ DOMAIN runs'[i].flow = DOMAIN runs[i].flow
         /\ \A k \in DOMAIN runs[i].flow :
              /\ runs'[i].flow[k].run = runs[i].flow[k].run
              /\ \/ runs'[i].flow[k].st = runs[i].flow[k].st
                 \/ /\ runs[i].flow[k].st = "pending" /\ runs'[i].flow[k].st = "skipped"
                    /\ runs'[i].stage = "failed"
<1>1. \A k \in DOMAIN runs[i].flow : runs[i].flow[k] \in FlowSteps
  BY ChildValues
<1>2. ASSUME NEW k \in DOMAIN runs[i].flow
      PROVE  LET new == [runs[i].flow[k] EXCEPT !.st = "skipped"]
             IN  new.st = "skipped" /\ new.run = runs[i].flow[k].run
  BY <1>1 DEF FlowSteps
<1>3. CASE runs'[i].flow = runs[i].flow
  BY <1>3
<1>4. CASE Skipped(runs[i].flow, runs'[i].flow) /\ runs'[i].stage = "failed"
  <2>1. DOMAIN runs'[i].flow = DOMAIN runs[i].flow
    BY <1>4 DEF Skipped
  <2>2. ASSUME NEW k \in DOMAIN runs[i].flow
        PROVE  /\ runs'[i].flow[k].run = runs[i].flow[k].run
               /\ \/ runs'[i].flow[k].st = runs[i].flow[k].st
                  \/ runs[i].flow[k].st = "pending" /\ runs'[i].flow[k].st = "skipped"
    <3>1. runs'[i].flow[k] = IF runs[i].flow[k].st = "pending" THEN [runs[i].flow[k] EXCEPT !.st = "skipped"] ELSE runs[i].flow[k]
      BY <1>4, <2>2 DEF Skipped
    <3> QED  BY <1>2, <3>1
  <2> QED  BY <1>4, <2>1, <2>2
<1> QED  BY <1>3, <1>4 DEF FlowsKept

\* The jobs of a run whose steps keep their flow runs.
LEMMA ChildrenKept ==
  ASSUME TypeInv, NEW i \in DOMAIN runs, ChildrenAt(i), JobsKept, NoNewChild(i),
         DOMAIN runs'[i].flow = DOMAIN runs[i].flow,
         \A k \in DOMAIN runs[i].flow : runs'[i].flow[k].run = runs[i].flow[k].run
  PROVE  ChildrenAt(i)'
<1>1. ASSUME NEW j \in DOMAIN frun', frun'[j].parent = i PROVE j \in DOMAIN frun /\ frun[j].parent = i
  BY <1>1 DEF JobsKept, NoNewChild
<1>2. ASSUME NEW j \in Active', frun'[j].parent = i PROVE j \in Active /\ frun[j].parent = i
  <2>1. j \in DOMAIN frun' /\ frun'[j].st \in FlowActive
    BY <1>2 DEF Active
  <2>2. j \in DOMAIN frun /\ frun[j].parent = i
    BY <1>1, <1>2, <2>1
  <2> QED  BY <2>1, <2>2 DEF JobsKept, Active
<1>3. \A j \in DOMAIN frun' : frun'[j].parent = i => \E k \in DOMAIN runs'[i].flow : runs'[i].flow[k].run = j
  BY <1>1 DEF ChildrenAt
<1>4. \A a, b \in Active' : frun'[a].parent = i /\ frun'[b].parent = i => a = b
  BY <1>2 DEF ChildrenAt
<1> QED  BY <1>3, <1>4 DEF ChildrenAt

\* The child behind a step stays its child.
LEMMA ChildKept ==
  ASSUME TypeInv, NEW i \in DOMAIN runs, JobsKept, NEW j, NEW k, ChildOf(j, i, k),
         runs'[i].report = runs[i].report, runs'[i].goal = runs[i].goal
  PROVE  ChildOf(j, i, k)' /\ (frun[j].st = "succeeded" => frun'[j].st = "succeeded")
BY DEF ChildOf, JobsKept, FlowActive

\* FlowsAt after a step that keeps or skips the flow steps.
LEMMA FlowsStay ==
  ASSUME TypeInv, NEW i \in DOMAIN runs, FlowsAt(i), Unhurt(i), FlowsKept(i), JobsKept, NoNewChild(i),
         runs'[i].report = runs[i].report, runs'[i].goal = runs[i].goal, StagesAt(i)'
  PROVE  FlowsAt(i)'
<1>1. /\ DOMAIN runs'[i].flow = DOMAIN runs[i].flow
      /\ \A k \in DOMAIN runs[i].flow : runs'[i].flow[k].run = runs[i].flow[k].run
  BY KeptFlows
<1>2. ASSUME NEW k \in DOMAIN runs[i].flow PROVE FlowAt(i, k)'
  <2>1. FlowAt(i, k) /\ runs'[i].flow[k].run = runs[i].flow[k].run
    BY <1>1 DEF FlowsAt
  <2>2. PICK j : j = runs[i].flow[k].run
    OBVIOUS
  <2>3. j # 0 => ChildOf(j, i, k)' /\ (frun[j].st = "succeeded" => frun'[j].st = "succeeded")
    <3>1. j # 0 => ChildOf(j, i, k)
      BY <2>1, <2>2 DEF FlowAt, ChildOf
    <3> QED  BY <3>1, ChildKept
  <2>4. \/ runs'[i].flow[k].st = runs[i].flow[k].st
        \/ /\ runs[i].flow[k].st = "pending" /\ runs'[i].flow[k].st = "skipped"
           /\ runs'[i].stage = "failed"
    BY KeptFlows
  <2>5. runs'[i].stage # "failed" => runs[i].stage # "failed"
    BY DEF FlowsKept
  <2> QED  BY <2>1, <2>2, <2>3, <2>4, <2>5 DEF FlowAt, ChildOf
<1>3. ChildrenAt(i)'
  BY <1>1, ChildrenKept DEF FlowsAt
<1> QED  BY <1>1, <1>2, <1>3 DEF FlowsAt

\* The stage and the views of a run that a step leaves in its stage.
StageStays(i) ==
  /\ runs'[i].stage = runs[i].stage /\ runs'[i].flow = runs[i].flow
  /\ runs[i].stage \in {"queued", "preparing_workers", "running_flows"} => runs'[i].view = runs[i].view

\* StagesAt after a step that keeps the stage.
LEMMA StagesStay ==
  ASSUME TypeInv, NEW i \in DOMAIN runs, StagesAt(i), StageStays(i),
         \A t \in Ticks : OnRun(t, i) /\ tick[t].pc = "advance" => tick'[t] = tick[t]
  PROVE  StagesAt(i)'
BY DEF StagesAt, StageStays, OnRun, AllSucceeded

\* StagesAt of a failed run.
LEMMA FailedStages ==
  ASSUME NEW i, runs'[i].stage = "failed"
  PROVE  StagesAt(i)'
BY DEF StagesAt
\* A step that leaves the stage and the flow runs alone, or ends the run.
Settled(i) == StageStays(i) \/ (Ends(i, runs[i], runs'[i]))

\* FlowsAt after a step that keeps the stage or ends the run.
LEMMA SettledFlows ==
  ASSUME TypeInv, NEW i \in DOMAIN runs, FlowsAt(i), Unhurt(i), Settled(i), JobsKept, NoNewChild(i),
         runs'[i].report = runs[i].report, runs'[i].goal = runs[i].goal,
         \A t \in Ticks : OnRun(t, i) /\ tick[t].pc = "advance" => tick'[t] = tick[t]
  PROVE  FlowsAt(i)'
<1>1. StagesAt(i)
  BY DEF FlowsAt
<1>2. CASE StageStays(i)
  <2>1. FlowsKept(i)
    BY <1>2 DEF StageStays, FlowsKept
  <2> QED  BY <1>1, <1>2, <2>1, StagesStay, FlowsStay
<1>3. CASE runs'[i] = runs[i]
  BY <1>2, <1>3 DEF StageStays
<1>4. CASE Failed(runs[i], runs'[i])
  <2>1. FlowsKept(i) /\ runs'[i].stage = "failed"
    BY <1>4 DEF Failed, FlowsKept
  <2> QED  BY <2>1, FailedStages, FlowsStay
<1> QED  BY <1>2, <1>3, <1>4 DEF Settled, Ends

\* The flow of step k is queued where no child of the run is active.
LEMMA QueueFlows ==
  ASSUME TypeInv, NEW i \in DOMAIN runs, NEW t \in Ticks, OnRun(t, i), NEW k, NEW pc, Queues(t, i, k, pc),
         FlowsAt(i), Unhurt(i), AimAt(i), runs[i].stage \notin Terminal,
         \A j \in Active : frun[j].parent # i,
         StagesAt(i)'
  PROVE  FlowsAt(i)'
<1>0. PICK n : n = Len(frun) + 1
  OBVIOUS
<1>f. PICK f : f = PlanFlows[runs[i].report][k]
  OBVIOUS
<1>1. /\ k \in DOMAIN runs[i].flow /\ runs[i].flow[k].st = "pending" /\ f \in Flows
      /\ Same(runs[i], runs'[i], {"flow"}) /\ DOMAIN runs'[i].flow = DOMAIN runs[i].flow
      /\ runs'[i].flow[k] = [st |-> "running", run |-> n]
      /\ \A l \in DOMAIN runs[i].flow : l # k => StepAdvances(runs[i].flow[l], runs'[i].flow[l])
      /\ Grows(NewChild(i, k))
  BY <1>0, <1>f DEF Queues
<1>2. /\ NewChild(i, k).parent = i /\ NewChild(i, k).flow = f /\ NewChild(i, k).target = target[f] /\ NewChild(i, k).st = "queued"
  BY <1>f DEF NewChild, NewFlowRun
<1>3. /\ DOMAIN frun' = DOMAIN frun \cup {n} /\ (\A j \in DOMAIN frun : frun'[j] = frun[j]) /\ frun'[n] = NewChild(i, k)
  BY <1>0, <1>1 DEF Grows
<1>4. n \in Nat /\ n # 0 /\ n \notin DOMAIN frun /\ 0 \notin DOMAIN frun
  BY <1>0, FrunFacts
<1>5. JobsKept
  BY <1>1, GrownJobs
<1>6. /\ runs'[i].report = runs[i].report /\ runs'[i].goal = runs[i].goal /\ runs'[i].stage = runs[i].stage
  BY <1>1 DEF Same
<1>7. target[f] = runs[i].goal[k]
  <2>1. DOMAIN runs[i].goal = DOMAIN runs[i].flow
    BY RowType, RowFields
  <2> QED  BY <1>1, <1>f, <2>1 DEF AimAt
<1>8. ASSUME NEW l \in DOMAIN runs[i].flow, l # k PROVE FlowAt(i, l)'
  <2>1. FlowAt(i, l) /\ StepAdvances(runs[i].flow[l], runs'[i].flow[l])
    BY <1>1, <1>8 DEF FlowsAt
  <2>2. PICK j : j = runs[i].flow[l].run
    OBVIOUS
  <2>3. j # 0 => ChildOf(j, i, l)' /\ (frun[j].st = "succeeded" => frun'[j].st = "succeeded")
    <3>1. j # 0 => ChildOf(j, i, l)
      BY <2>1, <2>2 DEF FlowAt, ChildOf
    <3> QED  BY <1>5, <1>6, <3>1, ChildKept
  <2>4. Child(runs[i].flow[l]) = "succeeded" => j # 0 /\ frun[j].st = "succeeded"
    BY <2>2 DEF Child
  <2> QED  BY <1>6, <2>1, <2>2, <2>3, <2>4 DEF FlowAt, ChildOf, StepAdvances
<1>9. ASSUME NEW l \in DOMAIN runs[i].flow, l = k PROVE FlowAt(i, l)'
  <2>1. runs'[i].flow[l].st = "running" /\ runs'[i].flow[l].run = n
    BY <1>1, <1>9
  <2>2. ChildOf(n, i, l)'
    BY <1>2, <1>3, <1>6, <1>7, <1>f, <1>9 DEF ChildOf
  <2> QED  BY <1>4, <2>1, <2>2 DEF FlowAt
<1>10. ChildrenAt(i)'
  <2>1. ASSUME NEW j \in DOMAIN frun', frun'[j].parent = i PROVE \E l \in DOMAIN runs'[i].flow : runs'[i].flow[l].run = j
    <3>1. CASE j = n
      BY <1>1, <3>1
    <3>2. CASE j \in DOMAIN frun
      <4>1. frun[j].parent = i
        BY <1>3, <2>1, <3>2
      <4>2. PICK l \in DOMAIN runs[i].flow : runs[i].flow[l].run = j
        BY <3>2, <4>1 DEF FlowsAt, ChildrenAt
      <4>3. l # k
        BY <1>1, <1>4, <3>2, <4>2 DEF FlowsAt, FlowAt
      <4> QED  BY <1>1, <4>2, <4>3 DEF StepAdvances
    <3> QED  BY <1>3, <2>1, <3>1, <3>2
  <2>2. ASSUME NEW j \in Active', frun'[j].parent = i PROVE j = n
    <3>1. j \in DOMAIN frun' /\ frun'[j].st \in FlowActive
      BY <2>2 DEF Active
    <3>2. CASE j \in DOMAIN frun
      <4>1. j \in Active /\ frun[j].parent = i
        BY <1>3, <2>2, <3>1, <3>2 DEF Active
      <4> QED  BY <4>1
    <3> QED  BY <1>3, <3>1, <3>2
  <2> QED  BY <2>1, <2>2 DEF ChildrenAt
<1> QED  BY <1>1, <1>8, <1>9, <1>10 DEF FlowsAt

\* FlowsAt after a step of a tick.
LEMMA TickStepFlows ==
  ASSUME TypeInv, NEW i \in DOMAIN runs, NEW t \in Ticks, TickStep(t, i), ControlAt(i), AimAt(i), FlowsAt(i)
  PROVE  FlowsAt(i)'
<1> SUFFICES ASSUME Unhurt(i)' PROVE FlowsAt(i)'
  BY DEF FlowsAt
<1>1. Unhurt(i) /\ Whole(i) /\ OnRun(t, i)
  BY TickHurt DEF Unhurt, Whole, TickStep
<1>2. TickAt(t, i) /\ \A s \in Ticks : OnRun(s, i) => s = t
  BY <1>1, Alone
<1>3. StagesAt(i) /\ ChildrenAt(i) /\ \A k \in DOMAIN runs[i].flow : FlowAt(i, k)
  BY <1>1 DEF FlowsAt
<1>4. runs'[i].report = runs[i].report /\ runs'[i].goal = runs[i].goal
  BY RowSame DEF RowStep
\* steps that leave the stage and the flow runs alone, or end the run
<1>5. ASSUME Settled(i), frun' = frun, tick[t].pc # "advance" PROVE FlowsAt(i)'
  <2>1. JobsKept /\ NoNewChild(i)
    BY <1>5, SameJobs
  <2>2. \A s \in Ticks : ~(OnRun(s, i) /\ tick[s].pc = "advance")
    BY <1>2, <1>5
  <2> QED  BY <1>1, <1>4, <1>5, <2>1, <2>2, SettledFlows
<1>6. CASE Launches(t, i) \/ Submits(t, i)
  BY <1>5, <1>6 DEF Launches, Submits, Submitted, Same, Settled, StageStays
<1>7. CASE Waits(t, i) \/ Reads(t, i) \/ Resumes(t, i) \/ Leaves(t, i)
  BY <1>5, <1>7 DEF Waits, Reads, Resumes, Leaves, Same, Settled, StageStays
<1>8. CASE GivesUp(t, i)
  BY <1>5, <1>8 DEF GivesUp, TickEnds, Settled
<1>9. CASE Decides(t, i)
  <2>1. tick[t].pc = "mvs read"
    BY <1>9 DEF Decides
  <2>2. runs[i].stage \notin {"queued", "preparing_workers", "running_flows"}
    BY <1>2, <2>1 DEF TickAt, PcStage, MvTicks
  <2> QED  BY <1>5, <1>9, <2>1, <2>2 DEF Decides, MvDecided, TickEnds, Submitted, Same, Settled, StageStays
<1>10. CASE Begins(t, i)
  <2>1. /\ frun' = frun /\ runs'[i].flow = runs[i].flow /\ runs'[i].view = runs[i].view
        /\ \/ runs[i].flow = <<>> /\ runs'[i].stage \in {"refreshing_mvs", "refreshing_powerbi"}
           \/ runs'[i].stage = "preparing_workers"
    BY <1>10 DEF Begins, Same, AfterFlows
  <2>2. runs[i].stage = "queued" /\ tick[t].pc = "queued"
    BY <1>2, <1>10 DEF Begins, TickAt, PcStage
  <2>3. (\A k \in DOMAIN runs[i].flow : runs[i].flow[k].st = "pending") /\ (\A k \in DOMAIN runs[i].view : runs[i].view[k].st = "pending")
    BY <1>2, <1>3, <2>2 DEF StagesAt
  <2>4. runs[i].flow = <<>> => AllSucceeded(runs[i].flow)
    BY DEF AllSucceeded
  <2>5. StagesAt(i)'
    BY <2>1, <2>3, <2>4 DEF StagesAt, AllSucceeded
  <2>6. FlowsKept(i) /\ JobsKept /\ NoNewChild(i)
    BY <2>1, <2>2, SameJobs DEF FlowsKept
  <2> QED  BY <1>1, <1>4, <2>5, <2>6, FlowsStay
<1>11. CASE Advances(t, i)
  <2>1. /\ frun' = frun /\ runs'[i].flow = runs[i].flow /\ runs'[i].view = runs[i].view /\ runs'[i].stage = "running_flows"
    BY <1>11 DEF Advances, Same
  <2>2. runs[i].stage = "preparing_workers"
    BY <1>2, <1>11 DEF Advances, TickAt, PcStage
  <2>3. StagesAt(i)'
    BY <1>3, <2>1, <2>2 DEF StagesAt
  <2>4. FlowsKept(i) /\ JobsKept /\ NoNewChild(i)
    BY <2>1, <2>2, SameJobs DEF FlowsKept
  <2> QED  BY <1>1, <1>4, <2>3, <2>4, FlowsStay
<1>12. CASE Prepares(t, i)
  <2>1. tick[t].pc = "preparing_workers" /\ runs[i].stage = "preparing_workers"
    BY <1>2, <1>12 DEF Prepares, TickAt, PcStage
  <2>2. (\A k \in DOMAIN runs[i].flow : runs[i].flow[k].st = "pending") /\ (\A k \in DOMAIN runs[i].view : runs[i].view[k].st = "pending")
    BY <1>2, <1>3, <2>1 DEF StagesAt
  <2>3. CASE frun' = frun /\ Same(runs[i], runs'[i], {})
    BY <1>5, <2>1, <2>3 DEF Same, Settled, StageStays
  <2>4. ASSUME NEW k \in DOMAIN runs[i].flow, Queues(t, i, k, "advance") PROVE FlowsAt(i)'
    <3>1. \A j \in Active : frun[j].parent # i
      <4>1. ASSUME NEW j \in Active, frun[j].parent = i PROVE FALSE
        <5>1. j \in DOMAIN frun
          BY <4>1 DEF Active
        <5>2. PICK l \in DOMAIN runs[i].flow : runs[i].flow[l].run = j
          BY <1>3, <4>1, <5>1 DEF ChildrenAt
        <5>3. runs[i].flow[l].run = 0
          BY <1>3, <2>2 DEF FlowAt
        <5> QED  BY <5>1, <5>2, <5>3, FrunFacts
      <4> QED  BY <4>1
    <3>2. runs[i].stage \notin Terminal
      BY <2>1 DEF Terminal
    <3>3. StagesAt(i)'
      <4>1. runs'[i].stage = "preparing_workers" /\ runs'[i].view = runs[i].view
        BY <2>1, <2>4 DEF Queues, Same
      <4>2. OnRun(t, i)' /\ tick'[t].pc = "advance"
        BY <1>1, <2>4 DEF Queues, TickGoes, OnRun
      <4> QED  BY <2>2, <4>1, <4>2 DEF StagesAt
    <3> QED  BY <1>1, <2>4, <3>1, <3>2, <3>3, QueueFlows
  <2> QED  BY <1>12, <2>3, <2>4 DEF Prepares
\* the flow runs end the run
<1>13. CASE Judges(t, i)
  <2>1. PICK run \in RunsOf(runs[i].report) : Same(runs[i], run, {"flow"}) /\ FlowMoves(i, run) /\ Ends(i, run, runs'[i])
    BY <1>13 DEF Judges, FlowsEnd
  <2>2. runs[i].stage \notin Terminal
    BY <1>1, <1>13, Early DEF Judges, EarlyTicks
  <2>3. Failed(run, runs'[i])
    BY <2>1, <2>2 DEF Ends, Same
  <2>4. runs'[i].stage = "failed" /\ Skipped(run.flow, runs'[i].flow)
    BY <2>3 DEF Failed
  <2>5. JobsKept /\ NoNewChild(i)
    BY <1>13, SameJobs, ChangedJobs DEF Judges, FlowsEnd
  <2>6. DOMAIN runs'[i].flow = DOMAIN runs[i].flow /\ DOMAIN run.flow = DOMAIN runs[i].flow
    BY <2>1, <2>4 DEF FlowMoves, Skipped
  <2>7. ASSUME NEW k \in DOMAIN runs[i].flow
        PROVE  runs'[i].flow[k].run = runs[i].flow[k].run /\ FlowAt(i, k)'
    <3>1. FlowAt(i, k) /\ StepMoves(runs[i].flow[k], run.flow[k])
      BY <1>3, <2>1, <2>6 DEF FlowMoves
    <3>2. runs'[i].flow[k] = IF run.flow[k].st = "pending" THEN [run.flow[k] EXCEPT !.st = "skipped"] ELSE run.flow[k]
      BY <2>4, <2>6 DEF Skipped
    <3>3. run.flow[k] \in FlowSteps
      <4>1. run.flow \in [DOMAIN PlanFlows[runs[i].report] -> FlowSteps] /\ DOMAIN run.flow = DOMAIN PlanFlows[runs[i].report]
        BY <2>1, RowType, RowFields
      <4> QED  BY <2>6, <4>1
    <3>4. /\ runs'[i].flow[k].run = run.flow[k].run
          /\ \/ run.flow[k].st = "pending" /\ runs'[i].flow[k].st = "skipped"
             \/ run.flow[k].st # "pending" /\ runs'[i].flow[k].st = run.flow[k].st
      BY <3>2, <3>3 DEF FlowSteps
    <3>5. PICK j : j = runs[i].flow[k].run
      OBVIOUS
    <3>6. runs'[i].flow[k].run = j
      BY <3>1, <3>4, <3>5 DEF StepMoves
    <3>7. j # 0 => ChildOf(j, i, k)' /\ (frun[j].st = "succeeded" => frun'[j].st = "succeeded")
      <4>1. j # 0 => ChildOf(j, i, k)
        BY <3>1, <3>5 DEF FlowAt, ChildOf
      <4> QED  BY <1>4, <2>5, <4>1, ChildKept
    <3>8. Child(runs[i].flow[k]) = "succeeded" => j # 0 /\ frun[j].st = "succeeded"
      BY <3>5 DEF Child
    <3>9. runs'[i].flow[k].st = "running" => runs[i].flow[k].st = "running"
      BY <3>1, <3>4 DEF StepMoves
    <3>10. runs'[i].flow[k].st = "succeeded" => j # 0 /\ frun'[j].st = "succeeded"
      BY <3>1, <3>4, <3>5, <3>7, <3>8 DEF StepMoves, FlowAt
    <3>11. runs'[i].flow[k].st # "pending"
      BY <3>4
    <3> QED  BY <2>4, <3>1, <3>5, <3>6, <3>7, <3>9, <3>10, <3>11 DEF FlowAt, ChildOf
  <2>8. ChildrenAt(i)'
    BY <1>3, <2>5, <2>6, <2>7, ChildrenKept
  <2>9. StagesAt(i)'
    BY <2>4, FailedStages
  <2> QED  BY <2>6, <2>7, <2>8, <2>9 DEF FlowsAt
<1>14. CASE Continues(t, i)
  <2>1. tick[t].pc = "running_flows" /\ runs[i].stage = "running_flows"
    BY <1>2, <1>14 DEF Continues, TickAt, PcStage
  <2>2. \A k \in DOMAIN runs[i].view : runs[i].view[k].st = "pending"
    BY <1>3, <2>1 DEF StagesAt
  <2>3. ASSUME NEW k \in DOMAIN runs[i].flow, Queues(t, i, k, "release"),
               \A l \in DOMAIN runs[i].flow : Child(runs[i].flow[l]) \notin FlowActive
        PROVE  FlowsAt(i)'
    <3>1. \A j \in Active : frun[j].parent # i
      <4>1. ASSUME NEW j \in Active, frun[j].parent = i PROVE FALSE
        <5>1. j \in DOMAIN frun /\ frun[j].st \in FlowActive
          BY <4>1 DEF Active
        <5>2. PICK l \in DOMAIN runs[i].flow : runs[i].flow[l].run = j
          BY <1>3, <4>1, <5>1 DEF ChildrenAt
        <5>3. Child(runs[i].flow[l]) = frun[j].st
          BY <5>1, <5>2, FrunFacts DEF Child
        <5> QED  BY <2>3, <5>1, <5>3
      <4> QED  BY <4>1
    <3>2. runs[i].stage \notin Terminal
      BY <2>1 DEF Terminal
    <3>3. StagesAt(i)'
      <4>1. runs'[i].stage = "running_flows" /\ runs'[i].view = runs[i].view
        BY <2>1, <2>3 DEF Queues, Same
      <4> QED  BY <2>2, <4>1 DEF StagesAt
    <3> QED  BY <1>1, <2>3, <3>1, <3>2, <3>3, QueueFlows
  <2>4. CASE FlowsSettle(t, i)
    <3>1. /\ frun' = frun /\ FlowAdvances(i, runs'[i]) /\ runs'[i].view = runs[i].view
          /\ runs'[i].stage = runs[i].stage \/ FlowsDone(i)
      BY <2>4 DEF FlowsSettle, Same
    <3>2. JobsKept /\ NoNewChild(i)
      BY <3>1, SameJobs
    <3>3. DOMAIN runs'[i].flow = DOMAIN runs[i].flow
      BY <3>1 DEF FlowAdvances
    <3>4. runs'[i].stage # "failed" /\ runs'[i].stage \in {"running_flows", "refreshing_mvs", "refreshing_powerbi"}
      BY <2>1, <3>1 DEF FlowsDone, AfterFlows
    <3>5. ASSUME NEW k \in DOMAIN runs[i].flow
          PROVE  /\ runs'[i].flow[k].run = runs[i].flow[k].run /\ FlowAt(i, k)'
                 /\ FlowsDone(i) => runs'[i].flow[k].st = "succeeded"
      <4>1. FlowAt(i, k) /\ StepAdvances(runs[i].flow[k], runs'[i].flow[k])
        BY <1>3, <3>1, <3>3 DEF FlowAdvances
      <4>2. PICK j : j = runs[i].flow[k].run
        OBVIOUS
      <4>3. j # 0 => ChildOf(j, i, k)' /\ (frun[j].st = "succeeded" => frun'[j].st = "succeeded")
        <5>1. j # 0 => ChildOf(j, i, k)
          BY <4>1, <4>2 DEF FlowAt, ChildOf
        <5> QED  BY <1>4, <3>2, <5>1, ChildKept
      <4>4. Child(runs[i].flow[k]) = "succeeded" => j # 0 /\ frun[j].st = "succeeded"
        BY <4>2 DEF Child
      <4>5. FlowAt(i, k)'
        BY <2>1, <3>4, <4>1, <4>2, <4>3, <4>4 DEF FlowAt, ChildOf, StepAdvances
      <4>6. FlowsDone(i) => runs'[i].flow[k].st = "succeeded"
        BY <2>1, <4>1 DEF FlowsDone, FlowAt
      <4> QED  BY <4>1, <4>5, <4>6 DEF StepAdvances
    <3>6. ChildrenAt(i)'
      BY <1>3, <3>2, <3>3, <3>5, ChildrenKept
    <3>7. StagesAt(i)'
      BY <2>1, <2>2, <3>1, <3>3, <3>4, <3>5 DEF StagesAt, AllSucceeded
    <3> QED  BY <3>3, <3>5, <3>6, <3>7 DEF FlowsAt
  <2> QED  BY <1>14, <2>3, <2>4 DEF Continues
<1> QED  BY <1>6, <1>7, <1>8, <1>9, <1>10, <1>11, <1>12, <1>13, <1>14 DEF TickStep

\* FlowsAt after a step of a future.
LEMMA FutureStepFlows ==
  ASSUME TypeInv, NEW i \in DOMAIN runs, FutureStep(i), ControlAt(i), FlowsAt(i)
  PROVE  FlowsAt(i)'
<1> SUFFICES ASSUME Unhurt(i)' PROVE FlowsAt(i)'
  BY DEF FlowsAt
<1>1. Unhurt(i) /\ Whole(i)
  BY FutureHurt DEF Unhurt, Whole
<1>2. FutStage(i) /\ StagesAt(i)
  BY <1>1 DEF ControlAt, FlowsAt
<1>3. frun' = frun /\ tick' = tick /\ JobsKept /\ NoNewChild(i)
  BY SameJobs DEF FutureStep, Elsewhere
<1>4. runs'[i].report = runs[i].report /\ runs'[i].goal = runs[i].goal
  BY RowSame DEF RowStep
<1>5. ASSUME Settled(i) PROVE FlowsAt(i)'
  BY <1>1, <1>3, <1>4, <1>5, SettledFlows
<1>6. CASE LaunchEnds(i)
  <2>1. CASE Same(runs[i], runs'[i], {})
    BY <1>5, <2>1 DEF Same, Settled, StageStays
  <2>2. ASSUME NEW run \in RunsOf(runs[i].report), Same(runs[i], run, {"hurt"}), Ends(i, run, runs'[i]) PROVE FlowsAt(i)'
    <3>1. run.flow = runs[i].flow /\ run.view = runs[i].view /\ run.stage = runs[i].stage
      BY <2>2 DEF Same
    <3>2. CASE runs'[i] = run
      BY <1>5, <3>1, <3>2 DEF Settled, StageStays
    <3>3. CASE Failed(run, runs'[i])
      <4>1. FlowsKept(i) /\ runs'[i].stage = "failed"
        BY <3>1, <3>3 DEF Failed, FlowsKept
      <4> QED  BY <1>1, <1>3, <1>4, <4>1, FailedStages, FlowsStay
    <3> QED  BY <2>2, <3>2, <3>3 DEF Ends
  <2> QED  BY <1>6, <2>1, <2>2 DEF LaunchEnds
<1>7. CASE MvBegins(i) \/ MvQuits(i)
  BY <1>5, <1>7 DEF MvBegins, MvQuits, Same, Settled, StageStays
<1>8. CASE MvTakes(i) \/ MvCommits(i) \/ MvRecords(i)
  <2>1. runs[i].stage = "refreshing_mvs"
    BY <1>2, <1>8 DEF MvTakes, MvCommits, MvRecords, FutStage
  <2> QED  BY <1>5, <1>8, <2>1 DEF MvTakes, MvCommits, MvRecords, MvSteps, Same, Settled, StageStays
<1>9. CASE fut[i].mv.pc = "next" /\ MvDone(i)
  <2>1. runs[i].stage = "refreshing_mvs" /\ runs'[i].stage = "refreshing_powerbi" /\ runs'[i].flow = runs[i].flow
    BY <1>2, <1>9 DEF MvDone, Same, FutStage
  <2>2. StagesAt(i)' /\ FlowsKept(i)
    BY <1>2, <2>1 DEF StagesAt, FlowsKept, AllSucceeded
  <2> QED  BY <1>1, <1>3, <1>4, <2>2, FlowsStay
<1>10. CASE MvEnds(i)
  BY <1>5, <1>10 DEF MvEnds, Settled
<1>11. CASE PbiTriggersOnce(i) \/ PbiPersists(i) \/ PbiPolls(i)
  BY <1>5, <1>11 DEF PbiTriggersOnce, PbiPersists, PbiPolls, PbiMoves, PbiKeeps, Same, Settled, StageStays
<1>12. CASE PbiEnds(i)
  <2>1. CASE fut[i].pbi.pc = "succeeded" /\ Same(runs[i], runs'[i], {"stage"}) /\ runs'[i].stage = "succeeded"
    <3>1. runs[i].stage = "refreshing_powerbi" /\ runs'[i].flow = runs[i].flow
      BY <1>2, <2>1 DEF Same, FutStage
    <3>2. StagesAt(i)' /\ FlowsKept(i)
      BY <1>2, <2>1, <3>1 DEF StagesAt, FlowsKept, AllSucceeded
    <3> QED  BY <1>1, <1>3, <1>4, <3>2, FlowsStay
  <2>2. CASE Ends(i, runs[i], runs'[i])
    BY <1>5, <2>2 DEF Settled
  <2> QED  BY <1>12, <2>1, <2>2 DEF PbiEnds
<1> QED  BY <1>6, <1>7, <1>8, <1>9, <1>10, <1>11, <1>12 DEF FutureStep

\* The steps that give a tick its run, or expire its lease.
LEMMA LeaseFlows ==
  ASSUME TypeInv, NEW i \in DOMAIN runs, (\E t \in Ticks : Claims(t, i)) \/ Expires(i), ControlAt(i), FlowsAt(i)
  PROVE  FlowsAt(i)'
<1> SUFFICES ASSUME Unhurt(i)' PROVE FlowsAt(i)'
  BY DEF FlowsAt
<1>1. Unhurt(i) /\ Whole(i)
  BY HurtGrows DEF RowStep, Unhurt, Whole
<1>2. frun' = frun /\ JobsKept /\ NoNewChild(i)
  BY SameJobs DEF Claims, Expires
<1>3. runs'[i].report = runs[i].report /\ runs'[i].goal = runs[i].goal
  BY RowSame DEF RowStep
<1>4. Settled(i)
  BY DEF Claims, Expires, Same, Settled, StageStays
<1>5. \A s \in Ticks : OnRun(s, i) /\ tick[s].pc = "advance" => tick'[s] = tick[s]
  BY DEF Claims, Expires, TickBecomes, OnRun
<1> QED  BY <1>1, <1>2, <1>3, <1>4, <1>5, SettledFlows

\* FlowsAt of a run that a step leaves alone.
LEMMA KeptFlowsAt ==
  ASSUME TypeInv, NEW i \in DOMAIN runs, RowKept(i), JobsKept, NoNewChild(i), FlowsAt(i)
  PROVE  FlowsAt(i)'
<1>1. runs'[i] = runs[i] /\ \A t \in Ticks : OnRun(t, i) => tick'[t] = tick[t]
  BY DEF RowKept
<1>2. Unhurt(i)' => Unhurt(i)
  BY <1>1 DEF Unhurt
<1>3. Settled(i)
  BY <1>1 DEF Settled, StageStays
<1>4. CASE Unhurt(i)
  BY <1>1, <1>3, <1>4, SettledFlows
<1> QED  BY <1>2, <1>4 DEF FlowsAt

\* FlowsAt after a stop or a restart.
LEMMA ProcessFlows ==
  ASSUME TypeInv, Stopped \/ Restarted, NEW i \in DOMAIN runs, FlowsAt(i)
  PROVE  FlowsAt(i)'
<1> SUFFICES ASSUME Unhurt(i)' PROVE FlowsAt(i)'
  BY DEF FlowsAt
<1>1. frun' = frun /\ JobsKept /\ NoNewChild(i)
  BY SameJobs DEF Stopped, Restarted
<1>2. Same(runs[i], runs'[i], {"hurt"}) /\ (Restarted => ~Split(i)) /\ Unhurt(i)
  BY DEF Stopped, Restarted, Same, Unhurt
<1>3. Settled(i) /\ runs'[i].report = runs[i].report /\ runs'[i].goal = runs[i].goal
  BY <1>2 DEF Settled, StageStays, Same
<1>4. \A t \in Ticks : OnRun(t, i) /\ tick[t].pc = "advance" => tick'[t] = tick[t]
  BY <1>2 DEF Stopped, Split, OnRun
<1> QED  BY <1>1, <1>2, <1>3, <1>4, SettledFlows

\* A step on the row of one run queues no flow run of another.
LEMMA RowJobs ==
  ASSUME TypeInv, NEW i \in DOMAIN runs, RowStep(i)
  PROVE  JobsKept /\ \A l : l # i => NoNewChild(l)
<1>1. CASE frun' = frun
  BY <1>1, SameJobs
<1>2. ASSUME NEW t \in Ticks, NEW k, NEW pc, Queues(t, i, k, pc) PROVE JobsKept /\ \A l : l # i => NoNewChild(l)
  <2>1. Grows(NewChild(i, k)) /\ NewChild(i, k).parent = i
    BY <1>2 DEF Queues, NewChild, NewFlowRun
  <2> QED  BY <2>1, GrownJobs
<1>3. ASSUME NEW j \in Active, JobGets(j, "cancelled") PROVE JobsKept /\ \A l : l # i => NoNewChild(l)
  BY <1>3, ChangedJobs
<1>4. ASSUME NEW t \in Ticks, TickStep(t, i) PROVE JobsKept /\ \A l : l # i => NoNewChild(l)
  <2>1. CASE Begins(t, i) \/ Launches(t, i) \/ Waits(t, i) \/ GivesUp(t, i) \/ Advances(t, i) \/ Reads(t, i) \/ Decides(t, i) \/ Resumes(t, i) \/ Submits(t, i) \/ Leaves(t, i)
    BY <1>1, <2>1 DEF Begins, Launches, Waits, GivesUp, Advances, Reads, Decides, Resumes, Submits, Leaves, MvDecided, TickEnds, Submitted
  <2>2. CASE Prepares(t, i)
    BY <1>1, <1>2, <2>2 DEF Prepares
  <2>3. CASE Judges(t, i)
    BY <1>1, <1>3, <2>3 DEF Judges, FlowsEnd
  <2>4. CASE Continues(t, i)
    BY <1>1, <1>2, <2>4 DEF Continues, FlowsSettle
  <2> QED  BY <1>4, <2>1, <2>2, <2>3, <2>4 DEF TickStep
<1>5. CASE (\E t \in Ticks : Claims(t, i)) \/ Expires(i) \/ FutureStep(i)
  BY <1>1, <1>5 DEF Claims, Expires, FutureStep, Elsewhere
<1> QED  BY <1>4, <1>5 DEF RowStep

\* A step outside the rows queues no child.
LEMMA OutsideJobs ==
  ASSUME TypeInv, OutsideStep
  PROVE  JobsKept /\ \A i \in DOMAIN runs : NoNewChild(i)
<1>1. CASE frun' = frun
  BY <1>1, SameJobs
<1>2. ASSUME NEW f \in Flows, QueuesDirect(f) PROVE JobsKept /\ \A i \in DOMAIN runs : NoNewChild(i)
  <2>1. NewFlowRun(f, FlowViews[f], 0).parent = 0 /\ Grows(NewFlowRun(f, FlowViews[f], 0))
    BY <1>2 DEF QueuesDirect, NewFlowRun
  <2>2. 0 \notin DOMAIN runs
    BY RowType
  <2> QED  BY <2>1, <2>2, GrownJobs
<1>3. ASSUME NEW j \in DOMAIN frun, JobMoves(j) PROVE JobsKept /\ \A i \in DOMAIN runs : NoNewChild(i)
  <2>1. j \in Active /\ \E st : JobGets(j, st)
    BY <1>3 DEF JobMoves, Active
  <2> QED  BY <2>1, ChangedJobs
<1> QED  BY <1>1, <1>2, <1>3 DEF OutsideStep, Confirms, Planned, Edits

\* FlowsAt of a new run.
LEMMA CreateFlows ==
  ASSUME TypeInv, NEW r \in Reports, Planned(r), Creates(r), NEW n, n = Len(runs) + 1
  PROVE  FlowsAt(n)'
<1>1. runs'[n] = NewRun(r) /\ n \in Nat /\ n > Len(runs) /\ Len(runs) \in Nat
  <2>1. runs \in Seq(AllRuns)
    BY DEF TypeInv, RunsType
  <2>2. Len(runs) \in Nat
    BY <2>1
  <2>3. n \in Nat /\ n > Len(runs)
    BY <2>2
  <2>4. runs'[n] = NewRun(r)
    BY NewRow
  <2> QED  BY <2>2, <2>3, <2>4
<1>2. frun' = frun /\ built[r] # NoPlan
  BY DEF Planned
<1>3. /\ NewRun(r).stage = "queued"
      /\ DOMAIN NewRun(r).flow = DOMAIN PlanFlows[r] /\ DOMAIN NewRun(r).view = DOMAIN PlanViews[r]
      /\ \A k \in DOMAIN PlanFlows[r] : NewRun(r).flow[k].st = "pending" /\ NewRun(r).flow[k].run = 0
      /\ \A k \in DOMAIN PlanViews[r] : NewRun(r).view[k].st = "pending"
  BY <1>2, NewRunType
<1>4. \A j \in DOMAIN frun : frun[j].parent # n
  <2>1. ASSUME NEW j \in DOMAIN frun PROVE frun[j].parent # n
    <3>1. frun[j].parent \in Nat /\ frun[j].parent <= Len(runs)
      BY FrunFacts DEF FlowRuns
    <3> QED  BY <1>1, <3>1
  <2> QED  BY <2>1
<1>5. ChildrenAt(n)'
  BY <1>2, <1>4 DEF ChildrenAt, Active
<1>6. StagesAt(n)'
  BY <1>1, <1>3 DEF StagesAt
<1>7. \A k \in DOMAIN runs'[n].flow : FlowAt(n, k)'
  BY <1>1, <1>3 DEF FlowAt
<1> QED  BY <1>5, <1>6, <1>7 DEF FlowsAt

\* Flowing is inductive.
LEMMA FlowsNext ==
  ASSUME TypeInv, Stepped, Control, Aim, Flowing
  PROVE  Flowing'
<1>1. CASE OutsideStep
  <2>1. DOMAIN runs' = DOMAIN runs
    BY <1>1 DEF OutsideStep, Rows
  <2> QED  BY <1>1, <2>1, OutsideFrame, OutsideJobs, KeptFlowsAt DEF Flowing
<1>2. ASSUME NEW r \in Reports, Planned(r), Creates(r) PROVE Flowing'
  <2>1. PICK n : n = Len(runs) + 1
    OBVIOUS
  <2>2. DOMAIN runs' = DOMAIN runs \cup {n}
    BY <1>2, <2>1, NewRow
  <2>3. FlowsAt(n)'
    BY <1>2, <2>1, CreateFlows
  <2>4. ASSUME NEW i \in DOMAIN runs PROVE FlowsAt(i)'
    <3>1. JobsKept /\ NoNewChild(i)
      BY <1>2, SameJobs DEF Planned
    <3>2. FlowsAt(i)
      BY DEF Flowing
    <3> QED  BY <1>2, <3>1, <3>2, CreateFrame, KeptFlowsAt
  <2> QED  BY <2>2, <2>3, <2>4 DEF Flowing
<1>3. ASSUME NEW i \in DOMAIN runs, RowStep(i) PROVE Flowing'
  <2>1. DOMAIN runs' = DOMAIN runs
    BY <1>3, RowSame
  <2>2. FlowsAt(i) /\ ControlAt(i) /\ AimAt(i)
    BY DEF Flowing, Control, Aim
  <2>3. FlowsAt(i)'
    BY <1>3, <2>2, TickStepFlows, FutureStepFlows, LeaseFlows DEF RowStep
  <2>4. ASSUME NEW l \in DOMAIN runs, l # i PROVE FlowsAt(l)'
    <3>1. FlowsAt(l)
      BY DEF Flowing
    <3> QED  BY <1>3, <2>4, <3>1, RowFrame, RowJobs, KeptFlowsAt
  <2> QED  BY <2>1, <2>3, <2>4 DEF Flowing
<1>4. CASE Stopped \/ Restarted
  <2>1. DOMAIN runs' = DOMAIN runs
    BY <1>4 DEF Stopped, Restarted
  <2> QED  BY <1>4, <2>1, ProcessFlows DEF Flowing
<1> QED  BY <1>1, <1>2, <1>3, <1>4 DEF Stepped

(***************************************************************************)
(* Views: the views of a run are refreshed in the order of its plan, and   *)
(* what a row says of a view is what was done.                             *)
(***************************************************************************)
ViewAt(i, k) ==
  LET view == runs[i].view IN
  /\ view[k].st \in {"pending", "skipped"} => view[k].commits = 0
  /\ view[k].commits # 0 => AllSucceeded(runs[i].flow)
  /\ view[k].st = "succeeded" => view[k].commits = 1
  /\ \A a \in DOMAIN view : a < k /\ view[k].st \notin {"pending", "skipped"} => view[a].st = "succeeded"
\* The views while _run_mv_stage goes through those that are left.
TodoAt(i, k) ==
  LET step == runs[i].view[k]
      mv == fut[i].mv
  IN /\ k \notin mv.todo => step.st = "succeeded"
     /\ k \in mv.todo => step.st = IF k = Min(mv.todo) /\ mv.pc # "next" THEN "running" ELSE "pending"
     /\ mv.pc = "refreshed" /\ k = Min(mv.todo) => step.commits = 1
Unknown(i) == \E t \in Ticks : OnRun(t, i) /\ tick[t].pc = "mv unknown"
\* A tick that found no view running is about to act on that.
Cleared(i) ==
  /\ fut[i].mv.pc = "none" /\ runs[i].stage = "refreshing_mvs" /\ server.up = "serving"
  /\ \E t \in Ticks : OnRun(t, i) /\ tick[t].pc = "mvs read" /\ tick[t].k = 0
LoopAt(i) ==
  LET view == runs[i].view IN
  /\ runs[i].stage = "refreshing_mvs" /\ fut[i].mv.pc # "failed" /\ ~Unknown(i) =>
       \A k \in DOMAIN view : view[k].st \in {"pending", "running", "succeeded"}
  /\ runs[i].stage \in {"refreshing_powerbi", "succeeded"} => AllSucceeded(view)
  /\ fut[i].mv.pc = "start" => \A k \in DOMAIN view : view[k].st \in {"pending", "succeeded"}
  /\ fut[i].mv.pc \in {"next", "refresh", "refreshed"} => \A k \in DOMAIN view : TodoAt(i, k)
  /\ Cleared(i) => \A k \in DOMAIN view : view[k].st # "running"
ViewsAt(i) == Unhurt(i) => (\A k \in DOMAIN runs[i].view : ViewAt(i, k)) /\ LoopAt(i)
Viewing == \A i \in DOMAIN runs : ViewsAt(i)

\* The flows behind a view that was refreshed stay done.
FlowsBehind(i) ==
  \/ AllSucceeded(runs[i].flow) => AllSucceeded(runs'[i].flow)
  \/ \A k \in DOMAIN runs[i].view : runs[i].view[k].commits = 0

\* ViewAt after a step that keeps the view steps.
LEMMA ViewKept ==
  ASSUME NEW i, NEW k, ViewAt(i, k), runs'[i].view = runs[i].view, FlowsBehind(i), k \in DOMAIN runs[i].view
  PROVE  ViewAt(i, k)'
BY DEF ViewAt, FlowsBehind

\* A step that leaves the views, their stage and their future alone.
LEMMA ViewsStay ==
  ASSUME TypeInv, NEW i \in DOMAIN runs, ViewsAt(i), Unhurt(i), runs'[i].view = runs[i].view, FlowsBehind(i),
         runs'[i].stage = runs[i].stage, fut'[i].mv = fut[i].mv, server'.up = server.up,
         Unknown(i) => Unknown(i)', Cleared(i)' => Cleared(i)
  PROVE  ViewsAt(i)'
<1>1. (\A k \in DOMAIN runs[i].view : ViewAt(i, k)) /\ LoopAt(i)
  BY DEF ViewsAt
<1>2. ASSUME NEW k \in DOMAIN runs[i].view PROVE ViewAt(i, k)'
  BY <1>1, ViewKept
<1>3. ASSUME NEW k \in DOMAIN runs[i].view, TodoAt(i, k) PROVE TodoAt(i, k)'
  BY <1>3 DEF TodoAt
<1>4. LoopAt(i)'
  BY <1>1, <1>3 DEF LoopAt, AllSucceeded
<1> QED  BY <1>2, <1>4 DEF ViewsAt

\* A run that fails.
LEMMA ViewsFail ==
  ASSUME TypeInv, NEW i \in DOMAIN runs, ViewsAt(i), Unhurt(i), FlowsBehind(i),
         runs'[i].stage = "failed", Skipped(runs[i].view, runs'[i].view), fut'[i].mv.pc = "none"
  PROVE  ViewsAt(i)'
<1>1. \A k \in DOMAIN runs[i].view : ViewAt(i, k)
  BY DEF ViewsAt
<1>2. DOMAIN runs'[i].view = DOMAIN runs[i].view
  BY DEF Skipped
<1>3. \A k \in DOMAIN runs[i].view :
              /\ runs'[i].view[k].commits = runs[i].view[k].commits
              /\ runs'[i].view[k].st = runs[i].view[k].st
                   \/ (runs[i].view[k].st = "pending" /\ runs'[i].view[k].st = "skipped")
  BY KeptViews DEF ViewsKept
<1>4. ASSUME NEW k \in DOMAIN runs[i].view PROVE ViewAt(i, k)'
  <2>1. ViewAt(i, k)
    BY <1>1
  <2>2. runs'[i].view[k].st \in {"pending", "skipped"} => runs'[i].view[k].commits = 0
    BY <1>3, <2>1 DEF ViewAt
  <2>3. runs'[i].view[k].commits # 0 => AllSucceeded(runs'[i].flow)
    BY <1>3, <2>1 DEF ViewAt, FlowsBehind
  <2>4. runs'[i].view[k].st = "succeeded" => runs'[i].view[k].commits = 1
    BY <1>3, <2>1 DEF ViewAt
  <2>5. ASSUME NEW a \in DOMAIN runs[i].view, a < k, runs'[i].view[k].st \notin {"pending", "skipped"}
        PROVE  runs'[i].view[a].st = "succeeded"
    <3>1. runs[i].view[k].st = runs'[i].view[k].st
      BY <1>3, <2>5
    <3>2. runs[i].view[a].st = "succeeded"
      BY <2>1, <2>5, <3>1 DEF ViewAt
    <3> QED  BY <1>3, <3>2
  <2> QED  BY <1>2, <2>2, <2>3, <2>4, <2>5 DEF ViewAt
<1>5. LoopAt(i)'
  BY DEF LoopAt, Cleared
<1> QED  BY <1>2, <1>4, <1>5 DEF ViewsAt

\* A run that fails keeps its flows as they were, or skips them.
LEMMA FailedFlows ==
  ASSUME TypeInv, NEW i \in DOMAIN runs, NEW run, Failed(run, runs'[i]), run.flow = runs[i].flow
  PROVE  FlowsBehind(i)
<1>1. \A k \in DOMAIN runs[i].flow : runs[i].flow[k].st = "succeeded" => runs'[i].flow[k].st = "succeeded"
  BY DEF Failed, Skipped
<1> QED  BY <1>1 DEF FlowsBehind, AllSucceeded, Failed, Skipped

\* A tick of another kind than those of the views.
LEMMA OtherTick ==
  ASSUME TypeInv, NEW i \in DOMAIN runs, NEW t \in Ticks, TickStep(t, i), ControlAt(i), Whole(i),
         tick[t].pc \notin {"refreshing_mvs", "mv unknown"}, tick'[t].pc # "mvs read",
         fut'[i].mv = fut[i].mv, runs'[i].stage = runs[i].stage
  PROVE  (Unknown(i) => Unknown(i)') /\ (Cleared(i)' => Cleared(i)) /\ server'.up = server.up
<1>1. OnRun(t, i) /\ (\A s \in Ticks : OnRun(s, i) => s = t) /\ server' = server
  BY Alone DEF TickStep
<1>2. \A s \in Ticks : s # t => tick'[s] = tick[s]
  BY TickFrame
<1>3. ~Unknown(i)
  BY <1>1 DEF Unknown
<1>4. ~\E s \in Ticks : OnRun(s, i)' /\ tick'[s].pc = "mvs read"
  BY <1>1, <1>2 DEF OnRun
<1> QED  BY <1>1, <1>3, <1>4 DEF Cleared

\* The views of a run on which no view was read or refreshed yet.
LEMMA FreshViews ==
  ASSUME TypeInv, NEW i \in DOMAIN runs, ViewsAt(i), Unhurt(i), runs'[i].view = runs[i].view,
         \A k \in DOMAIN runs[i].view : runs[i].view[k].st = "pending",
         fut'[i].mv.pc = "none",
         runs'[i].stage \in {"refreshing_powerbi", "succeeded"} => DOMAIN runs[i].view = {}
  PROVE  ViewsAt(i)'
<1>1. \A k \in DOMAIN runs[i].view : ViewAt(i, k)
  BY DEF ViewsAt
<1>2. FlowsBehind(i)
  BY <1>1 DEF ViewAt, FlowsBehind
<1>3. ASSUME NEW k \in DOMAIN runs[i].view PROVE ViewAt(i, k)'
  BY <1>1, <1>2, ViewKept
<1>4. LoopAt(i)'
  BY DEF LoopAt, AllSucceeded
<1> QED  BY <1>3, <1>4 DEF ViewsAt

\* A tick decides about the views it has read.
LEMMA DecidesViews ==
  ASSUME TypeInv, NEW i \in DOMAIN runs, NEW t \in Ticks, TickStep(t, i), Decides(t, i), ControlAt(i), ControlAt(i)',
         ViewsAt(i), Unhurt(i)'
  PROVE  ViewsAt(i)'
<1>1. Unhurt(i) /\ Whole(i) /\ Whole(i)' /\ OnRun(t, i) /\ server' = server
  BY TickHurt DEF Unhurt, Whole, TickStep
<1>2. (\A k \in DOMAIN runs[i].view : ViewAt(i, k)) /\ LoopAt(i)
  BY <1>1 DEF ViewsAt
<1>3. tick[t].pc = "mvs read" /\ \A s \in Ticks : OnRun(s, i) => s = t
  BY <1>1, Alone DEF Decides
<1>4. ~Unknown(i)
  BY <1>3 DEF Unknown
<1>5. ASSUME tick[t].k # 0, ~Live(i, "mv"), TickGoes(t, "mv unknown"),
             Same(runs[i], runs'[i], {"view", "hurt"}), ViewGets(i, tick[t].k, "unknown"),
             runs'[i].hurt = runs[i].hurt \cup IF runs[i].view[tick[t].k].st # "running" THEN {"stale"} ELSE {},
             fut' = fut
      PROVE  ViewsAt(i)'
  <2>1. PICK l : l = tick[t].k
    OBVIOUS
  <2>2. /\ l \in DOMAIN runs[i].view /\ runs'[i].view[l].st = "unknown" /\ runs'[i].view[l].commits = runs[i].view[l].commits
        /\ \A k \in DOMAIN runs[i].view : k # l => runs'[i].view[k] = runs[i].view[k]
    BY <1>5, <2>1 DEF ViewGets
  <2>3. runs[i].view[l].st = "running"
    BY <1>1, <1>5, <2>1 DEF Unhurt
  <2>4. runs'[i].flow = runs[i].flow /\ runs'[i].stage = runs[i].stage /\ DOMAIN runs'[i].view = DOMAIN runs[i].view
    <3>1. Acts(i, runs'[i])
      BY DEF TickStep
    <3> QED  BY <1>5, <3>1, SameShape DEF Same
  <2>5. ViewAt(i, l)
    BY <1>2, <2>2
  <2>n. DOMAIN runs[i].view \subseteq Nat
    BY RowType, RowFields
  <2>6. ASSUME NEW k \in DOMAIN runs[i].view, k # l PROVE ViewAt(i, k)'
    <3>1. ViewAt(i, k) /\ runs'[i].view[k] = runs[i].view[k]
      BY <1>2, <2>2, <2>6
    <3>2. ASSUME NEW a \in DOMAIN runs[i].view, a < k, runs[i].view[k].st \notin {"pending", "skipped"}
          PROVE  runs'[i].view[a].st = "succeeded"
      <4>1. runs[i].view[a].st = "succeeded"
        BY <3>1, <3>2 DEF ViewAt
      <4>2. a # l
        BY <2>3, <4>1
      <4> QED  BY <2>2, <4>1, <4>2
    <3> QED  BY <2>4, <3>1, <3>2 DEF ViewAt
  <2>7. ViewAt(i, l)'
    <3>1. ASSUME NEW a \in DOMAIN runs[i].view, a < l PROVE runs'[i].view[a].st = "succeeded"
      <4>1. runs[i].view[a].st = "succeeded"
        BY <2>3, <2>5, <3>1 DEF ViewAt
      <4>2. a # l
        BY <2>n, <2>2, <3>1
      <4> QED  BY <2>2, <4>1, <4>2
    <3> QED  BY <2>2, <2>4, <2>5, <3>1 DEF ViewAt
  <2>8. Unknown(i)'
    BY <1>1, <1>5 DEF Unknown, TickGoes, OnRun
  <2>9. runs[i].stage \notin {"refreshing_powerbi", "succeeded"}
    BY <1>2, <2>2, <2>3 DEF LoopAt, AllSucceeded
  <2>10. fut'[i].mv.pc = "none"
    BY <1>5 DEF Live
  <2>11. ~Cleared(i)'
    BY <1>1, <1>3, <1>5 DEF Cleared, OnRun, TickGoes
  <2>12. LoopAt(i)'
    BY <2>4, <2>8, <2>9, <2>10, <2>11 DEF LoopAt
  <2> QED  BY <2>2, <2>4, <2>6, <2>7, <2>12 DEF ViewsAt
<1>6. ASSUME Ends(i, runs[i], runs'[i]), fut' = fut, TickGoes(t, "release") PROVE ViewsAt(i)'
  <2>1. CASE Failed(runs[i], runs'[i])
    <3>1. fut'[i].mv.pc = "none"
      BY <1>1, <2>1 DEF Failed, ControlAt, FutStage
    <3>2. FlowsBehind(i)
      BY <2>1, FailedFlows
    <3> QED  BY <1>1, <2>1, <3>1, <3>2, ViewsFail DEF Failed
  <2>2. CASE runs'[i] = runs[i]
    <3>1. (Cleared(i)' => Cleared(i)) /\ server'.up = server.up
      BY <1>1, <1>3, <1>6, <2>2, OtherTick DEF TickGoes
    <3> QED  BY <1>1, <1>4, <1>6, <2>2, <3>1, ViewsStay DEF FlowsBehind
  <2> QED  BY <1>6, <2>1, <2>2 DEF Ends
<1>7. ASSUME Live(i, "mv") \/ (tick[t].k = 0 /\ ~tick[t].flag), TickGoes(t, "release"),
             ~Live(i, "mv"), server.up = "serving", FutBecomes(i, MvStarts(i)), Same(runs[i], runs'[i], {"hurt"}),
             runs'[i].hurt = runs[i].hurt \cup IF runs[i].stage # "refreshing_mvs" THEN {"stale"} ELSE {}
      PROVE  ViewsAt(i)'
  <2>1. runs[i].stage = "refreshing_mvs" /\ runs'[i].stage = "refreshing_mvs" /\ runs'[i].view = runs[i].view /\ runs'[i].flow = runs[i].flow
    BY <1>1, <1>7 DEF Unhurt, Same
  <2>2. fut[i].mv.pc = "none" /\ fut'[i].mv.pc = "start"
    BY <1>7, MvStartsType DEF Live, FutBecomes
  <2>3. Cleared(i)
    BY <1>1, <1>3, <1>7, <2>1, <2>2 DEF Cleared
  <2>4. \A k \in DOMAIN runs[i].view : runs[i].view[k].st \in {"pending", "succeeded"}
    BY <1>2, <1>4, <2>1, <2>2, <2>3 DEF LoopAt
  <2>5. LoopAt(i)'
    BY <2>1, <2>2, <2>4 DEF LoopAt, Cleared
  <2>6. ASSUME NEW k \in DOMAIN runs[i].view PROVE ViewAt(i, k)'
    BY <1>2, <2>1, ViewKept DEF FlowsBehind
  <2> QED  BY <2>1, <2>5, <2>6 DEF ViewsAt
<1>8. ASSUME TickGoes(t, "release"), UNCHANGED <<fut, runs, locks>> PROVE ViewsAt(i)'
  <2>1. (Cleared(i)' => Cleared(i)) /\ server'.up = server.up
    BY <1>1, <1>3, <1>8, OtherTick DEF TickGoes
  <2> QED  BY <1>1, <1>4, <1>8, <2>1, ViewsStay DEF FlowsBehind
<1>9. MvDecided(t, i)
  BY DEF Decides
<1>10. CASE tick[t].flag /\ ~Live(i, "mv") /\ tick[t].k = 0 /\ TickEnds(t, i)
  BY <1>6, <1>10 DEF TickEnds
<1>11. CASE /\ Live(i, "mv") \/ (tick[t].k = 0 /\ ~tick[t].flag)
            /\ TickGoes(t, "release") /\ Submitted(i, "mv", "refreshing_mvs", MvStarts(i))
  BY <1>6, <1>7, <1>8, <1>11 DEF Submitted
<1> QED  BY <1>5, <1>9, <1>10, <1>11 DEF MvDecided

\* ViewsAt after a step of a tick.
LEMMA TickStepViews ==
  ASSUME TypeInv, NEW i \in DOMAIN runs, NEW t \in Ticks, TickStep(t, i), ControlAt(i), ControlAt(i)',
         FlowsAt(i), ViewsAt(i)
  PROVE  ViewsAt(i)'
<1> SUFFICES ASSUME Unhurt(i)' PROVE ViewsAt(i)'
  BY DEF ViewsAt
<1>1. Unhurt(i) /\ Whole(i) /\ Whole(i)' /\ OnRun(t, i) /\ server' = server
  BY TickHurt DEF Unhurt, Whole, TickStep
<1>2. (\A k \in DOMAIN runs[i].view : ViewAt(i, k)) /\ LoopAt(i)
  BY <1>1 DEF ViewsAt
<1>3. TickAt(t, i) /\ FutStage(i) /\ \A s \in Ticks : OnRun(s, i) => s = t
  BY <1>1, Alone
<1>4. StagesAt(i)
  BY <1>1 DEF FlowsAt
\* the run fails, stays, or no view was touched yet
<1>5. ASSUME NEW run, Failed(run, runs'[i]), run.view = runs[i].view, run.flow = runs[i].flow PROVE ViewsAt(i)'
  <2>1. fut'[i].mv.pc = "none"
    BY <1>1, <1>5 DEF Failed, ControlAt, FutStage
  <2>2. FlowsBehind(i)
    BY <1>5, FailedFlows
  <2> QED  BY <1>1, <1>5, <2>1, <2>2, ViewsFail DEF Failed
<1>6. ASSUME tick[t].pc \notin {"refreshing_mvs", "mv unknown"}, tick'[t].pc # "mvs read", fut'[i].mv = fut[i].mv,
             runs'[i].stage = runs[i].stage, runs'[i].view = runs[i].view, runs'[i].flow = runs[i].flow
      PROVE  ViewsAt(i)'
  <2>1. (Unknown(i) => Unknown(i)') /\ (Cleared(i)' => Cleared(i)) /\ server'.up = server.up
    BY <1>1, <1>6, OtherTick
  <2> QED  BY <1>1, <1>6, <2>1, ViewsStay DEF FlowsBehind
<1>7. ASSUME Ends(i, runs[i], runs'[i]), fut' = fut, tick[t].pc \notin {"refreshing_mvs", "mv unknown"}, tick'[t].pc = "release"
      PROVE  ViewsAt(i)'
  BY <1>5, <1>6, <1>7 DEF Ends
<1>8. tick[t].pc \in EarlyTicks =>
        /\ \A k \in DOMAIN runs[i].view : runs[i].view[k].st = "pending"
        /\ fut[i].mv.pc = "none" /\ runs[i].stage \notin Terminal
  BY <1>1, <1>3, <1>4, Early DEF TickAt, PcStage, StagesAt, EarlyTicks
<1>9. ASSUME tick[t].pc \in EarlyTicks, fut'[i].mv = fut[i].mv, runs'[i].view = runs[i].view,
             runs'[i].stage \in {"refreshing_powerbi", "succeeded"} => runs[i].view = <<>>
      PROVE  ViewsAt(i)'
  <2>1. runs[i].view = <<>> => DOMAIN runs[i].view = {}
    OBVIOUS
  <2> QED  BY <1>1, <1>8, <1>9, <2>1, FreshViews
<1>10. tick[t].pc \in EarlyTicks => runs[i].stage \in {"queued", "preparing_workers", "running_flows"}
  BY <1>3 DEF TickAt, PcStage, EarlyTicks
<1>11. CASE Begins(t, i)
  BY <1>9, <1>11 DEF Begins, Same, AfterFlows, EarlyTicks
<1>12. CASE Launches(t, i)
  <2>1. tick[t].pc \in EarlyTicks /\ tick[t].pc = "launch" /\ tick'[t].pc = "release"
    BY <1>12 DEF Launches, EarlyTicks, TickGoes
  <2>2. fut[i] \in Futures
    BY RowType
  <2>3. [fut[i] EXCEPT !.workers = TRUE].mv = fut[i].mv
    BY <2>2 DEF Futures
  <2> QED  BY <1>6, <1>7, <1>9, <1>10, <1>12, <2>1, <2>3 DEF Launches, Submitted, Same, FutBecomes
<1>13. CASE Waits(t, i) \/ Advances(t, i)
  BY <1>9, <1>10, <1>13 DEF Waits, Advances, Same, EarlyTicks
<1>14. CASE GivesUp(t, i)
  <2>1. Ends(i, runs[i], runs'[i]) /\ fut' = fut /\ tick'[t].pc = "release" /\ tick[t].pc \in {"preparing_workers", "mv unknown"}
    BY <1>14 DEF GivesUp, TickEnds, TickGoes
  <2>2. CASE tick[t].pc = "mv unknown" /\ runs'[i] = runs[i] /\ runs[i].stage \in Terminal
    <3>1. runs[i].stage = "failed" /\ fut'[i].mv.pc = "none"
      BY <1>3, <2>1, <2>2 DEF TickAt, PcStage, MvTicks, Terminal
    <3>2. LoopAt(i)'
      BY <2>2, <3>1 DEF LoopAt, Cleared
    <3>3. ASSUME NEW k \in DOMAIN runs[i].view PROVE ViewAt(i, k)'
      BY <1>2, <2>2, ViewKept DEF FlowsBehind
    <3> QED  BY <2>2, <3>2, <3>3 DEF ViewsAt
  <2> QED  BY <1>5, <1>7, <2>1, <2>2 DEF Ends
<1>15. CASE Prepares(t, i)
  BY <1>9, <1>10, <1>15 DEF Prepares, Queues, Same, EarlyTicks
<1>16. CASE Judges(t, i)
  <2>1. PICK run \in RunsOf(runs[i].report) : Same(runs[i], run, {"flow"}) /\ Ends(i, run, runs'[i])
    BY <1>16 DEF Judges, FlowsEnd
  <2>2. tick[t].pc \in EarlyTicks /\ fut' = fut
    BY <1>16 DEF Judges, FlowsEnd, EarlyTicks
  <2>3. Failed(run, runs'[i]) /\ run.view = runs[i].view
    BY <1>8, <2>1, <2>2 DEF Ends, Same
  <2>4. FlowsBehind(i)
    BY <1>2, <1>8, <2>2 DEF FlowsBehind, ViewAt
  <2> QED  BY <1>1, <1>8, <2>2, <2>3, <2>4, ViewsFail DEF Failed
<1>17. CASE Continues(t, i)
  <2>1. tick[t].pc \in EarlyTicks /\ fut' = fut /\ runs'[i].view = runs[i].view
    BY <1>17 DEF Continues, FlowsSettle, Queues, Same, EarlyTicks
  <2>2. runs'[i].stage \in {"refreshing_powerbi", "succeeded"} => runs[i].view = <<>>
    BY <1>10, <1>17, <2>1 DEF Continues, FlowsSettle, FlowsDone, AfterFlows, Queues, Same
  <2> QED  BY <1>9, <2>1, <2>2
<1>18. CASE Reads(t, i)
  <2>1. tick[t].pc = "refreshing_mvs" /\ tick'[t].pc = "mvs read" /\ UNCHANGED <<runs, fut>>
    BY <1>18 DEF Reads, TickGoes
  <2>2. ~Unknown(i)
    BY <1>3, <2>1 DEF Unknown
  <2>3. \A s \in Ticks : s # t => tick'[s] = tick[s]
    BY TickFrame
  <2>4. Cleared(i)' => tick'[t].k = 0
    BY <1>3, <2>3 DEF Cleared, OnRun
  <2>5. Cleared(i)' => \A k \in DOMAIN runs[i].view : runs[i].view[k].st # "running"
    BY <1>18, <2>4 DEF Reads
  <2>6. LoopAt(i)'
    BY <1>2, <2>1, <2>2, <2>5 DEF LoopAt, AllSucceeded, TodoAt
  <2>7. ASSUME NEW k \in DOMAIN runs[i].view PROVE ViewAt(i, k)'
    BY <1>2, <2>1, ViewKept DEF FlowsBehind
  <2> QED  BY <2>1, <2>6, <2>7 DEF ViewsAt
<1>19. CASE Decides(t, i)
  BY <1>19, DecidesViews
<1>20. CASE Resumes(t, i) \/ Leaves(t, i)
  <2>1. tick[t].pc \in {"refreshing_powerbi", "release"} /\ fut' = fut
    BY <1>20 DEF Resumes, Leaves
  <2>2. tick'[t].pc # "mvs read"
    <3>1. Leaves(t, i) => tick'[t] = Idle
      BY DEF Leaves, TickBecomes
    <3>2. Idle.pc = "idle"
      BY DEF Idle
    <3>3. Resumes(t, i) => tick'[t].pc = "pbi read"
      BY DEF Resumes, TickGoes
    <3> QED  BY <1>20, <3>1, <3>2, <3>3
  <2>3. runs'[i].stage = runs[i].stage /\ runs'[i].view = runs[i].view /\ runs'[i].flow = runs[i].flow
    BY <1>20 DEF Resumes, Leaves, Same
  <2> QED  BY <1>6, <2>1, <2>2, <2>3
<1>21. CASE Submits(t, i)
  <2>1. tick[t].pc = "pbi read" /\ tick'[t].pc = "release"
    BY <1>21 DEF Submits, TickGoes
  <2>2. fut[i] \in Futures
    BY RowType
  <2>3. PbiStarts(t, i).mv = fut[i].mv
    BY <2>2 DEF Futures, PbiStarts
  <2> QED  BY <1>6, <1>7, <1>21, <2>1, <2>3 DEF Submits, Submitted, Same, FutBecomes
<1> QED  BY <1>11, <1>12, <1>13, <1>14, <1>15, <1>16, <1>17, <1>18, <1>19, <1>20, <1>21 DEF TickStep

\* The least view that is left gets a status and a number of commits.
LEMMA StepViews ==
  ASSUME TypeInv, NEW i \in DOMAIN runs, FutureStep(i), ControlAt(i), FlowsAt(i), ViewsAt(i), Unhurt(i),
         fut[i].mv.pc \in {"next", "refresh", "refreshed"}, fut[i].mv.todo # {},
         NEW least, least = Min(fut[i].mv.todo),
         NEW pc \in {"next", "refresh", "refreshed", "failed"}, NEW todo, NEW st, NEW commits,
         MvIs(i, pc, todo), Same(runs[i], runs'[i], {"view"}), ViewTo(i, least, st, commits),
         \/ pc = "failed" /\ st = "failed"
         \/ pc = "refresh" /\ todo = fut[i].mv.todo /\ st = "running" /\ commits = runs[i].view[least].commits
         \/ pc = "refreshed" /\ todo = fut[i].mv.todo /\ st = "running" /\ commits = 1
         \/ pc = "next" /\ todo = fut[i].mv.todo \ {least} /\ st = "succeeded" /\ commits = 1
  PROVE  ViewsAt(i)'
<1>1. (\A k \in DOMAIN runs[i].view : ViewAt(i, k) /\ TodoAt(i, k)) /\ LoopAt(i) /\ FutStage(i) /\ StagesAt(i)
  BY DEF ViewsAt, LoopAt, ControlAt, Whole, Unhurt, FlowsAt
<1>2. runs[i].stage = "refreshing_mvs" /\ runs'[i].stage = "refreshing_mvs" /\ runs'[i].flow = runs[i].flow
  BY <1>1 DEF FutStage, Same
<1>3. AllSucceeded(runs'[i].flow)
  BY <1>1, <1>2 DEF StagesAt
<1>4. /\ DOMAIN runs'[i].view = DOMAIN runs[i].view /\ least \in DOMAIN runs[i].view
      /\ runs'[i].view[least].st = st /\ runs'[i].view[least].commits = commits
      /\ \A k \in DOMAIN runs[i].view : k # least => runs'[i].view[k] = runs[i].view[k]
  <2>1. Acts(i, runs'[i])
    BY DEF FutureStep
  <2> QED  BY <2>1, SameShape DEF ViewTo
<1>5. DOMAIN runs[i].view \subseteq Nat /\ fut[i].mv.todo \subseteq DOMAIN runs[i].view
  BY RowType, RowFields
<1>6. least \in fut[i].mv.todo /\ \A k \in fut[i].mv.todo : least <= k
  <2>1. fut[i].mv.todo \subseteq Nat
    BY <1>5
  <2> QED  BY <2>1, MinIn
\* the views before the least one are done, those after it pending or done
<1>7. \A a \in DOMAIN runs[i].view : a < least => runs[i].view[a].st = "succeeded"
  <2>1. ASSUME NEW a \in DOMAIN runs[i].view, a < least PROVE a \notin fut[i].mv.todo
    BY <1>5, <1>6, <2>1
  <2> QED  BY <1>1, <2>1 DEF TodoAt
<1>8. runs[i].view[least].st # "succeeded"
  BY <1>1, <1>4, <1>6 DEF TodoAt
<1>9. st # "pending" /\ st # "skipped" /\ (st = "succeeded" => commits = 1)
  OBVIOUS
<1>10. ViewAt(i, least)'
  <2>1. ASSUME NEW a \in DOMAIN runs[i].view, a < least PROVE runs'[i].view[a].st = "succeeded"
    <3>1. a # least
      BY <1>5, <2>1
    <3> QED  BY <1>4, <1>7, <2>1, <3>1
  <2> QED  BY <1>3, <1>4, <1>9, <2>1 DEF ViewAt
<1>11. ASSUME NEW k \in DOMAIN runs[i].view, k # least PROVE ViewAt(i, k)'
  <2>1. ViewAt(i, k) /\ runs'[i].view[k] = runs[i].view[k]
    BY <1>1, <1>4, <1>11
  <2>2. ASSUME NEW a \in DOMAIN runs[i].view, a < k, runs[i].view[k].st \notin {"pending", "skipped"}
        PROVE  runs'[i].view[a].st = "succeeded"
    <3>1. runs[i].view[a].st = "succeeded"
      BY <2>1, <2>2 DEF ViewAt
    <3>2. a # least
      BY <1>8, <3>1
    <3> QED  BY <1>4, <3>1, <3>2
  <2> QED  BY <1>3, <1>4, <2>1, <2>2 DEF ViewAt
<1>12. fut'[i].mv.pc = pc /\ fut'[i].mv.todo = todo
  BY DEF MvIs
<1>13. ASSUME NEW k \in DOMAIN runs[i].view, k # least PROVE runs'[i].view[k].st = IF k \in fut[i].mv.todo THEN "pending" ELSE "succeeded"
  BY <1>1, <1>4, <1>13 DEF TodoAt
<1>14. ASSUME pc # "failed", NEW k \in DOMAIN runs[i].view PROVE TodoAt(i, k)'
  <2>1. CASE pc = "next"
    <3>1. k \notin todo => runs'[i].view[k].st = "succeeded"
      BY <1>4, <1>13, <2>1
    <3>2. k \in todo => runs'[i].view[k].st = "pending"
      BY <1>13, <2>1
    <3> QED  BY <1>12, <2>1, <3>1, <3>2 DEF TodoAt
  <2>2. CASE pc \in {"refresh", "refreshed"}
    <3>1. todo = fut[i].mv.todo
      BY <2>2
    <3>2. k = least => runs'[i].view[k].st = "running" /\ (pc = "refreshed" => runs'[i].view[k].commits = 1)
      BY <1>4, <2>2
    <3>3. fut'[i].mv = fut[i].mv \/ Min(fut'[i].mv.todo) = least
      BY <1>12, <3>1
    <3>4. Min(fut'[i].mv.todo) = least
      BY <1>12, <3>1
    <3> QED  BY <1>6, <1>12, <1>13, <2>2, <3>1, <3>2, <3>4 DEF TodoAt
  <2> QED  BY <1>14, <2>1, <2>2
<1>15. pc # "failed" => \A k \in DOMAIN runs[i].view : runs'[i].view[k].st \in {"pending", "running", "succeeded"}
  BY <1>4, <1>13
<1>16. LoopAt(i)'
  BY <1>2, <1>4, <1>12, <1>14, <1>15 DEF LoopAt, Cleared
<1> QED  BY <1>4, <1>10, <1>11, <1>16 DEF ViewsAt

\* ViewsAt after a step of a future.
LEMMA FutureStepViews ==
  ASSUME TypeInv, NEW i \in DOMAIN runs, FutureStep(i), ControlAt(i), ControlAt(i)', FlowsAt(i), CommitsAt(i), ViewsAt(i)
  PROVE  ViewsAt(i)'
<1> SUFFICES ASSUME Unhurt(i)' PROVE ViewsAt(i)'
  BY DEF ViewsAt
<1>1. Unhurt(i) /\ Whole(i) /\ Whole(i)'
  BY FutureHurt DEF Unhurt, Whole
<1>2. FutStage(i) /\ (\A k \in DOMAIN runs[i].view : ViewAt(i, k)) /\ LoopAt(i)
  BY <1>1 DEF ControlAt, ViewsAt
<1>3. tick' = tick /\ server' = server
  BY DEF FutureStep, Elsewhere
<1>4. ASSUME NEW run, Failed(run, runs'[i]), run.view = runs[i].view, run.flow = runs[i].flow PROVE ViewsAt(i)'
  <2>1. fut'[i].mv.pc = "none"
    BY <1>1, <1>4 DEF Failed, ControlAt, FutStage
  <2>2. FlowsBehind(i)
    BY <1>4, FailedFlows
  <2> QED  BY <1>1, <1>4, <2>1, <2>2, ViewsFail DEF Failed
<1>5. ASSUME fut'[i].mv = fut[i].mv, runs'[i].stage = runs[i].stage, runs'[i].view = runs[i].view, runs'[i].flow = runs[i].flow
      PROVE  ViewsAt(i)'
  <2>1. (Unknown(i) => Unknown(i)') /\ (Cleared(i)' => Cleared(i)) /\ server'.up = server.up
    BY <1>3, <1>5 DEF Unknown, Cleared, OnRun
  <2> QED  BY <1>1, <1>5, <2>1, ViewsStay DEF FlowsBehind
<1>6. PICK least : least = Min(fut[i].mv.todo)
  OBVIOUS
<1>7. \A k \in DOMAIN runs[i].view : runs'[i].view = runs[i].view /\ runs'[i].flow = runs[i].flow => ViewAt(i, k)'
  BY <1>2, ViewKept DEF FlowsBehind
<1>8. fut[i].mv.todo \subseteq DOMAIN runs[i].view /\ (fut[i].mv.todo # {} => least \in DOMAIN runs[i].view)
  <2>1. fut[i].mv.todo \subseteq DOMAIN runs[i].view /\ DOMAIN runs[i].view \subseteq Nat
    BY RowType, RowFields
  <2>2. fut[i].mv.todo \subseteq Nat
    BY <2>1
  <2> QED  BY <1>6, <2>1, <2>2, MinIn
<1>9. CASE LaunchEnds(i)
  <2>1. fut'[i].mv = fut[i].mv
    BY <1>9 DEF LaunchEnds
  <2>2. ASSUME NEW run \in RunsOf(runs[i].report), Same(runs[i], run, {"hurt"}), Ends(i, run, runs'[i]) PROVE ViewsAt(i)'
    <3>1. run.flow = runs[i].flow /\ run.view = runs[i].view /\ run.stage = runs[i].stage
      BY <2>2 DEF Same
    <3> QED  BY <1>4, <1>5, <2>1, <2>2, <3>1 DEF Ends
  <2> QED  BY <1>5, <1>9, <2>1, <2>2 DEF LaunchEnds, Same
<1>10. CASE MvBegins(i)
  <2>1. /\ fut[i].mv.pc = "start" /\ UNCHANGED <<runs, locks>> /\ fut'[i].mv.pc = "next"
        /\ fut'[i].mv.todo = {k \in DOMAIN runs[i].view : runs[i].view[k].st \in {"pending", "running"}}
    BY <1>10 DEF MvBegins, MvIs
  <2>2. \A k \in DOMAIN runs[i].view : runs[i].view[k].st \in {"pending", "succeeded"}
    BY <1>2, <2>1 DEF LoopAt
  <2>3. \A k \in DOMAIN runs[i].view : TodoAt(i, k)'
    BY <2>1, <2>2 DEF TodoAt
  <2>4. LoopAt(i)'
    BY <1>2, <2>1, <2>2, <2>3 DEF LoopAt, Cleared, AllSucceeded
  <2> QED  BY <1>7, <2>1, <2>4 DEF ViewsAt
<1>11. CASE fut[i].mv.pc = "next" /\ MvDone(i)
  <2>1. /\ runs'[i].view = runs[i].view /\ runs'[i].flow = runs[i].flow /\ runs'[i].stage = "refreshing_powerbi"
        /\ fut'[i].mv.pc = "none"
    BY <1>11 DEF MvDone, Same, MvIs
  <2>2. AllSucceeded(runs[i].view)
    BY <1>2, <1>11 DEF MvDone, LoopAt, TodoAt, AllSucceeded
  <2>3. LoopAt(i)'
    BY <2>1, <2>2 DEF LoopAt, Cleared
  <2> QED  BY <1>7, <2>1, <2>3 DEF ViewsAt
<1>12. CASE fut[i].mv.pc = "next" /\ MvQuits(i)
  <2>1. UNCHANGED <<runs, locks>> /\ fut'[i].mv.pc = "none" /\ server.up = "stopping"
    BY <1>12 DEF MvQuits, MvIs
  <2>2. \A k \in DOMAIN runs[i].view : runs[i].view[k].st \in {"pending", "succeeded"}
    BY <1>2, <1>12 DEF LoopAt, TodoAt
  <2>3. LoopAt(i)'
    BY <1>2, <1>3, <2>1, <2>2 DEF LoopAt, Cleared, AllSucceeded
  <2> QED  BY <1>7, <2>1, <2>3 DEF ViewsAt
<1>13. CASE MvTakes(i)
  <2>1. fut[i].mv.pc = "next"
    BY <1>13 DEF MvTakes
  <2>2. CASE MvSteps(i, "failed", "failed", Picked(i).commits)
    <3>1. PICK c : c = Picked(i).commits
      OBVIOUS
    <3>2. /\ fut[i].mv.todo # {} /\ MvIs(i, "failed", fut[i].mv.todo) /\ Same(runs[i], runs'[i], {"view"})
          /\ ViewTo(i, least, "failed", c)
      BY <1>6, <2>2, <3>1 DEF MvSteps
    <3>3. PICK todo : todo = fut[i].mv.todo
      OBVIOUS
    <3>4. MvIs(i, "failed", todo)
      BY <3>2, <3>3 DEF MvIs
    <3> QED  BY <1>1, <1>6, <2>1, <3>2, <3>4, StepViews
  <2>3. CASE MvSteps(i, "refresh", IF Picked(i).st = "pending" THEN "running" ELSE Picked(i).st, Picked(i).commits)
    <3>1. PICK c : c = Picked(i).commits
      OBVIOUS
    <3>2. /\ fut[i].mv.todo # {} /\ MvIs(i, "refresh", fut[i].mv.todo) /\ Same(runs[i], runs'[i], {"view"})
          /\ ViewTo(i, least, IF Picked(i).st = "pending" THEN "running" ELSE Picked(i).st, c)
      BY <1>6, <2>3, <3>1 DEF MvSteps
    <3>3. PICK todo : todo = fut[i].mv.todo
      OBVIOUS
    <3>4. MvIs(i, "refresh", todo)
      BY <3>2, <3>3 DEF MvIs
    <3>5. Picked(i).st = "pending" /\ c = runs[i].view[least].commits
      <4>1. least \in fut[i].mv.todo
        BY <1>6, <3>2, RowType, RowFields, MinIn
      <4> QED  BY <1>2, <1>6, <1>8, <2>1, <3>1, <3>2, <4>1 DEF LoopAt, TodoAt, Picked
    <3>6. ViewTo(i, least, "running", c)
      BY <3>2, <3>5 DEF ViewTo
    <3> QED  BY <1>1, <1>6, <2>1, <3>2, <3>3, <3>4, <3>5, <3>6, StepViews
  <2> QED  BY <1>13, <2>2, <2>3 DEF MvTakes
<1>14. CASE MvCommits(i)
  <2>1. fut[i].mv.pc = "refresh"
    BY <1>14 DEF MvCommits
  <2>2. ASSUME NEW n \in {0, 1}, MvSteps(i, "failed", "failed", Picked(i).commits + n) PROVE ViewsAt(i)'
    <3>1. PICK c : c = Picked(i).commits + n
      OBVIOUS
    <3>2. /\ fut[i].mv.todo # {} /\ MvIs(i, "failed", fut[i].mv.todo) /\ Same(runs[i], runs'[i], {"view"})
          /\ ViewTo(i, least, "failed", c)
      BY <1>6, <2>2, <3>1 DEF MvSteps
    <3>3. PICK todo : todo = fut[i].mv.todo
      OBVIOUS
    <3>4. MvIs(i, "failed", todo)
      BY <3>2, <3>3 DEF MvIs
    <3> QED  BY <1>1, <1>6, <2>1, <3>2, <3>4, StepViews
  <2>3. CASE MvSteps(i, "refreshed", Picked(i).st, Picked(i).commits + 1)
    <3>2. /\ fut[i].mv.todo # {} /\ MvIs(i, "refreshed", fut[i].mv.todo) /\ Same(runs[i], runs'[i], {"view"})
          /\ ViewTo(i, least, Picked(i).st, Picked(i).commits + 1)
      BY <1>6, <2>3 DEF MvSteps
    <3>3. PICK todo : todo = fut[i].mv.todo
      OBVIOUS
    <3>4. MvIs(i, "refreshed", todo)
      BY <3>2, <3>3 DEF MvIs
    <3>5. Picked(i).st = "running" /\ Picked(i).commits = 0
      <4>1. least \in fut[i].mv.todo
        BY <1>6, <3>2, RowType, RowFields, MinIn
      <4>2. TodoAt(i, least) /\ CommitAt(i, least)
        BY <1>2, <1>8, <2>1, <3>2 DEF LoopAt, CommitsAt
      <4>3. Picked(i) = runs[i].view[least]
        BY <1>6 DEF Picked
      <4>4. runs[i].view[least].st = "running"
        BY <1>6, <2>1, <4>1, <4>2 DEF TodoAt
      <4>5. runs[i].view[least].commits = 0
        BY <2>1, <4>1, <4>2 DEF CommitAt
      <4> QED  BY <4>3, <4>4, <4>5
    <3>6. ViewTo(i, least, "running", 1)
      BY <3>2, <3>5 DEF ViewTo
    <3> QED  BY <1>1, <1>6, <2>1, <3>2, <3>3, <3>4, <3>6, StepViews
  <2> QED  BY <1>14, <2>2, <2>3 DEF MvCommits
<1>15. CASE MvRecords(i)
  <2>1. /\ fut[i].mv.pc = "refreshed" /\ fut[i].mv.todo # {}
        /\ MvIs(i, "next", fut[i].mv.todo \ {least}) /\ Same(runs[i], runs'[i], {"view"})
        /\ ViewTo(i, least, "succeeded", Picked(i).commits)
    BY <1>6, <1>15 DEF MvRecords
  <2>2. PICK todo : todo = fut[i].mv.todo \ {least}
    OBVIOUS
  <2>3. MvIs(i, "next", todo)
    BY <2>1, <2>2 DEF MvIs
  <2>4. Picked(i).commits = 1
    <3>1. TodoAt(i, least)
      BY <1>2, <1>8, <2>1 DEF LoopAt
    <3> QED  BY <1>6, <2>1, <3>1 DEF TodoAt, Picked
  <2>5. ViewTo(i, least, "succeeded", 1)
    BY <2>1, <2>4 DEF ViewTo
  <2> QED  BY <1>1, <1>6, <2>1, <2>2, <2>3, <2>5, StepViews
<1>16. CASE MvEnds(i)
  <2>1. Ends(i, runs[i], runs'[i]) /\ runs[i].stage = "refreshing_mvs"
    BY <1>2, <1>16 DEF MvEnds, FutStage
  <2>2. Failed(runs[i], runs'[i])
    BY <2>1 DEF Ends, Terminal
  <2> QED  BY <1>4, <2>2
<1>17. CASE PbiTriggersOnce(i) \/ PbiPersists(i) \/ PbiPolls(i)
  BY <1>5, <1>17 DEF PbiTriggersOnce, PbiPersists, PbiPolls, PbiMoves, PbiKeeps, PbiIs, Same
<1>18. CASE PbiEnds(i)
  <2>1. fut'[i].mv = fut[i].mv
    BY <1>18 DEF PbiEnds, PbiIs
  <2>2. CASE fut[i].pbi.pc = "succeeded" /\ Same(runs[i], runs'[i], {"stage"}) /\ runs'[i].stage = "succeeded"
    <3>1. /\ runs[i].stage = "refreshing_powerbi" /\ runs'[i].view = runs[i].view /\ runs'[i].flow = runs[i].flow
          /\ fut[i].mv.pc = "none"
      BY <1>2, <2>2 DEF FutStage, Same
    <3>2. LoopAt(i)'
      BY <1>2, <2>1, <2>2, <3>1 DEF LoopAt, Cleared
    <3> QED  BY <1>7, <3>1, <3>2 DEF ViewsAt
  <2>3. CASE Ends(i, runs[i], runs'[i])
    BY <1>4, <1>5, <2>1, <2>3 DEF Ends
  <2> QED  BY <1>18, <2>2, <2>3 DEF PbiEnds
<1> QED  BY <1>9, <1>10, <1>11, <1>12, <1>13, <1>14, <1>15, <1>16, <1>17, <1>18 DEF FutureStep

\* The steps that give a tick its run, or expire its lease.
LEMMA LeaseViews ==
  ASSUME TypeInv, NEW i \in DOMAIN runs, (\E t \in Ticks : Claims(t, i)) \/ Expires(i), ViewsAt(i)
  PROVE  ViewsAt(i)'
<1> SUFFICES ASSUME Unhurt(i)' PROVE ViewsAt(i)'
  BY DEF ViewsAt
<1>1. Unhurt(i)
  BY HurtGrows DEF RowStep
<1>2. /\ runs'[i].view = runs[i].view /\ runs'[i].flow = runs[i].flow /\ runs'[i].stage = runs[i].stage
      /\ fut' = fut /\ server'.up = server.up
  BY DEF Claims, Expires, Same
<1>3. ASSUME NEW s \in Ticks, tick'[s] # tick[s]
      PROVE  tick[s].pc = "idle" /\ tick'[s].pc \notin {"mvs read", "mv unknown"}
  <2>1. PICK t \in Ticks : Claims(t, i)
    BY <1>3 DEF Expires
  <2>2. tick[t].pc = "idle" /\ tick'[t].pc = runs[i].stage /\ \A r \in Ticks : r # t => tick'[r] = tick[r]
    BY <2>1 DEF Claims, TickBecomes
  <2>3. runs[i].stage \notin {"mvs read", "mv unknown"}
    <3>1. runs[i].stage \in Stages
      BY RowType, RowFields
    <3> QED  BY <3>1 DEF Stages, Terminal
  <2> QED  BY <1>3, <2>2, <2>3
<1>4. (Unknown(i) => Unknown(i)') /\ (Cleared(i)' => Cleared(i))
  BY <1>2, <1>3 DEF Unknown, Cleared, OnRun
<1> QED  BY <1>1, <1>2, <1>4, ViewsStay DEF FlowsBehind

\* ViewsAt of a run that a step leaves alone.
LEMMA KeptViewsAt ==
  ASSUME TypeInv, NEW i \in DOMAIN runs, RowKept(i), ViewsAt(i)
  PROVE  ViewsAt(i)'
<1>1. /\ runs'[i] = runs[i] /\ fut'[i] = fut[i] /\ server'.up = server.up
      /\ \A t \in Ticks : (OnRun(t, i)' <=> OnRun(t, i)) /\ (OnRun(t, i) => tick'[t] = tick[t])
  BY DEF RowKept
<1>2. (Unhurt(i)' => Unhurt(i)) /\ (Unknown(i) => Unknown(i)') /\ (Cleared(i)' => Cleared(i))
  BY <1>1 DEF Unhurt, Unknown, Cleared
<1>3. CASE Unhurt(i)
  BY <1>1, <1>2, <1>3, ViewsStay DEF FlowsBehind
<1> QED  BY <1>2, <1>3 DEF ViewsAt

\* ViewsAt after a stop or a restart.
LEMMA ProcessViews ==
  ASSUME TypeInv, Stopped \/ Restarted, NEW i \in DOMAIN runs, ViewsAt(i)
  PROVE  ViewsAt(i)'
<1> SUFFICES ASSUME Unhurt(i)' PROVE ViewsAt(i)'
  BY DEF ViewsAt
<1>1. /\ runs'[i].view = runs[i].view /\ runs'[i].flow = runs[i].flow /\ runs'[i].stage = runs[i].stage
      /\ Unhurt(i) /\ (Restarted => ~Split(i)) /\ i \in 1..MaxRuns
  BY RowType DEF Stopped, Restarted, Same, Unhurt
<1>2. (\A k \in DOMAIN runs[i].view : ViewAt(i, k)) /\ LoopAt(i)
  BY <1>1 DEF ViewsAt
<1>3. \A k \in DOMAIN runs[i].view : ViewAt(i, k)'
  BY <1>1, <1>2, ViewKept DEF FlowsBehind
<1>4. CASE Stopped
  <2>1. /\ tick' = tick /\ server'.up = "stopping"
        /\ fut'[i].mv = IF fut[i].mv.pc = "start" THEN NoFutures.mv ELSE fut[i].mv
    BY <1>1, <1>4 DEF Stopped
  <2>2. fut'[i].mv.pc = "none" \/ fut'[i].mv = fut[i].mv
    BY <2>1 DEF NoFutures
  <2>3. fut[i].mv.pc = "failed" => fut'[i].mv.pc = "failed"
    BY <2>1
  <2>4. Unknown(i)' <=> Unknown(i)
    BY <2>1 DEF Unknown, OnRun
  <2>5. ~Cleared(i)'
    BY <2>1 DEF Cleared
  <2>6. ASSUME fut'[i].mv = fut[i].mv, NEW k, TodoAt(i, k) PROVE TodoAt(i, k)'
    BY <1>1, <2>6 DEF TodoAt
  <2>7. LoopAt(i)'
    BY <1>1, <1>2, <2>2, <2>3, <2>4, <2>5, <2>6 DEF LoopAt, AllSucceeded
  <2> QED  BY <1>1, <1>3, <2>7 DEF ViewsAt
<1>5. CASE Restarted
  <2>1. fut'[i].mv.pc = "none" /\ \A t \in Ticks : tick'[t].pc = "idle"
    BY <1>1, <1>5 DEF Restarted, NoFutures, Idle
  <2>2. ~Unknown(i) /\ fut[i].mv.pc # "failed"
    BY <1>1, <1>5 DEF Split, Unknown, OnRun
  <2>3. ~Cleared(i)'
    BY <2>1 DEF Cleared, OnRun
  <2>4. LoopAt(i)'
    BY <1>1, <1>2, <2>1, <2>2, <2>3 DEF LoopAt, AllSucceeded
  <2> QED  BY <1>1, <1>3, <2>4 DEF ViewsAt
<1> QED  BY <1>4, <1>5

\* ViewsAt of a new run.
LEMMA CreateViews ==
  ASSUME TypeInv, NEW r \in Reports, Planned(r), Creates(r), NEW n, n = Len(runs) + 1
  PROVE  ViewsAt(n)'
<1>1. runs'[n] = NewRun(r) /\ fut'[n] = NoFutures
  BY NewRow
<1>2. /\ NewRun(r).stage = "queued" /\ DOMAIN NewRun(r).view = DOMAIN PlanViews[r]
      /\ \A k \in DOMAIN PlanViews[r] : NewRun(r).view[k].st = "pending" /\ NewRun(r).view[k].commits = 0
  BY NewRunType DEF Planned
<1>3. LoopAt(n)'
  BY <1>1, <1>2 DEF LoopAt, Cleared, NoFutures
<1>4. \A k \in DOMAIN runs'[n].view : ViewAt(n, k)'
  BY <1>1, <1>2 DEF ViewAt
<1> QED  BY <1>3, <1>4 DEF ViewsAt

\* Viewing is inductive.
LEMMA ViewsNext ==
  ASSUME TypeInv, Stepped, Control, Control', Commits, Flowing, Viewing
  PROVE  Viewing'
<1>1. CASE OutsideStep
  <2>1. DOMAIN runs' = DOMAIN runs
    BY <1>1 DEF OutsideStep, Rows
  <2> QED  BY <1>1, <2>1, OutsideFrame, KeptViewsAt DEF Viewing
<1>2. ASSUME NEW r \in Reports, Planned(r), Creates(r) PROVE Viewing'
  <2>1. PICK n : n = Len(runs) + 1
    OBVIOUS
  <2>2. DOMAIN runs' = DOMAIN runs \cup {n}
    BY <1>2, <2>1, NewRow
  <2>3. ViewsAt(n)'
    BY <1>2, <2>1, CreateViews
  <2>4. ASSUME NEW i \in DOMAIN runs PROVE ViewsAt(i)'
    BY <1>2, CreateFrame, KeptViewsAt DEF Viewing
  <2> QED  BY <2>2, <2>3, <2>4 DEF Viewing
<1>3. ASSUME NEW i \in DOMAIN runs, RowStep(i) PROVE Viewing'
  <2>1. DOMAIN runs' = DOMAIN runs
    BY <1>3, RowSame
  <2>2. FlowsAt(i) /\ ControlAt(i) /\ ControlAt(i)' /\ ViewsAt(i) /\ CommitsAt(i)
    BY <2>1 DEF Flowing, Control, Viewing, Commits
  <2>3. ViewsAt(i)'
    BY <1>3, <2>2, TickStepViews, FutureStepViews, LeaseViews DEF RowStep
  <2>4. ASSUME NEW l \in DOMAIN runs, l # i PROVE ViewsAt(l)'
    BY <1>3, <2>4, RowFrame, KeptViewsAt DEF Viewing
  <2> QED  BY <2>1, <2>3, <2>4 DEF Viewing
<1>4. CASE Stopped \/ Restarted
  <2>1. DOMAIN runs' = DOMAIN runs
    BY <1>4 DEF Stopped, Restarted
  <2> QED  BY <1>4, <2>1, ProcessViews DEF Viewing
<1> QED  BY <1>1, <1>2, <1>3, <1>4 DEF Stepped

(***************************************************************************)
(* Dataset: a refresh is requested once, and never on an unknown outcome.  *)
(***************************************************************************)
\* The row of the dataset.
PbiRowAt(i) ==
  LET pbi == runs[i].pbi IN
  /\ runs[i].stage \notin {"refreshing_powerbi"} \cup Terminal =>
       pbi.st = "pending" /\ ~pbi.request /\ pbi.triggers = 0
  /\ pbi.triggers \in {0, 1}
  /\ pbi.triggers # 0 => AllSucceeded(runs[i].flow) /\ AllSucceeded(runs[i].view)
  /\ pbi.request => pbi.triggers = 1
  /\ pbi.st = "succeeded" => pbi.request
  /\ pbi.st = "pending" => pbi.triggers = 0
  /\ runs[i].stage = "succeeded" => pbi.st = "succeeded"
\* The future of the dataset.
PbiFutAt(i) ==
  LET pbi == runs[i].pbi
      at == fut[i].pbi
  IN /\ at.pc = "succeeded" => pbi.st = "succeeded"
     /\ at.pc = "persist" => pbi.triggers = 1
     /\ at.pc = "poll" => pbi.request
     /\ at.pc # "none" => pbi.st # "pending"
     /\ runs[i].stage \notin Terminal /\ ~pbi.request => pbi.st \in {"pending", "running"} \/ at.pc = "unknown"
     /\ at.pc = "start" /\ ~at.resume /\ ~pbi.request => pbi.triggers = 0
\* A tick that has read the row, and whether it will resume the step.
PbiTickAt(t, i) ==
  /\ runs[i].pbi.st # "pending"
  /\ ~tick[t].flag =>
       \/ runs[i].stage \in Terminal \/ runs[i].pbi.request \/ fut[i].pbi.pc = "unknown"
       \/ fut[i].pbi.pc = "none" /\ runs[i].pbi.triggers = 0
PbiReader(t, i) == OnRun(t, i) /\ tick[t].pc = "pbi read"
PbiAt(i) == Unhurt(i) => PbiRowAt(i) /\ PbiFutAt(i) /\ \A t \in Ticks : PbiReader(t, i) => PbiTickAt(t, i)
Requesting == \A i \in DOMAIN runs : PbiAt(i)

\* What a request of the run relies on stays done.
WorkBehind(i) ==
  \/ runs[i].pbi.triggers = 0
  \/ /\ AllSucceeded(runs[i].flow) => AllSucceeded(runs'[i].flow)
     /\ AllSucceeded(runs[i].view) => AllSucceeded(runs'[i].view)

\* A step that leaves the dataset, its stage and its future alone.
LEMMA PbiStay ==
  ASSUME TypeInv, NEW i \in DOMAIN runs, PbiAt(i), Unhurt(i), WorkBehind(i),
         runs'[i].pbi = runs[i].pbi, runs'[i].stage = runs[i].stage, fut'[i].pbi = fut[i].pbi,
         \A t \in Ticks : PbiReader(t, i)' => PbiReader(t, i) /\ tick'[t] = tick[t]
  PROVE  PbiAt(i)'
<1>1. PbiRowAt(i) /\ PbiFutAt(i) /\ \A t \in Ticks : PbiReader(t, i) => PbiTickAt(t, i)
  BY DEF PbiAt
<1>2. PbiRowAt(i)'
  BY <1>1 DEF PbiRowAt, WorkBehind
<1>3. PbiFutAt(i)'
  BY <1>1 DEF PbiFutAt
<1>4. \A t \in Ticks : PbiReader(t, i)' => PbiTickAt(t, i)'
  BY <1>1 DEF PbiTickAt
<1> QED  BY <1>2, <1>3, <1>4 DEF PbiAt

\* A run that fails.
LEMMA PbiFail ==
  ASSUME TypeInv, NEW i \in DOMAIN runs, PbiAt(i), Unhurt(i), WorkBehind(i),
         NEW run, Failed(run, runs'[i]), run.pbi = runs[i].pbi, fut'[i].pbi.pc = "none"
  PROVE  PbiAt(i)'
<1>1. PbiRowAt(i)
  BY DEF PbiAt
<1>2. runs'[i].pbi = SkipPbi(runs[i].pbi) /\ runs'[i].stage = "failed"
  BY DEF Failed
<1>3. runs[i].pbi \in PbiSteps
  BY RowType, RowFields
<1>4. /\ runs'[i].pbi.st = IF runs[i].pbi.st = "pending" THEN "skipped" ELSE runs[i].pbi.st
      /\ runs'[i].pbi.request = runs[i].pbi.request /\ runs'[i].pbi.triggers = runs[i].pbi.triggers
  BY <1>2, <1>3 DEF SkipPbi, PbiSteps
<1>5. PbiRowAt(i)'
  BY <1>1, <1>2, <1>4 DEF PbiRowAt, WorkBehind, Terminal
<1>6. PbiFutAt(i)'
  BY <1>2, <1>4 DEF PbiFutAt, Terminal
<1>7. \A t \in Ticks : PbiTickAt(t, i)'
  BY <1>2, <1>4 DEF PbiTickAt, Terminal
<1> QED  BY <1>5, <1>6, <1>7 DEF PbiAt

\* A run before its dataset.
LEMMA PbiFresh ==
  ASSUME NEW i, PbiRowAt(i), runs[i].stage \notin {"refreshing_powerbi"} \cup Terminal,
         runs'[i].pbi = runs[i].pbi, runs'[i].stage # "succeeded", fut'[i].pbi.pc = "none",
         \A t \in Ticks : ~PbiReader(t, i)'
  PROVE  PbiAt(i)'
<1>1. runs[i].pbi.st = "pending" /\ ~runs[i].pbi.request /\ runs[i].pbi.triggers = 0
  BY DEF PbiRowAt
<1> QED  BY <1>1 DEF PbiAt, PbiRowAt, PbiFutAt

\* A run that fails keeps the work behind its dataset.
LEMMA FailedWork ==
  ASSUME NEW i, NEW run, Failed(run, runs'[i]), run.flow = runs[i].flow, run.view = runs[i].view
  PROVE  WorkBehind(i)
<1>1. \A k \in DOMAIN runs[i].flow : runs[i].flow[k].st = "succeeded" => runs'[i].flow[k].st = "succeeded"
  BY DEF Failed, Skipped
<1>2. \A k \in DOMAIN runs[i].view : runs[i].view[k].st = "succeeded" => runs'[i].view[k].st = "succeeded"
  BY DEF Failed, Skipped
<1>3. DOMAIN runs'[i].flow = DOMAIN runs[i].flow /\ DOMAIN runs'[i].view = DOMAIN runs[i].view
  BY DEF Failed, Skipped
<1> QED  BY <1>1, <1>2, <1>3 DEF WorkBehind, AllSucceeded

\* PbiAt after a step of a tick.
LEMMA TickStepPbi ==
  ASSUME TypeInv, NEW i \in DOMAIN runs, NEW t \in Ticks, TickStep(t, i), ControlAt(i), ControlAt(i)', PbiAt(i)
  PROVE  PbiAt(i)'
<1> SUFFICES ASSUME Unhurt(i)' PROVE PbiAt(i)'
  BY DEF PbiAt
<1>1. Unhurt(i) /\ Whole(i) /\ Whole(i)' /\ OnRun(t, i)
  BY TickHurt DEF Unhurt, Whole, TickStep
<1>2. PbiRowAt(i) /\ PbiFutAt(i) /\ \A s \in Ticks : PbiReader(s, i) => PbiTickAt(s, i)
  BY <1>1 DEF PbiAt
<1>3. TickAt(t, i) /\ FutStage(i) /\ \A s \in Ticks : OnRun(s, i) => s = t
  BY <1>1, Alone
<1>4. \A s \in Ticks : s # t => tick'[s] = tick[s]
  BY TickFrame
<1>5. \A s \in Ticks : PbiReader(s, i)' => s = t /\ tick'[t].pc = "pbi read"
  BY <1>3, <1>4 DEF PbiReader, OnRun
\* the run fails, stays, or is not at its dataset yet
<1>6. ASSUME NEW run, Failed(run, runs'[i]), run.view = runs[i].view, run.flow = runs[i].flow, run.pbi = runs[i].pbi
      PROVE  PbiAt(i)'
  <2>1. fut'[i].pbi.pc = "none"
    BY <1>1, <1>6 DEF Failed, ControlAt, FutStage
  <2>2. WorkBehind(i)
    BY <1>6, FailedWork
  <2> QED  BY <1>1, <1>6, <2>1, <2>2, PbiFail
<1>7. ASSUME tick'[t].pc # "pbi read", fut'[i].pbi = fut[i].pbi, runs'[i].stage = runs[i].stage,
             runs'[i].pbi = runs[i].pbi, WorkBehind(i)
      PROVE  PbiAt(i)'
  BY <1>1, <1>5, <1>7, PbiStay
<1>8. ASSUME Ends(i, runs[i], runs'[i]), fut' = fut, tick'[t].pc # "pbi read" PROVE PbiAt(i)'
  BY <1>6, <1>7, <1>8 DEF Ends, WorkBehind
<1>9. tick[t].pc \in EarlyTicks =>
        fut[i].pbi.pc = "none" /\ runs[i].stage \notin {"refreshing_powerbi"} \cup Terminal
  BY <1>1, Early
<1>10. ASSUME tick[t].pc \in EarlyTicks, tick'[t].pc # "pbi read", fut'[i].pbi = fut[i].pbi,
              runs'[i].pbi = runs[i].pbi, runs'[i].stage # "succeeded"
       PROVE  PbiAt(i)'
  BY <1>2, <1>5, <1>9, <1>10, PbiFresh
<1>11. tick[t].pc \in EarlyTicks => runs[i].stage # "succeeded"
  BY <1>9 DEF Terminal
<1>12. CASE Begins(t, i)
  <2>1. tick[t].pc \in EarlyTicks /\ tick'[t].pc # "pbi read" /\ fut' = fut
    BY <1>12 DEF Begins, EarlyTicks, TickGoes
  <2>2. runs'[i].pbi = runs[i].pbi /\ runs'[i].stage # "succeeded"
    BY <1>12 DEF Begins, Same, AfterFlows
  <2> QED  BY <1>10, <2>1, <2>2
<1>13. CASE Launches(t, i)
  <2>1. tick'[t].pc = "release" /\ Submitted(i, "workers", "preparing_workers", [fut[i] EXCEPT !.workers = TRUE])
    BY <1>13 DEF Launches, TickGoes
  <2>2. fut[i] \in Futures
    BY RowType
  <2>3. [fut[i] EXCEPT !.workers = TRUE].pbi = fut[i].pbi
    BY <2>2 DEF Futures
  <2> QED  BY <1>7, <1>8, <2>1, <2>3 DEF Submitted, Same, FutBecomes, WorkBehind
<1>14. CASE Waits(t, i) \/ Leaves(t, i)
  <2>1. tick'[t].pc # "pbi read" /\ fut' = fut
    <3>1. Leaves(t, i) => tick'[t] = Idle
      BY DEF Leaves, TickBecomes
    <3>2. Idle.pc = "idle"
      BY DEF Idle
    <3>3. Waits(t, i) => tick'[t].pc = "release"
      BY DEF Waits, TickGoes
    <3>4. fut' = fut
      BY <1>14 DEF Waits, Leaves
    <3> QED  BY <1>14, <3>1, <3>2, <3>3, <3>4
  <2> QED  BY <1>7, <1>14, <2>1 DEF Waits, Leaves, Same, WorkBehind
<1>15. CASE GivesUp(t, i)
  BY <1>8, <1>15 DEF GivesUp, TickEnds, TickGoes
<1>16. CASE Prepares(t, i) \/ Advances(t, i)
  <2>1. tick[t].pc \in EarlyTicks /\ tick'[t].pc # "pbi read" /\ fut' = fut
    BY <1>16 DEF Prepares, Advances, Queues, EarlyTicks, TickGoes
  <2>2. runs'[i].pbi = runs[i].pbi /\ runs'[i].stage # "succeeded"
    BY <1>11, <1>16, <2>1 DEF Prepares, Advances, Queues, Same
  <2> QED  BY <1>10, <2>1, <2>2
<1>17. CASE Judges(t, i)
  <2>1. PICK run \in RunsOf(runs[i].report) : Same(runs[i], run, {"flow"}) /\ Ends(i, run, runs'[i])
    BY <1>17 DEF Judges, FlowsEnd
  <2>2. tick[t].pc \in EarlyTicks /\ fut' = fut
    BY <1>17 DEF Judges, FlowsEnd, EarlyTicks
  <2>3. Failed(run, runs'[i]) /\ run.pbi = runs[i].pbi
    BY <1>9, <2>1, <2>2 DEF Ends, Same
  <2>4. WorkBehind(i)
    BY <1>2, <1>9, <2>2 DEF WorkBehind, PbiRowAt
  <2> QED  BY <1>1, <1>9, <2>2, <2>3, <2>4, PbiFail
<1>18. CASE Continues(t, i)
  <2>1. tick[t].pc \in EarlyTicks /\ tick'[t].pc # "pbi read" /\ fut' = fut
    BY <1>18 DEF Continues, FlowsSettle, Queues, EarlyTicks, TickGoes
  <2>2. runs'[i].pbi = runs[i].pbi /\ runs'[i].stage # "succeeded"
    BY <1>11, <1>18, <2>1 DEF Continues, FlowsSettle, FlowsDone, AfterFlows, Queues, Same
  <2> QED  BY <1>10, <2>1, <2>2
<1>19. CASE Reads(t, i)
  BY <1>7, <1>19 DEF Reads, Same, TickGoes, WorkBehind
<1>20. CASE Decides(t, i)
  <2>1. MvDecided(t, i)
    BY <1>20 DEF Decides
  <2>2. CASE tick[t].flag /\ TickEnds(t, i)
    BY <1>8, <2>2 DEF TickEnds, TickGoes
  <2>3. CASE TickGoes(t, "release") /\ Submitted(i, "mv", "refreshing_mvs", MvStarts(i))
    <3>1. tick'[t].pc = "release"
      BY <2>3 DEF TickGoes
    <3>2. MvStarts(i).pbi = fut[i].pbi
      BY MvStartsType
    <3> QED  BY <1>7, <1>8, <2>3, <3>1, <3>2 DEF Submitted, Same, FutBecomes, WorkBehind
  <2>4. ASSUME TickGoes(t, "mv unknown"), Same(runs[i], runs'[i], {"view", "hurt"}), fut' = fut, ViewGets(i, tick[t].k, "unknown"),
               runs'[i].hurt = runs[i].hurt \cup IF runs[i].view[tick[t].k].st # "running" THEN {"stale"} ELSE {}
        PROVE  PbiAt(i)'
    <3>1. PICK l : l = tick[t].k
      OBVIOUS
    <3>2. l \in DOMAIN runs[i].view /\ runs[i].view[l].st = "running"
      BY <1>1, <2>4, <3>1 DEF ViewGets, Unhurt
    <3>3. WorkBehind(i)
      BY <1>2, <3>2 DEF WorkBehind, PbiRowAt, AllSucceeded
    <3> QED  BY <1>7, <2>4, <3>3 DEF Same, TickGoes
  <2> QED  BY <2>1, <2>2, <2>3, <2>4 DEF MvDecided
<1>21. CASE Resumes(t, i)
  <2>1. /\ tick'[t].pc = "pbi read" /\ (tick'[t].flag <=> runs[i].pbi.st = "running") /\ fut' = fut
        /\ runs'[i].stage = runs[i].stage /\ runs'[i].flow = runs[i].flow /\ runs'[i].view = runs[i].view
        /\ runs'[i].pbi.st = IF runs[i].pbi.st = "pending" THEN "running" ELSE runs[i].pbi.st
        /\ runs'[i].pbi.request = runs[i].pbi.request /\ runs'[i].pbi.triggers = runs[i].pbi.triggers
    BY <1>21 DEF Resumes, Same, TickGoes
  <2>2. runs[i].stage \in {"refreshing_powerbi"} \cup Terminal
    BY <1>3, <1>21 DEF Resumes, TickAt, PcStage, PbiTicks, Terminal
  <2>3. PbiRowAt(i)'
    BY <1>2, <2>1, <2>2 DEF PbiRowAt
  <2>4. PbiFutAt(i)'
    BY <1>2, <2>1 DEF PbiFutAt
  <2>5. PbiTickAt(t, i)'
    <3>1. runs'[i].pbi.st # "pending"
      BY <2>1
    <3>2. ASSUME runs[i].pbi.st # "running", runs[i].stage \notin Terminal, ~runs[i].pbi.request, fut[i].pbi.pc # "unknown"
          PROVE  fut[i].pbi.pc = "none" /\ runs[i].pbi.triggers = 0
      BY <1>2, <3>2 DEF PbiFutAt, PbiRowAt
    <3> QED  BY <2>1, <3>1, <3>2 DEF PbiTickAt
  <2> QED  BY <1>5, <2>3, <2>4, <2>5 DEF PbiAt
<1>22. CASE Submits(t, i)
  <2>1. tick[t].pc = "pbi read" /\ tick'[t].pc = "release" /\ Submitted(i, "pbi", "refreshing_powerbi", PbiStarts(t, i))
    BY <1>22 DEF Submits, TickGoes
  <2>2. CASE Same(runs[i], runs'[i], {}) /\ UNCHANGED <<fut, runs, locks>>
    BY <1>7, <2>1, <2>2 DEF Same, WorkBehind
  <2>3. CASE Ends(i, runs[i], runs'[i]) /\ UNCHANGED fut
    BY <1>8, <2>1, <2>3
  <2>4. ASSUME ~Live(i, "pbi"), FutBecomes(i, PbiStarts(t, i)), Same(runs[i], runs'[i], {"hurt"}),
               runs'[i].hurt = runs[i].hurt \cup IF runs[i].stage # "refreshing_powerbi" THEN {"stale"} ELSE {}
        PROVE  PbiAt(i)'
    <3>1. /\ runs'[i].stage = "refreshing_powerbi" /\ runs[i].stage = "refreshing_powerbi" /\ runs'[i].pbi = runs[i].pbi
          /\ runs'[i].flow = runs[i].flow /\ runs'[i].view = runs[i].view
      BY <1>1, <2>4 DEF Unhurt, Same
    <3>2. fut[i].pbi.pc = "none"
      BY <2>4 DEF Live
    <3>3. fut[i] \in Futures
      BY RowType
    <3>4. fut'[i].pbi.pc = "start" /\ fut'[i].pbi.resume = tick[t].flag
      BY <2>4, <3>3 DEF FutBecomes, PbiStarts, Futures
    <3>5. PbiTickAt(t, i)
      BY <1>1, <1>2, <2>1 DEF PbiReader
    <3>6. PbiRowAt(i)'
      BY <1>2, <3>1 DEF PbiRowAt
    <3>7. runs[i].stage \notin Terminal
      BY <3>1 DEF Terminal
    <3>8. PbiFutAt(i)'
      BY <1>2, <3>1, <3>2, <3>4, <3>5, <3>7 DEF PbiFutAt, PbiTickAt
    <3> QED  BY <1>5, <2>1, <3>6, <3>8 DEF PbiAt
  <2> QED  BY <2>1, <2>2, <2>3, <2>4 DEF Submitted
<1> QED  BY <1>12, <1>13, <1>14, <1>15, <1>16, <1>17, <1>18, <1>19, <1>20, <1>21, <1>22 DEF TickStep

\* A step of the dataset's future that keeps the stage.
LEMMA RequestMoves ==
  ASSUME TypeInv, NEW i \in DOMAIN runs, FutureStep(i), Unhurt(i), FutStage(i), PbiAt(i),
         StagesAt(i), LoopAt(i), fut[i].pbi.pc # "none",
         runs'[i].stage = runs[i].stage, runs'[i].flow = runs[i].flow, runs'[i].view = runs[i].view,
         NEW pc, NEW st, NEW request, NEW triggers,
         fut'[i].pbi.pc = pc, fut'[i].pbi.resume = fut[i].pbi.resume,
         runs'[i].pbi.st = st, runs'[i].pbi.request = request, runs'[i].pbi.triggers = triggers,
         pc \in {"poll", "succeeded"} => request,
         pc = "succeeded" => st = "succeeded",
         pc # "start", st # "pending", triggers \in {0, 1}, request => triggers = 1,
         pc = "persist" => triggers = 1,
         st = "succeeded" => request,
         ~request => st \in {"pending", "running"} \/ pc = "unknown",
         \/ request \/ pc = "unknown"
         \/ ~request /\ fut[i].pbi.pc = "start" /\ ~fut[i].pbi.resume /\ ~runs[i].pbi.request
  PROVE  PbiAt(i)'
<1>1. PbiRowAt(i) /\ PbiFutAt(i) /\ \A t \in Ticks : PbiReader(t, i) => PbiTickAt(t, i)
  BY DEF PbiAt
<1>2. runs[i].stage = "refreshing_powerbi" /\ runs[i].stage \notin Terminal
  BY DEF FutStage, Terminal
<1>3. AllSucceeded(runs'[i].flow) /\ AllSucceeded(runs'[i].view)
  BY <1>2 DEF StagesAt, LoopAt
<1>4. PbiRowAt(i)'
  BY <1>2, <1>3 DEF PbiRowAt
<1>5. PbiFutAt(i)'
  BY <1>2 DEF PbiFutAt
<1>6. ASSUME NEW t \in Ticks, PbiReader(t, i)' PROVE PbiTickAt(t, i)'
  <2>1. tick' = tick /\ PbiReader(t, i)
    BY <1>6 DEF FutureStep, Elsewhere, PbiReader, OnRun
  <2> QED  BY <1>1, <1>2, <2>1 DEF PbiTickAt
<1> QED  BY <1>4, <1>5, <1>6 DEF PbiAt

\* PbiAt after a step of a future.
LEMMA FutureStepPbi ==
  ASSUME TypeInv, NEW i \in DOMAIN runs, FutureStep(i), ControlAt(i), ControlAt(i)', FlowsAt(i), ViewsAt(i), PbiAt(i)
  PROVE  PbiAt(i)'
<1> SUFFICES ASSUME Unhurt(i)' PROVE PbiAt(i)'
  BY DEF PbiAt
<1>1. Unhurt(i) /\ Whole(i) /\ Whole(i)'
  BY FutureHurt DEF Unhurt, Whole
<1>2. FutStage(i) /\ StagesAt(i) /\ LoopAt(i) /\ PbiRowAt(i) /\ PbiFutAt(i)
  BY <1>1 DEF ControlAt, FlowsAt, ViewsAt, PbiAt
<1>3. tick' = tick /\ \A t \in Ticks : PbiReader(t, i)' => PbiReader(t, i) /\ tick'[t] = tick[t]
  BY DEF FutureStep, Elsewhere, PbiReader, OnRun
<1>4. ASSUME NEW run, Failed(run, runs'[i]), run.view = runs[i].view, run.flow = runs[i].flow, run.pbi = runs[i].pbi
      PROVE  PbiAt(i)'
  <2>1. fut'[i].pbi.pc = "none"
    BY <1>1, <1>4 DEF Failed, ControlAt, FutStage
  <2>2. WorkBehind(i)
    BY <1>4, FailedWork
  <2> QED  BY <1>1, <1>4, <2>1, <2>2, PbiFail
<1>5. ASSUME fut'[i].pbi = fut[i].pbi, runs'[i].stage = runs[i].stage, runs'[i].pbi = runs[i].pbi,
             runs'[i].view = runs[i].view, runs'[i].flow = runs[i].flow
      PROVE  PbiAt(i)'
  BY <1>1, <1>3, <1>5, PbiStay DEF WorkBehind
<1>6. CASE LaunchEnds(i)
  <2>1. fut'[i].pbi = fut[i].pbi
    BY <1>6 DEF LaunchEnds
  <2>2. ASSUME NEW run \in RunsOf(runs[i].report), Same(runs[i], run, {"hurt"}), Ends(i, run, runs'[i]) PROVE PbiAt(i)'
    <3>1. run.flow = runs[i].flow /\ run.view = runs[i].view /\ run.stage = runs[i].stage /\ run.pbi = runs[i].pbi
      BY <2>2 DEF Same
    <3> QED  BY <1>4, <1>5, <2>1, <2>2, <3>1 DEF Ends
  <2> QED  BY <1>5, <1>6, <2>1, <2>2 DEF LaunchEnds, Same
\* the views are refreshed before the dataset
<1>7. ASSUME fut[i].mv.pc # "none", runs'[i].pbi = runs[i].pbi, fut'[i].pbi = fut[i].pbi, runs'[i].stage # "succeeded"
      PROVE  PbiAt(i)'
  <2>1. runs[i].stage = "refreshing_mvs" /\ fut[i].pbi.pc = "none"
    BY <1>2, <1>7 DEF FutStage
  <2>2. \A t \in Ticks : ~PbiReader(t, i)
    BY <1>1, <2>1 DEF PbiReader, ControlAt, TickAt, PcStage, PbiTicks
  <2> QED  BY <1>2, <1>3, <1>7, <2>1, <2>2, PbiFresh DEF Terminal
<1>8. fut[i].mv.pc # "none" => runs[i].stage # "succeeded"
  BY <1>2 DEF FutStage
<1>9. CASE MvBegins(i) \/ MvTakes(i) \/ MvCommits(i) \/ MvRecords(i)
  <2>1. fut[i].mv.pc # "none" /\ runs'[i].pbi = runs[i].pbi /\ runs'[i].stage = runs[i].stage
    BY <1>9 DEF MvBegins, MvTakes, MvCommits, MvRecords, MvSteps, Same
  <2>2. fut'[i].pbi = fut[i].pbi
    BY <1>9 DEF MvBegins, MvTakes, MvCommits, MvRecords, MvSteps, MvIs
  <2> QED  BY <1>7, <1>8, <2>1, <2>2
<1>10. CASE fut[i].mv.pc = "next" /\ (MvDone(i) \/ MvQuits(i))
  BY <1>7, <1>8, <1>10 DEF MvDone, MvQuits, MvIs, Same
<1>11. CASE MvEnds(i)
  <2>1. Failed(runs[i], runs'[i])
    BY <1>2, <1>11 DEF MvEnds, Ends, FutStage, Terminal
  <2> QED  BY <1>4, <2>1
<1>12. fut[i].pbi.pc # "none" => runs[i].pbi.st # "pending" /\ runs[i].stage \notin Terminal
  BY <1>2 DEF PbiFutAt, FutStage, Terminal
<1>13. ASSUME NEW pc, NEW st, NEW request, NEW triggers, PbiMoves(i, pc, st, request, triggers)
       PROVE  /\ fut'[i].pbi.pc = pc /\ fut'[i].pbi.resume = fut[i].pbi.resume
              /\ runs'[i].pbi.st = st /\ runs'[i].pbi.request = request /\ runs'[i].pbi.triggers = triggers
              /\ runs'[i].stage = runs[i].stage /\ runs'[i].flow = runs[i].flow /\ runs'[i].view = runs[i].view
  BY <1>13 DEF PbiMoves, PbiIs, Same
<1>14. ASSUME NEW pc, PbiKeeps(i, pc)
       PROVE  /\ fut'[i].pbi.pc = pc /\ fut'[i].pbi.resume = fut[i].pbi.resume /\ runs'[i].pbi = runs[i].pbi
              /\ runs'[i].stage = runs[i].stage /\ runs'[i].flow = runs[i].flow /\ runs'[i].view = runs[i].view
  BY <1>14 DEF PbiKeeps, PbiIs, Same
<1>15. PICK s, q, n : s = runs[i].pbi.st /\ q = runs[i].pbi.request /\ n = runs[i].pbi.triggers
  OBVIOUS
<1>16. n \in {0, 1} /\ (q => n = 1) /\ (s = "succeeded" => q)
  BY <1>2, <1>15 DEF PbiRowAt
<1>17. CASE PbiTriggersOnce(i)
  <2>1. fut[i].pbi.pc = "start"
    BY <1>17 DEF PbiTriggersOnce
  <2>2. s # "pending" /\ (~q => s \in {"pending", "running"}) /\ (~q /\ ~fut[i].pbi.resume => n = 0)
    BY <1>2, <1>12, <1>15, <2>1 DEF PbiFutAt
  <2>3. CASE q /\ PbiKeeps(i, "poll")
    <3>1. fut'[i].pbi.pc = "poll" /\ fut'[i].pbi.resume = fut[i].pbi.resume /\ runs'[i].pbi.st = s /\ runs'[i].pbi.request = q
          /\ runs'[i].pbi.triggers = n /\ runs'[i].stage = runs[i].stage /\ runs'[i].flow = runs[i].flow /\ runs'[i].view = runs[i].view
      BY <1>14, <1>15, <2>3
    <3> QED  BY <1>1, <1>2, <1>16, <2>1, <2>2, <2>3, <3>1, RequestMoves
  <2>4. CASE ~q /\ PbiMoves(i, "unknown", "unknown", runs[i].pbi.request, runs[i].pbi.triggers)
    <3>1. fut'[i].pbi.pc = "unknown" /\ fut'[i].pbi.resume = fut[i].pbi.resume /\ runs'[i].pbi.st = "unknown" /\ runs'[i].pbi.request = q
          /\ runs'[i].pbi.triggers = n /\ runs'[i].stage = runs[i].stage /\ runs'[i].flow = runs[i].flow /\ runs'[i].view = runs[i].view
      BY <1>15, <2>4 DEF PbiMoves, PbiIs, Same
    <3> QED  BY <1>1, <1>2, <1>16, <2>1, <2>4, <3>1, RequestMoves
  <2>5. ASSUME ~q, ~fut[i].pbi.resume, NEW pc \in {"persist", "unknown", "failed"}, NEW st, NEW m \in {0, 1},
               st = IF pc = "unknown" THEN "unknown" ELSE s, pc = "persist" => m = 1,
               fut'[i].pbi.pc = pc, fut'[i].pbi.resume = fut[i].pbi.resume, runs'[i].pbi.st = st, runs'[i].pbi.request = q,
               runs'[i].pbi.triggers = n + m, runs'[i].stage = runs[i].stage, runs'[i].flow = runs[i].flow, runs'[i].view = runs[i].view
        PROVE  PbiAt(i)'
    <3>1. n = 0 /\ runs'[i].pbi.triggers = m
      BY <2>2, <2>5
    <3>2. st # "pending" /\ (st \in {"pending", "running"} \/ pc = "unknown") /\ st # "succeeded"
      BY <2>2, <2>5
    <3>3. ~runs[i].pbi.request
      BY <1>15, <2>5
    <3> QED  BY <1>1, <1>2, <2>1, <2>5, <3>1, <3>2, <3>3, RequestMoves
  <2>6. CASE ~q /\ ~fut[i].pbi.resume /\ PbiMoves(i, "persist", runs[i].pbi.st, runs[i].pbi.request, runs[i].pbi.triggers + 1)
    <3>1. fut'[i].pbi.pc = "persist" /\ fut'[i].pbi.resume = fut[i].pbi.resume /\ runs'[i].pbi.st = s /\ runs'[i].pbi.request = q
          /\ runs'[i].pbi.triggers = n + 1 /\ runs'[i].stage = runs[i].stage /\ runs'[i].flow = runs[i].flow /\ runs'[i].view = runs[i].view
      BY <1>15, <2>6 DEF PbiMoves, PbiIs, Same
    <3> QED  BY <2>5, <2>6, <3>1
  <2>7. CASE ~q /\ ~fut[i].pbi.resume /\ PbiMoves(i, "unknown", "unknown", runs[i].pbi.request, runs[i].pbi.triggers + 1)
    <3>1. fut'[i].pbi.pc = "unknown" /\ fut'[i].pbi.resume = fut[i].pbi.resume /\ runs'[i].pbi.st = "unknown" /\ runs'[i].pbi.request = q
          /\ runs'[i].pbi.triggers = n + 1 /\ runs'[i].stage = runs[i].stage /\ runs'[i].flow = runs[i].flow /\ runs'[i].view = runs[i].view
      BY <1>15, <2>7 DEF PbiMoves, PbiIs, Same
    <3> QED  BY <2>5, <2>7, <3>1
  <2>8. ASSUME ~q, ~fut[i].pbi.resume, NEW m \in {0, 1},
               PbiMoves(i, "failed", runs[i].pbi.st, runs[i].pbi.request, runs[i].pbi.triggers + m)
        PROVE  PbiAt(i)'
    <3>1. fut'[i].pbi.pc = "failed" /\ fut'[i].pbi.resume = fut[i].pbi.resume /\ runs'[i].pbi.st = s /\ runs'[i].pbi.request = q
          /\ runs'[i].pbi.triggers = n + m /\ runs'[i].stage = runs[i].stage /\ runs'[i].flow = runs[i].flow /\ runs'[i].view = runs[i].view
      BY <1>15, <2>8 DEF PbiMoves, PbiIs, Same
    <3> QED  BY <2>5, <2>8, <3>1
  <2> QED  BY <1>15, <1>17, <2>3, <2>4, <2>6, <2>7, <2>8 DEF PbiTriggersOnce
<1>18. CASE PbiPersists(i)
  <2>1. fut[i].pbi.pc = "persist" /\ n = 1
    BY <1>2, <1>15, <1>18 DEF PbiPersists, PbiFutAt
  <2>2. fut'[i].pbi.pc = "poll" /\ fut'[i].pbi.resume = fut[i].pbi.resume /\ runs'[i].pbi.st = s /\ runs'[i].pbi.request = TRUE
          /\ runs'[i].pbi.triggers = n /\ runs'[i].stage = runs[i].stage /\ runs'[i].flow = runs[i].flow /\ runs'[i].view = runs[i].view
    BY <1>15, <1>18 DEF PbiPersists, PbiMoves, PbiIs, Same
  <2>3. s # "pending"
    BY <1>12, <1>15, <2>1
  <2> QED  BY <1>1, <1>2, <2>1, <2>2, <2>3, RequestMoves
<1>19. CASE PbiPolls(i)
  <2>1. fut[i].pbi.pc = "poll" /\ q /\ n = 1
    BY <1>2, <1>15, <1>16, <1>19 DEF PbiPolls, PbiFutAt
  <2>2. ASSUME NEW st \in {"succeeded", "failed"}, PbiMoves(i, st, st, runs[i].pbi.request, runs[i].pbi.triggers) PROVE PbiAt(i)'
    <3>1. fut'[i].pbi.pc = st /\ fut'[i].pbi.resume = fut[i].pbi.resume /\ runs'[i].pbi.st = st /\ runs'[i].pbi.request = q
          /\ runs'[i].pbi.triggers = n /\ runs'[i].stage = runs[i].stage /\ runs'[i].flow = runs[i].flow /\ runs'[i].view = runs[i].view
      BY <1>15, <2>2 DEF PbiMoves, PbiIs, Same
    <3> QED  BY <1>1, <1>2, <2>1, <2>2, <3>1, RequestMoves
  <2>3. ASSUME NEW pc \in {"failed", "none"}, PbiKeeps(i, pc) PROVE PbiAt(i)'
    <3>1. fut'[i].pbi.pc = pc /\ fut'[i].pbi.resume = fut[i].pbi.resume /\ runs'[i].pbi.st = s /\ runs'[i].pbi.request = q
          /\ runs'[i].pbi.triggers = n /\ runs'[i].stage = runs[i].stage /\ runs'[i].flow = runs[i].flow /\ runs'[i].view = runs[i].view
      BY <1>14, <1>15, <2>3
    <3>2. s # "pending"
      BY <1>12, <1>15, <2>1
    <3> QED  BY <1>1, <1>2, <2>1, <2>3, <3>1, <3>2, RequestMoves
  <2> QED  BY <1>19, <2>2, <2>3 DEF PbiPolls
<1>20. CASE PbiEnds(i)
  <2>1. fut'[i].pbi.pc = "none" /\ fut[i].pbi.pc # "none"
    BY <1>20 DEF PbiEnds, PbiIs
  <2>2. CASE fut[i].pbi.pc = "succeeded" /\ Same(runs[i], runs'[i], {"stage"}) /\ runs'[i].stage = "succeeded"
    <3>1. runs'[i].pbi = runs[i].pbi /\ runs'[i].flow = runs[i].flow /\ runs'[i].view = runs[i].view /\ runs'[i].pbi.st = "succeeded"
      BY <1>2, <2>2 DEF Same, PbiFutAt
    <3>2. PbiRowAt(i)'
      BY <1>2, <2>2, <3>1 DEF PbiRowAt, Terminal
    <3>3. PbiFutAt(i)'
      BY <2>1, <2>2 DEF PbiFutAt, Terminal
    <3>4. \A t \in Ticks : PbiTickAt(t, i)'
      BY <2>2, <3>1 DEF PbiTickAt, Terminal
    <3> QED  BY <3>2, <3>3, <3>4 DEF PbiAt
  <2>3. CASE Ends(i, runs[i], runs'[i])
    <3>1. Failed(runs[i], runs'[i])
      BY <1>12, <2>1, <2>3 DEF Ends
    <3> QED  BY <1>4, <3>1
  <2> QED  BY <1>20, <2>2, <2>3 DEF PbiEnds
<1> QED  BY <1>6, <1>9, <1>10, <1>11, <1>17, <1>18, <1>19, <1>20 DEF FutureStep

\* PbiAt after a claim or the end of a lease.
LEMMA LeasePbi ==
  ASSUME TypeInv, NEW i \in DOMAIN runs, (\E t \in Ticks : Claims(t, i)) \/ Expires(i), PbiAt(i)
  PROVE  PbiAt(i)'
<1> SUFFICES ASSUME Unhurt(i)' PROVE PbiAt(i)'
  BY DEF PbiAt
<1>1. Unhurt(i)
  BY HurtGrows DEF RowStep
<1>2. /\ runs'[i].view = runs[i].view /\ runs'[i].flow = runs[i].flow /\ runs'[i].stage = runs[i].stage
      /\ runs'[i].pbi = runs[i].pbi /\ fut' = fut
  BY DEF Claims, Expires, Same
<1>3. ASSUME NEW s \in Ticks, PbiReader(s, i)' PROVE PbiReader(s, i) /\ tick'[s] = tick[s]
  <2>1. CASE tick'[s] = tick[s]
    BY <1>3, <2>1 DEF PbiReader, OnRun
  <2>2. CASE tick'[s] # tick[s]
    <3>1. PICK t \in Ticks : Claims(t, i)
      BY <2>2 DEF Expires
    <3>2. tick'[t].pc = runs[i].stage /\ \A r \in Ticks : r # t => tick'[r] = tick[r]
      BY <3>1 DEF Claims, TickBecomes
    <3>3. runs[i].stage # "pbi read"
      <4>1. runs[i].stage \in Stages
        BY RowType, RowFields
      <4> QED  BY <4>1 DEF Stages, Terminal
    <3> QED  BY <1>3, <2>2, <3>2, <3>3 DEF PbiReader
  <2> QED  BY <2>1, <2>2
<1> QED  BY <1>1, <1>2, <1>3, PbiStay DEF WorkBehind

\* PbiAt of a run that a step leaves alone.
LEMMA KeptPbi ==
  ASSUME TypeInv, NEW i \in DOMAIN runs, RowKept(i), PbiAt(i)
  PROVE  PbiAt(i)'
<1>1. /\ runs'[i] = runs[i] /\ fut'[i] = fut[i]
      /\ \A t \in Ticks : (OnRun(t, i)' <=> OnRun(t, i)) /\ (OnRun(t, i) => tick'[t] = tick[t])
  BY DEF RowKept
<1>2. (Unhurt(i)' => Unhurt(i)) /\ \A t \in Ticks : PbiReader(t, i)' => PbiReader(t, i) /\ tick'[t] = tick[t]
  BY <1>1 DEF Unhurt, PbiReader
<1>3. CASE Unhurt(i)
  BY <1>1, <1>2, <1>3, PbiStay DEF WorkBehind
<1> QED  BY <1>2, <1>3 DEF PbiAt

\* PbiAt after a stop or a restart.
LEMMA ProcessPbi ==
  ASSUME TypeInv, Stopped \/ Restarted, NEW i \in DOMAIN runs, PbiAt(i)
  PROVE  PbiAt(i)'
<1> SUFFICES ASSUME Unhurt(i)' PROVE PbiAt(i)'
  BY DEF PbiAt
<1>1. /\ runs'[i].view = runs[i].view /\ runs'[i].flow = runs[i].flow /\ runs'[i].stage = runs[i].stage
      /\ runs'[i].pbi = runs[i].pbi /\ Unhurt(i) /\ (Restarted => ~Split(i)) /\ i \in 1..MaxRuns
  BY RowType DEF Stopped, Restarted, Same, Unhurt
<1>2. PbiRowAt(i) /\ PbiFutAt(i) /\ \A t \in Ticks : PbiReader(t, i) => PbiTickAt(t, i)
  BY <1>1 DEF PbiAt
<1>3. PbiRowAt(i)'
  BY <1>1, <1>2 DEF PbiRowAt
<1>4. CASE Stopped
  <2>1. tick' = tick /\ fut'[i].pbi = IF fut[i].pbi.pc = "start" THEN NoFutures.pbi ELSE fut[i].pbi
    BY <1>1, <1>4 DEF Stopped
  <2>2. fut[i].pbi.pc = "start" => fut'[i].pbi.pc = "none"
    BY <2>1 DEF NoFutures
  <2>3. fut[i].pbi.pc # "start" => fut'[i].pbi = fut[i].pbi
    BY <2>1
  <2>4. PbiFutAt(i)'
    BY <1>1, <1>2, <2>2, <2>3 DEF PbiFutAt
  <2>5. ASSUME NEW t \in Ticks, PbiReader(t, i)' PROVE PbiTickAt(t, i)'
    <3>1. PbiTickAt(t, i)
      BY <1>2, <2>1, <2>5 DEF PbiReader, OnRun
    <3> QED  BY <1>1, <2>1, <2>2, <2>3, <3>1 DEF PbiTickAt
  <2> QED  BY <1>3, <2>4, <2>5 DEF PbiAt
<1>5. CASE Restarted
  <2>1. fut'[i].pbi.pc = "none" /\ \A t \in Ticks : tick'[t].pc = "idle"
    BY <1>1, <1>5 DEF Restarted, NoFutures, Idle
  <2>2. fut[i].pbi.pc # "unknown"
    BY <1>1, <1>5 DEF Split
  <2>3. PbiFutAt(i)'
    BY <1>1, <1>2, <2>1, <2>2 DEF PbiFutAt
  <2> QED  BY <1>3, <2>1, <2>3 DEF PbiAt, PbiReader
<1> QED  BY <1>4, <1>5

\* PbiAt of a new run.
LEMMA CreatePbi ==
  ASSUME TypeInv, NEW r \in Reports, Planned(r), Creates(r), NEW n, n = Len(runs) + 1
  PROVE  PbiAt(n)'
<1>1. runs'[n] = NewRun(r) /\ fut'[n] = NoFutures /\ \A t \in Ticks : ~OnRun(t, n)'
  BY NewRow
<1>2. NewRun(r).stage = "queued" /\ NewRun(r).pbi = [st |-> "pending", request |-> FALSE, triggers |-> 0]
  BY NewRunType DEF Planned
<1>3. PbiRowAt(n)'
  BY <1>1, <1>2 DEF PbiRowAt
<1>4. PbiFutAt(n)'
  BY <1>1, <1>2 DEF PbiFutAt, NoFutures
<1> QED  BY <1>1, <1>3, <1>4 DEF PbiAt, PbiReader

\* Requesting is inductive.
LEMMA PbiNext ==
  ASSUME TypeInv, Stepped, Control, Control', Flowing, Viewing, Requesting
  PROVE  Requesting'
<1>1. CASE OutsideStep
  <2>1. DOMAIN runs' = DOMAIN runs
    BY <1>1 DEF OutsideStep, Rows
  <2> QED  BY <1>1, <2>1, OutsideFrame, KeptPbi DEF Requesting
<1>2. ASSUME NEW r \in Reports, Planned(r), Creates(r) PROVE Requesting'
  <2>1. PICK n : n = Len(runs) + 1
    OBVIOUS
  <2>2. DOMAIN runs' = DOMAIN runs \cup {n}
    BY <1>2, <2>1, NewRow
  <2>3. PbiAt(n)'
    BY <1>2, <2>1, CreatePbi
  <2>4. ASSUME NEW i \in DOMAIN runs PROVE PbiAt(i)'
    BY <1>2, CreateFrame, KeptPbi DEF Requesting
  <2> QED  BY <2>2, <2>3, <2>4 DEF Requesting
<1>3. ASSUME NEW i \in DOMAIN runs, RowStep(i) PROVE Requesting'
  <2>1. DOMAIN runs' = DOMAIN runs
    BY <1>3, RowSame
  <2>2. FlowsAt(i) /\ ControlAt(i) /\ ControlAt(i)' /\ ViewsAt(i) /\ PbiAt(i)
    BY <2>1 DEF Flowing, Control, Viewing, Requesting
  <2>3. PbiAt(i)'
    BY <1>3, <2>2, TickStepPbi, FutureStepPbi, LeasePbi DEF RowStep
  <2>4. ASSUME NEW l \in DOMAIN runs, l # i PROVE PbiAt(l)'
    BY <1>3, <2>4, RowFrame, KeptPbi DEF Requesting
  <2> QED  BY <2>1, <2>3, <2>4 DEF Requesting
<1>4. CASE Stopped \/ Restarted
  <2>1. DOMAIN runs' = DOMAIN runs
    BY <1>4 DEF Stopped, Restarted
  <2> QED  BY <1>4, <2>1, ProcessPbi DEF Requesting
<1> QED  BY <1>1, <1>2, <1>3, <1>4 DEF Stepped

(***************************************************************************)
(* Reservations: the flow runs of others and the locks of a run.           *)
(***************************************************************************)
\* A flow run that writes a reserved table belongs to the run that holds it.
OwnTable(j) ==
  \A x \in DOMAIN locks : x = <<"target", frun[j].target>> /\ (frun[j].parent = 0 \/ Unhurt(frun[j].parent)) =>
    frun[j].parent = locks[x]
\* A flow run that refreshes a reserved view was queued between the rebuild of
\* the plan and the creating transaction.
LateView(j) ==
  \A v \in frun[j].views : \A x \in DOMAIN locks : x = <<"mv", v>> =>
    runs[locks[x]].seen < j /\ j <= runs[locks[x]].born
\* No flow run that the rebuilt plan has seen refreshes one of its views.
ReadPlan(r) ==
  built[r] # NoPlan =>
    \A j \in Active : j <= built[r].seen => \A v \in Range(PlanViews[r]) : v \notin frun[j].views
Reserved == (\A j \in Active : OwnTable(j) /\ LateView(j)) /\ \A r \in Reports : ReadPlan(r)

\* An active flow run that is not new was active before.
LEMMA OldJob ==
  ASSUME JobsKept, NEW j \in DOMAIN frun, j \in Active'
  PROVE  /\ j \in Active /\ frun'[j].target = frun[j].target /\ frun'[j].views = frun[j].views
         /\ frun'[j].parent = frun[j].parent
BY DEF JobsKept, Active
\* A step that neither adds locks nor changes what the rows were planned on.
RowsHeld ==
  /\ LocalLocks
  /\ \A i \in DOMAIN runs : /\ i \in DOMAIN runs' /\ (Unhurt(i)' => Unhurt(i))
                            /\ runs'[i].seen = runs[i].seen /\ runs'[i].born = runs[i].born

\* The tables and views of an old flow run.
LEMMA OldJobReserved ==
  ASSUME TypeInv, Reserved, JobsKept, RowsHeld, NEW j \in DOMAIN frun, j \in Active'
  PROVE  OwnTable(j)' /\ LateView(j)'
<1>1. /\ j \in Active /\ frun'[j].target = frun[j].target /\ frun'[j].views = frun[j].views
      /\ frun'[j].parent = frun[j].parent
  BY OldJob
<1>2. OwnTable(j) /\ LateView(j)
  BY <1>1 DEF Reserved
<1>3. PICK p : p = frun[j].parent
  OBVIOUS
<1>4. p = 0 \/ p \in DOMAIN runs
  <2>1. p \in Nat /\ p <= Len(runs)
    BY <1>3, FrunFacts DEF FlowRuns
  <2>2. runs \in Seq(AllRuns)
    BY DEF TypeInv, RunsType
  <2>3. Len(runs) \in Nat /\ DOMAIN runs = 1..Len(runs)
    BY <2>2
  <2> QED  BY <2>1, <2>3
<1>5. p # 0 /\ Unhurt(p)' => Unhurt(p)
  BY <1>4 DEF RowsHeld
<1>6. OwnTable(j)'
  <2>1. ASSUME NEW x \in DOMAIN locks', x = <<"target", frun'[j].target>>, p = 0 \/ Unhurt(p)' PROVE p = locks'[x]
    <3>1. x \in DOMAIN locks /\ locks'[x] = locks[x]
      BY <2>1 DEF RowsHeld, LocalLocks
    <3> QED  BY <1>1, <1>2, <1>3, <1>5, <2>1, <3>1 DEF OwnTable
  <2>2. frun'[j].parent = p /\ (Unhurt(frun[j].parent)' => Unhurt(p)')
    BY <1>1, <1>3 DEF Unhurt
  <2> QED  BY <2>1, <2>2 DEF OwnTable
<1>7. LateView(j)'
  <2>1. ASSUME NEW v \in frun'[j].views, NEW x \in DOMAIN locks', x = <<"mv", v>>
        PROVE  runs'[locks'[x]].seen < j /\ j <= runs'[locks'[x]].born
    <3>1. x \in DOMAIN locks /\ locks'[x] = locks[x] /\ locks[x] \in DOMAIN runs
      BY <2>1 DEF RowsHeld, LocalLocks, TypeInv, LockType
    <3>2. runs[locks[x]].seen < j /\ j <= runs[locks[x]].born
      BY <1>1, <1>2, <2>1, <3>1 DEF LateView
    <3> QED  BY <3>1, <3>2 DEF RowsHeld
  <2> QED  BY <2>1 DEF LateView
<1> QED  BY <1>6, <1>7

\* Plans that a step keeps, or drops.
LEMMA PlansRead ==
  ASSUME TypeInv, Reserved, JobsKept, NEW r \in Reports, built'[r] = built[r] \/ built'[r] = NoPlan,
         \A j \in DOMAIN frun' : j \notin DOMAIN frun => j \in Nat /\ j > Len(frun)
  PROVE  ReadPlan(r)'
<1> SUFFICES ASSUME built'[r] # NoPlan, NEW j \in Active', j <= built'[r].seen, NEW v \in Range(PlanViews[r])
             PROVE  v \notin frun'[j].views
  BY DEF ReadPlan
<1>1. built'[r] = built[r] /\ built[r] # NoPlan
  OBVIOUS
<1>2. PICK s : s = built[r].seen
  OBVIOUS
<1>3. s \in Nat /\ s <= Len(frun) /\ j <= s
  BY <1>1, <1>2 DEF TypeInv, BuiltType, BuiltOf
<1>4. j \in DOMAIN frun
  <2>1. j \in DOMAIN frun'
    BY DEF Active
  <2>2. CASE j \in Nat /\ j > Len(frun)
    BY <1>3, <2>2, FrunFacts
  <2> QED  BY <2>1, <2>2
<1>5. j \in Active /\ frun'[j].views = frun[j].views
  BY <1>4, OldJob
<1> QED  BY <1>1, <1>2, <1>3, <1>5 DEF Reserved, ReadPlan

\* The new numbers are greater than those of all flow runs.
LEMMA GrownNumbers ==
  ASSUME TypeInv, NEW new, Grows(new)
  PROVE  \A j \in DOMAIN frun' : j \notin DOMAIN frun => j = Len(frun) + 1 /\ j \in Nat /\ j > Len(frun) /\ frun'[j] = new
<1>1. Len(frun) \in Nat
  BY FrunFacts
<1> QED  BY <1>1 DEF Grows

\* A child that run i queues writes a table that i holds.
LEMMA ChildReserved ==
  ASSUME TypeInv, NEW i \in DOMAIN runs, NEW t \in Ticks, NEW k, NEW pc, Queues(t, i, k, pc), Unhurt(i)' => Unhurt(i),
         AimAt(i), LocksAt(i), Unhurt(i) => runs[i].stage \notin Terminal, NEW j, j = Len(frun) + 1
  PROVE  OwnTable(j)' /\ LateView(j)'
<1>f. PICK f : f = PlanFlows[runs[i].report][k]
  OBVIOUS
<1>1. /\ k \in DOMAIN runs[i].flow /\ f \in Flows /\ Grows(NewChild(i, k)) /\ locks' = locks
  BY <1>f DEF Queues
<1>2. /\ NewChild(i, k).parent = i /\ NewChild(i, k).target = target[f] /\ NewChild(i, k).views = {}
  BY <1>f DEF NewChild, NewFlowRun
<1>3. frun'[j] = NewChild(i, k)
  BY <1>1 DEF Grows
<1>4. LateView(j)'
  BY <1>2, <1>3 DEF LateView
<1>5. PICK x : x = <<"target", target[f]>>
  OBVIOUS
<1>6. ASSUME Unhurt(i)' PROVE x \in DOMAIN locks /\ locks[x] = i
  <2>1. Unhurt(i) /\ Whole(i) /\ runs[i].stage \notin Terminal
    BY <1>6 DEF Unhurt, Whole
  <2>2. DOMAIN runs[i].goal = DOMAIN runs[i].flow
    BY RowType, RowFields
  <2>3. target[f] = runs[i].goal[k]
    BY <1>1, <1>f, <2>1, <2>2 DEF AimAt
  <2>4. target[f] \in Range(runs[i].goal)
    BY <1>1, <2>2, <2>3 DEF Range
  <2>5. x \in Resources(runs[i].report, runs[i])
    BY <1>5, <2>4 DEF Resources
  <2>6. Mine(i) = Resources(runs[i].report, runs[i])
    BY <2>1 DEF LocksAt
  <2> QED  BY <2>5, <2>6 DEF Mine
<1>7. i # 0
  BY RowType
<1>8. OwnTable(j)'
  <2>1. ASSUME NEW y \in DOMAIN locks', y = x, Unhurt(i)' PROVE locks'[y] = i
    BY <1>1, <1>6, <2>1
  <2>2. frun'[j].parent = i /\ frun'[j].target = target[f] /\ (Unhurt(frun[j].parent)' => Unhurt(i)')
    BY <1>2, <1>3 DEF Unhurt
  <2> QED  BY <1>5, <1>7, <2>1, <2>2 DEF OwnTable
<1> QED  BY <1>4, <1>8

\* A step on a row.
LEMMA RowReserved ==
  ASSUME TypeInv, Reserved, NEW i \in DOMAIN runs, RowStep(i), ControlAt(i), AimAt(i), LocksAt(i)
  PROVE  Reserved'
<1>1. JobsKept
  BY RowJobs
<1>2. RowsHeld
  <2>1. ASSUME NEW l \in DOMAIN runs PROVE /\ l \in DOMAIN runs' /\ (Unhurt(l)' => Unhurt(l))
                                           /\ runs'[l].seen = runs[l].seen /\ runs'[l].born = runs[l].born
    <3>1. CASE l = i
      BY <3>1, RowSame, HurtGrows
    <3>2. CASE l # i
      BY <3>2, RowFrame DEF RowKept, Unhurt
    <3> QED  BY <3>1, <3>2
  <2>2. LocalLocks
    BY RowSame DEF LocksOf, Released, LocalLocks
  <2> QED  BY <2>1, <2>2 DEF RowsHeld
<1>3. built' = built
  BY DEF RowStep, TickStep, Claims, Expires, FutureStep, Elsewhere
<1>4. Unhurt(i)' => Unhurt(i)
  BY HurtGrows
<1>5. ASSUME NEW t \in Ticks, NEW k, NEW pc, Queues(t, i, k, pc), TickStep(t, i), tick[t].pc \in EarlyTicks PROVE Reserved'
  <2>1. Unhurt(i) => runs[i].stage \notin Terminal
    <3>1. ASSUME Unhurt(i) PROVE Whole(i) /\ OnRun(t, i)
      BY <1>5, <3>1 DEF Unhurt, Whole, TickStep
    <3> QED  BY <1>5, <3>1, Early
  <2>2. Grows(NewChild(i, k))
    BY <1>5 DEF Queues
  <2>3. \A j \in DOMAIN frun' : j \notin DOMAIN frun => j = Len(frun) + 1 /\ j \in Nat /\ j > Len(frun)
    BY <2>2, GrownNumbers
  <2>4. ASSUME NEW j \in Active' PROVE OwnTable(j)' /\ LateView(j)'
    <3>1. j \in DOMAIN frun'
      BY DEF Active
    <3>2. CASE j \in DOMAIN frun
      BY <1>1, <1>2, <3>2, OldJobReserved
    <3>3. CASE j = Len(frun) + 1
      BY <1>4, <1>5, <2>1, <3>3, ChildReserved
    <3> QED  BY <2>3, <3>1, <3>2, <3>3
  <2>5. ASSUME NEW r \in Reports PROVE ReadPlan(r)'
    BY <1>1, <1>3, <2>3, PlansRead
  <2> QED  BY <2>4, <2>5 DEF Reserved
<1>6. ASSUME DOMAIN frun' = DOMAIN frun PROVE Reserved'
  <2>1. ASSUME NEW j \in Active' PROVE OwnTable(j)' /\ LateView(j)'
    <3>1. j \in DOMAIN frun
      BY <1>6 DEF Active
    <3> QED  BY <1>1, <1>2, <3>1, OldJobReserved
  <2>2. ASSUME NEW r \in Reports PROVE ReadPlan(r)'
    BY <1>1, <1>3, <1>6, PlansRead
  <2> QED  BY <2>1, <2>2 DEF Reserved
<1>7. ASSUME NEW t \in Ticks, TickStep(t, i) PROVE Reserved'
  <2>1. CASE Begins(t, i) \/ Launches(t, i) \/ Waits(t, i) \/ GivesUp(t, i) \/ Advances(t, i) \/ Reads(t, i) \/ Decides(t, i) \/ Resumes(t, i) \/ Submits(t, i) \/ Leaves(t, i)
    BY <1>6, <2>1 DEF Begins, Launches, Waits, GivesUp, Advances, Reads, Decides, Resumes, Submits, Leaves, MvDecided, TickEnds, Submitted
  <2>2. CASE Prepares(t, i)
    BY <1>5, <1>6, <1>7, <2>2 DEF Prepares, EarlyTicks
  <2>3. CASE Judges(t, i)
    BY <1>6, <2>3 DEF Judges, FlowsEnd, JobGets
  <2>4. CASE Continues(t, i)
    BY <1>5, <1>6, <1>7, <2>4 DEF Continues, FlowsSettle, EarlyTicks
  <2> QED  BY <1>7, <2>1, <2>2, <2>3, <2>4 DEF TickStep
<1>8. CASE (\E t \in Ticks : Claims(t, i)) \/ Expires(i) \/ FutureStep(i)
  BY <1>6, <1>8 DEF Claims, Expires, FutureStep, Elsewhere
<1> QED  BY <1>7, <1>8 DEF RowStep

\* A step outside the rows.
LEMMA OutsideReserved ==
  ASSUME TypeInv, Reserved, OutsideStep
  PROVE  Reserved'
<1>1. JobsKept /\ UNCHANGED Rows
  BY OutsideJobs DEF OutsideStep
<1>2. RowsHeld
  BY <1>1 DEF Rows, RowsHeld, LocalLocks, Unhurt
<1>3. ASSUME DOMAIN frun' = DOMAIN frun, NEW r \in Reports, built'[r] = built[r] \/ built'[r] = NoPlan PROVE ReadPlan(r)'
  BY <1>1, <1>3, PlansRead
<1>4. ASSUME DOMAIN frun' = DOMAIN frun, NEW j \in Active' PROVE OwnTable(j)' /\ LateView(j)'
  <2>1. j \in DOMAIN frun
    BY <1>4 DEF Active
  <2> QED  BY <1>1, <1>2, <2>1, OldJobReserved
<1>5. CASE UNCHANGED <<target, built, server, frun>>
  BY <1>3, <1>4, <1>5 DEF Reserved
<1>6. ASSUME NEW r \in Reports, Confirms(r) PROVE Reserved'
  <2>1. frun' = frun /\ ~Blocked(r) /\ built'[r].plan = Plan(r) /\ built'[r].seen = Len(frun) /\ \A q \in Reports : q # r => built'[q] = built[q]
    BY <1>6 DEF Confirms
  <2>2. ReadPlan(r)'
    <3>1. \A v \in Range(PlanViews[r]) : ~Refreshes(v)
      BY <2>1 DEF Blocked
    <3>2. \A j \in Active : \A v \in Range(PlanViews[r]) : v \notin frun[j].views
      BY <3>1 DEF Refreshes
    <3> QED  BY <2>1, <3>2 DEF ReadPlan, Active
  <2> QED  BY <1>3, <1>4, <2>1, <2>2 DEF Reserved
<1>7. ASSUME NEW r \in Reports, Planned(r) PROVE Reserved'
  <2>1. frun' = frun /\ built'[r] = NoPlan /\ \A q \in Reports : q # r => built'[q] = built[q]
    BY <1>7 DEF Planned
  <2> QED  BY <1>3, <1>4, <2>1 DEF Reserved
<1>8. ASSUME NEW f \in Flows, Edits(f) PROVE Reserved'
  BY <1>3, <1>4, <1>8 DEF Edits, Reserved
<1>9. ASSUME NEW j \in DOMAIN frun, JobMoves(j) PROVE Reserved'
  <2>1. DOMAIN frun' = DOMAIN frun /\ built' = built
    BY <1>9 DEF JobMoves, JobGets
  <2> QED  BY <1>3, <1>4, <2>1 DEF Reserved
<1>10. ASSUME NEW f \in Flows, QueuesDirect(f) PROVE Reserved'
  <2>1. /\ built' = built /\ locks' = locks /\ Grows(NewFlowRun(f, FlowViews[f], 0)) /\ ~Locked(<<"target", target[f]>>)
        /\ \A v \in FlowViews[f] : ~Locked(<<"mv", v>>)
    BY <1>1, <1>10 DEF QueuesDirect, Rows
  <2>2. NewFlowRun(f, FlowViews[f], 0).views = FlowViews[f] /\ NewFlowRun(f, FlowViews[f], 0).target = target[f]
    BY DEF NewFlowRun
  <2>3. \A j \in DOMAIN frun' : j \notin DOMAIN frun => j \in Nat /\ j > Len(frun) /\ frun'[j] = NewFlowRun(f, FlowViews[f], 0)
    BY <2>1, GrownNumbers
  <2>4. ASSUME NEW j \in Active' PROVE OwnTable(j)' /\ LateView(j)'
    <3>1. j \in DOMAIN frun'
      BY DEF Active
    <3>2. CASE j \in DOMAIN frun
      BY <1>1, <1>2, <3>2, OldJobReserved
    <3>3. CASE j \notin DOMAIN frun
      <4>1. frun'[j].views = FlowViews[f] /\ frun'[j].target = target[f]
        BY <2>2, <2>3, <3>1, <3>3
      <4>2. OwnTable(j)'
        BY <2>1, <4>1 DEF OwnTable, Locked
      <4>3. LateView(j)'
        BY <2>1, <4>1 DEF LateView, Locked
      <4> QED  BY <4>2, <4>3
    <3> QED  BY <3>2, <3>3
  <2>5. ASSUME NEW r \in Reports PROVE ReadPlan(r)'
    BY <1>1, <2>1, <2>3, PlansRead
  <2> QED  BY <2>4, <2>5 DEF Reserved
<1> QED  BY <1>5, <1>6, <1>7, <1>8, <1>9, <1>10 DEF OutsideStep

\* The transaction that creates a run finds its tables and its views free.
LEMMA CreateReserved ==
  ASSUME TypeInv, Reserved, NEW r \in Reports, Planned(r), Creates(r)
  PROVE  Reserved'
<1>0. PICK n : n = Len(runs) + 1
  OBVIOUS
<1>1. /\ frun' = frun /\ built[r] # NoPlan /\ built'[r] = NoPlan /\ \A q \in Reports : q # r => built'[q] = built[q]
  BY DEF Planned
<1>2. /\ n \notin DOMAIN runs /\ runs'[n] = NewRun(r) /\ \A i \in DOMAIN runs : runs'[i] = runs[i]
  BY <1>0 DEF Creates
<1>3. /\ built[r].plan.goal = Plan(r).goal /\ \A t \in Range(Plan(r).goal) : ~Writes(t)
      /\ \A x \in Resources(r, built[r].plan) : x \notin DOMAIN locks /\ locks'[x] = n
      /\ DOMAIN locks' = DOMAIN locks \cup Resources(r, built[r].plan)
      /\ \A x \in DOMAIN locks : locks'[x] = locks[x]
  BY <1>0 DEF Creates
<1>4. NewRun(r).seen = built[r].seen /\ NewRun(r).born = Len(frun) /\ built[r].seen \in Nat /\ built[r].seen <= Len(frun)
  BY <1>1, NewRunType
<1>5. Active' = Active
  BY <1>1 DEF Active
<1>6. ASSUME NEW j \in Active, NEW x \in DOMAIN locks', x = <<"target", frun[j].target>>,
             frun[j].parent = 0 \/ Unhurt(frun[j].parent)' PROVE frun[j].parent = locks'[x]
  <2>1. CASE x \in DOMAIN locks
    <3>1. PICK p : p = frun[j].parent
      OBVIOUS
    <3>2. p = 0 \/ p \in DOMAIN runs
      <4>1. j \in DOMAIN frun
        BY DEF Active
      <4>2. p \in Nat /\ p <= Len(runs)
        BY <3>1, <4>1, FrunFacts DEF FlowRuns
      <4>3. runs \in Seq(AllRuns)
        BY DEF TypeInv, RunsType
      <4>4. Len(runs) \in Nat /\ DOMAIN runs = 1..Len(runs)
        BY <4>3
      <4> QED  BY <4>2, <4>4
    <3>3. p = 0 \/ Unhurt(p)'
      BY <1>1, <1>6, <3>1 DEF Unhurt
    <3>4. p = 0 \/ Unhurt(p)
      BY <1>2, <3>2, <3>3 DEF Unhurt
    <3> QED  BY <1>3, <1>6, <2>1, <3>1, <3>4 DEF Reserved, OwnTable
  <2>2. CASE x \in Resources(r, built[r].plan)
    <3>1. frun[j].target \in Range(built[r].plan.goal)
      BY <1>6, <2>2 DEF Resources
    <3> QED  BY <1>3, <3>1 DEF Writes
  <2> QED  BY <1>3, <2>1, <2>2
<1>7. ASSUME NEW j \in Active PROVE OwnTable(j)'
  <2>1. frun'[j] = frun[j]
    BY <1>1
  <2> QED  BY <1>1, <1>6, <2>1 DEF OwnTable, Unhurt
<1>8. ASSUME NEW j \in Active, NEW v \in frun[j].views, NEW x \in DOMAIN locks', x = <<"mv", v>>
      PROVE  runs'[locks'[x]].seen < j /\ j <= runs'[locks'[x]].born
  <2>1. CASE x \in DOMAIN locks
    <3>1. locks'[x] = locks[x] /\ locks[x] \in DOMAIN runs
      BY <1>3, <2>1 DEF TypeInv, LockType
    <3>2. runs'[locks[x]] = runs[locks[x]]
      BY <1>2, <3>1
    <3> QED  BY <1>8, <2>1, <3>1, <3>2 DEF Reserved, LateView
  <2>2. CASE x \in Resources(r, built[r].plan)
    <3>1. v \in Range(PlanViews[r])
      BY <1>8, <2>2 DEF Resources
    <3>2. ~(j <= built[r].seen)
      BY <1>1, <1>8, <3>1 DEF Reserved, ReadPlan
    <3>3. j \in Nat /\ j <= Len(frun)
      BY FrunFacts DEF Active
    <3>4. locks'[x] = n
      BY <1>3, <2>2
    <3> QED  BY <1>2, <1>4, <3>2, <3>3, <3>4
  <2> QED  BY <1>3, <2>1, <2>2
<1>9. ASSUME NEW j \in Active PROVE LateView(j)'
  BY <1>1, <1>8 DEF LateView
<1>10. ASSUME NEW q \in Reports PROVE ReadPlan(q)'
  <2>1. built'[q] = built[q] \/ built'[q] = NoPlan
    BY <1>1
  <2> QED  BY <1>1, <2>1, SameJobs, PlansRead
<1> QED  BY <1>5, <1>7, <1>9, <1>10 DEF Reserved

\* Reserved after a stop or a restart.
LEMMA ProcessReserved ==
  ASSUME TypeInv, Reserved, Stopped \/ Restarted
  PROVE  Reserved'
<1>1. frun' = frun /\ locks' = locks /\ DOMAIN runs' = DOMAIN runs
  BY DEF Stopped, Restarted
<1>2. \A i \in DOMAIN runs : runs'[i].seen = runs[i].seen /\ runs'[i].born = runs[i].born /\ (Unhurt(i)' => Unhurt(i))
  BY DEF Stopped, Restarted, Same, Unhurt
<1>3. RowsHeld /\ JobsKept
  BY <1>1, <1>2, SameJobs DEF RowsHeld, LocalLocks
<1>4. ASSUME NEW j \in Active' PROVE OwnTable(j)' /\ LateView(j)'
  <2>1. j \in DOMAIN frun
    BY <1>1 DEF Active
  <2> QED  BY <1>3, <2>1, OldJobReserved
<1>5. ASSUME NEW r \in Reports PROVE ReadPlan(r)'
  <2>1. built'[r] = built[r] \/ built'[r] = NoPlan
    BY DEF Stopped, Restarted
  <2> QED  BY <1>1, <1>3, <2>1, PlansRead
<1> QED  BY <1>4, <1>5 DEF Reserved

\* Reserved is inductive.
LEMMA ReservedNext ==
  ASSUME TypeInv, Stepped, Control, Aim, Locking, Reserved
  PROVE  Reserved'
<1>1. ASSUME NEW i \in DOMAIN runs, RowStep(i) PROVE Reserved'
  BY <1>1, RowReserved DEF Control, Aim, Locking
<1> QED  BY <1>1, OutsideReserved, CreateReserved, ProcessReserved DEF Stepped

(***************************************************************************)
(* The theorems.                                                           *)
(***************************************************************************)
PipelineInv ==
  TypeInv /\ Control /\ Locking /\ Aim /\ Commits /\ Flowing /\ Viewing /\ Requesting /\ Reserved

\* The initial states have the invariant.
LEMMA InitInv ==
  ASSUME Init
  PROVE  PipelineInv
<1>1. TypeInv /\ DOMAIN runs = {} /\ DOMAIN frun = {} /\ \A r \in Reports : built[r] = NoPlan
  BY InitTypes
<1>2. Active = {}
  BY <1>1 DEF Active
<1> QED  BY <1>1, <1>2 DEF PipelineInv, Control, Locking, Aim, Commits, Flowing, Viewing, Requesting, Reserved, ReadPlan

\* Every step keeps the invariant.
LEMMA NextInv ==
  ASSUME PipelineInv, [Next]_vars
  PROVE  PipelineInv'
<1>1. TypeInv' /\ Stepped
  BY NextStepped DEF PipelineInv
<1>2. Control'
  BY <1>1, ControlNext DEF PipelineInv
<1>3. Locking' /\ Aim' /\ Commits' /\ Flowing' /\ Reserved'
  BY <1>1, LocksNext, AimNext, CommitsNext, FlowsNext, ReservedNext DEF PipelineInv
<1>4. Viewing' /\ Requesting'
  BY <1>1, <1>2, ViewsNext, PbiNext DEF PipelineInv
<1> QED  BY <1>1, <1>2, <1>3, <1>4 DEF PipelineInv

\* The inductive invariant of the pipeline.
THEOREM Invariance == Spec => []PipelineInv
<1>1. Init => PipelineInv
  BY InitInv
<1>2. PipelineInv /\ [Next]_vars => PipelineInv'
  BY NextInv
<1> QED  BY <1>1, <1>2, PTL DEF Spec

\* The values of the variables, as the runs check them (TypeOK).
THEOREM Types == Spec => []TypeOK
<1>1. ASSUME PipelineInv PROVE TypeOK
  <2> USE <1>1
  <2>1. TypeInv
    BY DEF PipelineInv
  <2>2. target \in [Flows -> Targets] /\ Len(runs) <= MaxRuns /\ \A x \in DOMAIN locks : locks[x] \in DOMAIN runs
    BY <2>1 DEF TypeInv, RunsType, LockType
  <2>3. ASSUME NEW i \in DOMAIN runs
        PROVE  /\ runs[i].stage \in Stages /\ runs[i].pbi.st \in StepStatus
               /\ runs[i].lease.token \in Ticks \cup {NoThread}
               /\ \A k \in DOMAIN runs[i].flow : runs[i].flow[k].st \in StepStatus /\ runs[i].flow[k].run \in 0..Len(frun)
               /\ \A k \in DOMAIN runs[i].view : runs[i].view[k].st \in StepStatus
    <3>1. runs[i].report \in Reports /\ runs[i] \in RunsOf(runs[i].report)
      BY <2>1, RowType
    <3>2. /\ runs[i].stage \in Stages /\ runs[i].pbi \in PbiSteps /\ runs[i].lease \in Leases
          /\ runs[i].flow \in [DOMAIN runs[i].flow -> FlowSteps] /\ runs[i].view \in [DOMAIN runs[i].view -> ViewSteps]
      BY <3>1, RowFields
    <3>3. runs[i].pbi.st \in StepStatus /\ runs[i].lease.token \in Ticks \cup {NoThread}
      BY <3>2 DEF PbiSteps, Leases
    <3>4. ASSUME NEW k \in DOMAIN runs[i].flow
          PROVE  runs[i].flow[k].st \in StepStatus /\ runs[i].flow[k].run \in 0..Len(frun)
      <4>1. runs[i].flow[k] \in FlowSteps
        BY <3>2
      <4>2. runs[i].flow[k].st \in StepStatus /\ runs[i].flow[k].run \in Nat
        BY <4>1 DEF FlowSteps
      <4>3. runs[i].flow[k].run <= Len(frun) /\ Len(frun) \in Nat
        BY <2>1, FrunFacts DEF TypeInv, FrunType
      <4> QED  BY <4>2, <4>3
    <3>5. ASSUME NEW k \in DOMAIN runs[i].view PROVE runs[i].view[k].st \in StepStatus
      <4>1. runs[i].view[k] \in ViewSteps
        BY <3>2
      <4> QED  BY <4>1 DEF ViewSteps
    <3> QED  BY <3>2, <3>3, <3>4, <3>5
  <2>4. ASSUME NEW t \in Ticks PROVE tick[t].run \in 0..Len(runs)
    <3>1. tick[t] \in TickRows /\ tick[t].run <= Len(runs) /\ runs \in Seq(AllRuns)
      BY <2>1 DEF TypeInv, TickType, RunsType
    <3>2. tick[t].run \in Nat
      BY <3>1 DEF TickRows
    <3>3. Len(runs) \in Nat
      BY <3>1
    <3> QED  BY <3>1, <3>2, <3>3
  <2> QED  BY <2>2, <2>3, <2>4 DEF TypeOK
<1> QED  BY <1>1, Invariance, PTL

\* A run that no fault but a restart has met holds exactly the resources of
\* its plan until it ends, a future of its views or of its dataset included;
\* a run that ended holds none (create_pipeline_run, _release_locks).
THEOREM LocksHeld == Spec => []LocksCoverRun
<1>1. ASSUME PipelineInv, NEW i \in DOMAIN runs
      PROVE  /\ (runs[i].stage \notin Terminal \/ Live(i, "mv") \/ Live(i, "pbi")) /\ Whole(i) =>
                  Mine(i) = Resources(runs[i].report, runs[i])
             /\ runs[i].stage \in Terminal => Mine(i) = {}
  <2>1. LocksAt(i) /\ ControlAt(i)
    BY <1>1 DEF PipelineInv, Locking, Control
  <2>2. (Live(i, "mv") \/ Live(i, "pbi")) /\ Whole(i) => runs[i].stage \notin Terminal
    BY <2>1 DEF ControlAt, FutStage, Live, Terminal
  <2> QED  BY <2>1, <2>2 DEF LocksAt
<1>2. PipelineInv => LocksCoverRun
  BY <1>1 DEF LocksCoverRun, Mine, Whole
<1> QED  BY <1>2, Invariance, PTL

\* The least a set may hold: any two of its elements are equal.
LEMMA AtMostOne ==
  ASSUME NEW S, \A a, b \in S : a = b
  PROVE  Cardinality(S) <= 1
<1>1. CASE S = {}
  BY <1>1, FS_EmptySet
<1>2. CASE S # {}
  <2>1. PICK x : x \in S
    BY <1>2
  <2>2. S = {x}
    BY <2>1
  <2>3. Cardinality(S) = 1
    BY <2>2, FS_Singleton
  <2> QED  BY <2>3
<1> QED  BY <1>1, <1>2

\* One flow of a pipeline runs at a time, a view is refreshed after all flows
\* and after the views before it, and the dataset after all of them
\* (pipeline_tick, _run_mv_stage, _run_powerbi_stage).
THEOREM StagesInOrder == Spec => []UpstreamFirst
<1>1. ASSUME PipelineInv, NEW i \in DOMAIN runs, runs[i].hurt = {}
      PROVE  /\ Cardinality({j \in Active : frun[j].parent = i}) <= 1
             /\ (\E k \in DOMAIN runs[i].view : runs[i].view[k].commits > 0) => AllSucceeded(runs[i].flow)
             /\ runs[i].pbi.triggers > 0 => AllSucceeded(runs[i].flow) /\ AllSucceeded(runs[i].view)
             /\ \A a, b \in DOMAIN runs[i].view :
                  a < b /\ runs[i].view[b].commits > 0 => runs[i].view[a].st = "succeeded"
  <2>1. ChildrenAt(i) /\ PbiRowAt(i) /\ \A k \in DOMAIN runs[i].view : ViewAt(i, k)
    BY <1>1 DEF PipelineInv, Flowing, FlowsAt, Viewing, ViewsAt, Requesting, PbiAt, Unhurt
  <2>2. Cardinality({j \in Active : frun[j].parent = i}) <= 1
    BY <2>1, AtMostOne DEF ChildrenAt
  <2>3. ASSUME NEW k \in DOMAIN runs[i].view, runs[i].view[k].commits > 0 PROVE runs[i].view[k].commits # 0
    BY <2>3
  <2>4. runs[i].pbi.triggers > 0 => AllSucceeded(runs[i].flow) /\ AllSucceeded(runs[i].view)
    BY <2>1 DEF PbiRowAt
  <2>5. ASSUME NEW k \in DOMAIN runs[i].view, runs[i].view[k].commits > 0
        PROVE  /\ AllSucceeded(runs[i].flow)
               /\ \A a \in DOMAIN runs[i].view : a < k => runs[i].view[a].st = "succeeded"
    BY <2>1, <2>3, <2>5 DEF ViewAt
  <2> QED  BY <2>2, <2>4, <2>5
<1>2. PipelineInv => UpstreamFirst
  BY <1>1 DEF UpstreamFirst
<1> QED  BY <1>2, Invariance, PTL

\* A view of a run is refreshed at most once, whatever the run has met, and
\* its dataset is requested at most once (_run_mv_stage, _run_powerbi_stage).
THEOREM NoReplay == Spec => []NeverReplayed
<1>1. ASSUME PipelineInv, NEW i \in DOMAIN runs
      PROVE  /\ \A k \in DOMAIN runs[i].view : runs[i].view[k].commits <= 1
             /\ runs[i].hurt = {} => runs[i].pbi.triggers <= 1
  <2>1. \A k \in DOMAIN runs[i].view : runs[i].view[k].commits <= 1
    BY <1>1 DEF PipelineInv, Commits, CommitsAt, CommitAt
  <2>2. runs[i].hurt = {} => runs[i].pbi.triggers \in {0, 1}
    BY <1>1 DEF PipelineInv, Requesting, PbiAt, PbiRowAt, Unhurt
  <2> QED  BY <2>1, <2>2
<1>2. PipelineInv => NeverReplayed
  BY <1>1 DEF NeverReplayed
<1> QED  BY <1>2, Invariance, PTL

\* A run ends as succeeded when every flow has succeeded and every view and
\* the dataset were refreshed, each exactly once (_succeed_pipeline).
THEOREM SuccessIsComplete == Spec => []SucceededMeansDone
<1>1. ASSUME PipelineInv, NEW i \in DOMAIN runs, runs[i].stage = "succeeded", runs[i].hurt = {}
      PROVE  /\ AllSucceeded(runs[i].flow) /\ AllSucceeded(runs[i].view)
             /\ runs[i].pbi.st = "succeeded" /\ runs[i].pbi.triggers = 1
             /\ \A k \in DOMAIN runs[i].view : runs[i].view[k].commits = 1
             /\ \A k \in DOMAIN runs[i].flow : frun[runs[i].flow[k].run].st = "succeeded"
  <2>1. /\ StagesAt(i) /\ LoopAt(i) /\ PbiRowAt(i)
        /\ \A k \in DOMAIN runs[i].view : ViewAt(i, k)
        /\ \A k \in DOMAIN runs[i].flow : FlowAt(i, k)
    BY <1>1 DEF PipelineInv, Flowing, FlowsAt, Viewing, ViewsAt, Requesting, PbiAt, Unhurt
  <2>2. AllSucceeded(runs[i].flow)
    BY <1>1, <2>1 DEF StagesAt
  <2>3. AllSucceeded(runs[i].view)
    BY <1>1, <2>1 DEF LoopAt
  <2>4. runs[i].pbi.st = "succeeded" /\ runs[i].pbi.triggers = 1
    BY <1>1, <2>1 DEF PbiRowAt
  <2>5. \A k \in DOMAIN runs[i].view : runs[i].view[k].commits = 1
    BY <2>1, <2>3 DEF ViewAt, AllSucceeded
  <2>6. \A k \in DOMAIN runs[i].flow : frun[runs[i].flow[k].run].st = "succeeded"
    BY <2>1, <2>2 DEF FlowAt, AllSucceeded
  <2> QED  BY <2>2, <2>3, <2>4, <2>5, <2>6
<1>2. PipelineInv => SucceededMeansDone
  BY <1>1 DEF SucceededMeansDone
<1> QED  BY <1>2, Invariance, PTL

\* The reservations of pipelines, the queue of direct flow runs and the edits
\* of flows agree on who writes a table and who refreshes a view
\* (create_pipeline_run, queue_flow_run_service, update_flow).
THEOREM Reservations == Spec => []ReservedAlone
<1>1. ASSUME PipelineInv, NEW j \in Active
      PROVE  /\ frun[j].parent = 0 \/ runs[frun[j].parent].hurt = {} =>
                  \A x \in DOMAIN locks : x = <<"target", frun[j].target>> => frun[j].parent = locks[x]
             /\ frun[j].parent # 0 /\ runs[frun[j].parent].hurt = {} =>
                  \E k \in DOMAIN runs[frun[j].parent].goal :
                     /\ PlanFlows[runs[frun[j].parent].report][k] = frun[j].flow
                     /\ runs[frun[j].parent].goal[k] = frun[j].target
             /\ \A v \in frun[j].views :
                  Locked(<<"mv", v>>) => /\ runs[locks[<<"mv", v>>]].seen < j
                                         /\ j <= runs[locks[<<"mv", v>>]].born
  <2>1. OwnTable(j) /\ LateView(j)
    BY <1>1 DEF PipelineInv, Reserved
  <2>2. ASSUME frun[j].parent # 0, runs[frun[j].parent].hurt = {}
        PROVE  \E k \in DOMAIN runs[frun[j].parent].goal :
                     /\ PlanFlows[runs[frun[j].parent].report][k] = frun[j].flow
                     /\ runs[frun[j].parent].goal[k] = frun[j].target
    <3>1. PICK i : i = frun[j].parent
      OBVIOUS
    <3>2. TypeInv /\ j \in DOMAIN frun
      BY <1>1 DEF PipelineInv, Active
    <3>3. frun[j] \in FlowRuns /\ frun[j].parent <= Len(runs)
      BY <3>2, FrunFacts
    <3>4. frun[j].parent \in Nat
      BY <3>3 DEF FlowRuns
    <3>5. runs \in Seq(AllRuns)
      BY <3>2 DEF TypeInv, RunsType
    <3>6. i \in DOMAIN runs
      BY <2>2, <3>1, <3>3, <3>4, <3>5
    <3>7. ChildrenAt(i) /\ \A k \in DOMAIN runs[i].flow : FlowAt(i, k)
      BY <1>1, <2>2, <3>1, <3>6 DEF PipelineInv, Flowing, FlowsAt, Unhurt
    <3>8. PICK k \in DOMAIN runs[i].flow : runs[i].flow[k].run = j
      BY <3>1, <3>2, <3>7 DEF ChildrenAt
    <3>9. j # 0
      BY <3>2, FrunFacts
    <3>10. ChildOf(j, i, k)
      BY <3>7, <3>8, <3>9 DEF FlowAt
    <3>11. DOMAIN runs[i].goal = DOMAIN runs[i].flow
      BY <3>2, <3>6, RowType, RowFields
    <3> QED  BY <3>1, <3>8, <3>10, <3>11 DEF ChildOf
  <2> QED  BY <2>1, <2>2 DEF OwnTable, LateView, Unhurt, Locked
<1>2. PipelineInv => ReservedAlone
  BY <1>1 DEF ReservedAlone
<1> QED  BY <1>2, Invariance, PTL

\* A run that ended keeps its outcome: neither a future nor a tick that is
\* still under way changes it (_fail_pipeline, _succeed_pipeline, _set_stage).
THEOREM Finality == Spec => OutcomeIsFinal
<1>1. ASSUME PipelineInv, [Next]_vars, NEW i \in DOMAIN runs, runs[i].stage \in Terminal, runs'[i].hurt = {}
      PROVE  runs'[i].stage = runs[i].stage
  <2>1. TypeInv /\ Stepped /\ ControlAt(i)
    BY <1>1, NextStepped DEF PipelineInv, Control
  <2>2. CASE RowKept(i)
    BY <2>2 DEF RowKept
  <2>3. ASSUME NEW l \in DOMAIN runs, RowStep(l) PROVE runs'[i].stage = runs[i].stage
    <3>1. CASE l = i
      <4>1. StageMoves(i)
        BY <2>1, <2>3, <3>1, RowMoves
      <4>2. Whole(i)'
        BY <1>1 DEF Whole
      <4> QED  BY <1>1, <4>1, <4>2 DEF StageMoves
    <3>2. CASE l # i
      BY <2>1, <2>2, <2>3, <3>2, RowFrame
    <3> QED  BY <3>1, <3>2
  <2>4. CASE Stopped \/ Restarted
    BY <2>4 DEF Stopped, Restarted, Same
  <2> QED  BY <2>1, <2>2, <2>3, <2>4, OutsideFrame, CreateFrame DEF Stepped
<1>2. PipelineInv /\ [Next]_vars =>
        [\A i \in DOMAIN runs : runs[i].stage \in Terminal /\ runs'[i].hurt = {} => runs'[i].stage = runs[i].stage]_vars
  BY <1>1
<1> QED  BY <1>2, Invariance, PTL DEF Spec, OutcomeIsFinal
=============================================================================
