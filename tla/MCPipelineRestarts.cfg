\* One report with two flows and two views: every fault and a restart.
\* The bounds stop the model once its runs have ended.
CONSTANTS
  rA = rA
  rB = rB
  f1 = f1
  f2 = f2
  v1 = v1
  v2 = v2
  t1 = t1
  t2 = t2
  dA = dA
  scheduled = scheduled
  startup = startup
  NoThread = NoThread
  NoPlan = NoPlan
  Reports = {rA}
  Flows = {f1, f2}
  Views = {v1, v2}
  Targets = {t1, t2}
  Datasets = {dA}
  Endpoints = {1, 2}
  Ticks = {scheduled, startup}
  Startup = startup
  MaxRuns = 1
  MaxDirect = 0
  MaxRestarts = 1
  MaxEdits = 0
  Faults = {"late launch", "slow tick", "cut"}
  Dataset <- MCDataset
  FlowViews <- MCFlowViews
  FirstTarget <- MCFirstTarget
  PlanFlows <- FullFlows
  PlanViews <- FullViews
SPECIFICATION Spec
INVARIANTS
  TypeOK
  LocksCoverRun
  UpstreamFirst
  NeverReplayed
  SucceededMeansDone
PROPERTIES
  OutcomeIsFinal
CHECK_DEADLOCK FALSE
CONSTRAINT OneFault
