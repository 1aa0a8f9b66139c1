\* Two reports on one dataset, a direct flow run and an edited flow.
\* The bounds stop the model once its runs have ended.
CONSTANTS
  rA = rA
  rB = rB
  f1 = f1
  f2 = f2
  v1 = v1
  v2 = v2
  t1 = t1
  t2 = t2
  dA = dA
  scheduled = scheduled
  startup = startup
  NoThread = NoThread
  NoPlan = NoPlan
  Reports = {rA, rB}
  Flows = {f1, f2}
  Views = {v1, v2}
  Targets = {t1, t2}
  Datasets = {dA}
  Endpoints = {1}
  Ticks = {scheduled}
  Startup = startup
  MaxRuns = 2
  MaxDirect = 1
  MaxRestarts = 0
  MaxEdits = 1
  Faults = {}
  Dataset <- MCDataset
  FlowViews <- MCFlowViews
  FirstTarget <- MCFirstTarget
  PlanFlows <- SharedFlows
  PlanViews <- SharedViews
SPECIFICATION Spec
INVARIANTS
  ReservedAlone
CHECK_DEADLOCK FALSE
CONSTRAINT SecondIsCreated
