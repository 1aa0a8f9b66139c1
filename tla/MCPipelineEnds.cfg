\* One report with one flow and one view: every run ends.
\* The bounds stop the model once its runs have ended.
CONSTANTS
  rA = rA
  rB = rB
  f1 = f1
  f2 = f2
  v1 = v1
  v2 = v2
  t1 = t1
  t2 = t2
  dA = dA
  scheduled = scheduled
  startup = startup
  NoThread = NoThread
  NoPlan = NoPlan
  Reports = {rA}
  Flows = {f1, f2}
  Views = {v1, v2}
  Targets = {t1, t2}
  Datasets = {dA}
  Endpoints = {1}
  Ticks = {scheduled, startup}
  Startup = startup
  MaxRuns = 1
  MaxDirect = 0
  MaxRestarts = 1
  MaxEdits = 0
  Faults = {"cut"}
  Dataset <- MCDataset
  FlowViews <- MCFlowViews
  FirstTarget <- MCFirstTarget
  PlanFlows <- SmallFlows
  PlanViews <- SmallViews
SPECIFICATION Spec
PROPERTIES
  EveryRunEnds
CHECK_DEADLOCK FALSE
