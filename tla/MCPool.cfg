\* Two runs in two browser modes compete for shared, mode and portal slots.
CONSTANTS
  r1 = r1
  r2 = r2
  t1 = t1
  t2 = t2
  t3 = t3
  w1 = w1
  w2 = w2
  w3 = w3
  f1 = f1
  f2 = f2
  background = background
  visible = visible
  portal = portal
  NoRun = NoRun
  NoTask = NoTask
  NoWorker = NoWorker
  Runs = {r1, r2}
  Tasks = {t1, t2, t3}
  Workers = {w1, w2, w3}
  Flows = {f1, f2}
  RunOf <- MCRunOf
  FlowOf <- MCFlowOf
  Mode <- MCMode
  Site <- MCSite
  Append = {}
  Loads = {}
  Carried = {}
  TotalCapacity = 2
  ModeCapacity <- MCModeCapacity
  PortalCapacity <- MCPortalCapacity
  Parallelism <- MCParallelism
  StopKeys = {}
  MaxPid = 1
SPECIFICATION Spec
SYMMETRY Symmetry
INVARIANTS
  SlotsRespected
