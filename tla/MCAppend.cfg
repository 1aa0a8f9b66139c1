\* Two appends of one flow on one worker, with Stop.
CONSTANTS
  r1 = r1
  r2 = r2
  t1 = t1
  t2 = t2
  w1 = w1
  f1 = f1
  background = background
  portal = portal
  NoRun = NoRun
  NoTask = NoTask
  NoWorker = NoWorker
  Runs = {r1, r2}
  Tasks = {t1, t2}
  Workers = {w1}
  Flows = {f1}
  RunOf <- MCRunOf
  FlowOf <- MCFlowOf
  Mode <- MCMode
  Site <- MCSite
  Append = {r1, r2}
  Loads = {r1, r2}
  Carried = {}
  TotalCapacity = 1
  ModeCapacity <- MCModeCapacity
  PortalCapacity <- MCPortalCapacity
  Parallelism <- MCParallelism
  StopKeys <- MCStopKeys
  MaxPid = 2
SPECIFICATION Spec
INVARIANTS
  OnlyAppendBlocks
  NoBlindAppend
