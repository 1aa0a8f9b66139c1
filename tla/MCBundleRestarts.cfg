\* Crashes and restarts of coordinator and helper, no stop.  No symmetry: the
\* fairness names the workers.
CONSTANTS
  r1 = r1
  t1 = t1
  t2 = t2
  w1 = w1
  w2 = w2
  f1 = f1
  background = background
  portal = portal
  NoRun = NoRun
  NoTask = NoTask
  NoWorker = NoWorker
  Runs = {r1}
  Tasks = {t1, t2}
  Workers = {w1, w2}
  Flows = {f1}
  RunOf <- MCRunOf
  FlowOf <- MCFlowOf
  Mode <- MCMode
  Site <- MCSite
  Append = {}
  Loads = {}
  Carried = {t1}
  TotalCapacity = 2
  ModeCapacity <- MCModeCapacity
  PortalCapacity <- MCPortalCapacity
  Parallelism <- MCParallelism
  StopKeys = {}
  MaxPid = 2
SPECIFICATION FairSpec
INVARIANTS
  TypeOK
  ReservationHeld
  WholeBundle
  BundleEndsWithRun
  AssignmentsAgree
PROPERTIES
  ReservationProtocol
  LostBundlesEnd
