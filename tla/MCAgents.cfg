\* One alert, its analyses and a restart.
\* The bounds stop the model.
CONSTANTS
  a1 = a1
  c1 = c1
  c2 = c2
  job = job
  user = user
  Alerts = {a1}
  Configs = {c1,c2}
  Callers = {job,user}
  MaxActive = 1
  MaxAttempts = 1
  MaxRuns = 2
  MaxChanges = 1
  MaxRestarts = 2
  Faults = {"locked", "recovery"}
SPECIFICATION Spec
SYMMETRY Symmetry
INVARIANTS
  TypeOK
  CurrentRevision
  CancelHolds
  BoundedAnalyses
  StepsClosed
  NoOrphan
PROPERTIES
  CompletesCurrent
CHECK_DEADLOCK FALSE
