\* Jobs, stops and attempts across a restart.
\* The bounds stop the model.
CONSTANTS
  u1 = u1
  u2 = u2
  thread = thread
  Callers = {u1, u2}
  Thread = thread
  MaxStops = 2
  MaxJobs = 2
  MaxAttempts = 2
  MaxRestarts = 1
  Faults = {"persist", "start", "recovery"}
SYMMETRY Symmetry
SPECIFICATION Spec
INVARIANTS
  TypeOK
  OnlyLeaksBlock
PROPERTIES
  OnlyCurrentImports
CHECK_DEADLOCK FALSE
