\* The second run may be interrupted or find a file held open, the third
\* cannot read every marker.  The bounds stop the model.
CONSTANTS
  f1 = f1
  f2 = f2
  Flows = {f1, f2}
  Keep = 1
  MaxRuns = 4
  Interrupted = {2}
  HeldOpen = {2}
  Unmarked = {3}
SPECIFICATION Spec
SYMMETRY Symmetry
INVARIANTS
  TypeOK
  NewestKept
  Accounted
PROPERTIES
  PinnedKept
CHECK_DEADLOCK FALSE
