\* A crash at every step; copies, renames and restores may fail.
CONSTANTS
  r1 = r1
  r2 = r2
  r3 = r3
  f1 = f1
  f2 = f2
  NoRun = NoRun
  Nothing = Nothing
  Torn = Torn
  Before = Before
  Runs = {r1, r2, r3}
  Files = {f1, f2}
  Bundle <- MCBundle
  Existing = {f1}
  Faults = {"copy", "swap", "undo"}
SPECIFICATION Spec
INVARIANTS
  TypeOK
  OneTransaction
PROPERTIES
  AtomicPublication
  OutcomeTruthful
\* Every run may have had its attempt.
CHECK_DEADLOCK FALSE
