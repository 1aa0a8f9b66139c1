\* A step that may be stopped, with a spare launcher, and one fault.  The model
\* stops once the step and its launchers have ended.
CONSTANTS
  MaxRequests = 1
  Spare = 1
  Stoppable = {1}
  ChildKinds = {"held", "detached", "hidden"}
  MaxFaults = 1
SPECIFICATION FairSpec
INVARIANTS
  ReportIsTrue
  EndedIsOver
PROPERTIES
  ScriptsEnd
CHECK_DEADLOCK FALSE
