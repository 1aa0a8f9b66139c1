---------------------------- MODULE AtomicBundle ----------------------------
(***************************************************************************)
(* What direct publication promises (app/flow_publish.py, publish_bundle:  *)
(* "Atomically replace one validated direct-output bundle with rollback"): *)
(* the target folder moves from bundle to bundle in single steps, and a    *)
(* publication that fails or is interrupted leaves no trace.               *)
(***************************************************************************)
EXTENDS Sequences

CONSTANTS
  Runs, Files,
  Nothing,   \* no such file
  Before,    \* what a file held before any of the runs
  Bundle     \* run -> its deliverables, in publication order

VARIABLE content  \* what each file of the target folder holds

FilesOf(r) == {Bundle[r][i] : i \in DOMAIN Bundle[r]}

Init == content \in [Files -> {Nothing, Before}]

Publish(r) == content' = [f \in Files |-> IF f \in FilesOf(r) THEN r ELSE content[f]]

Next == \E r \in Runs : Publish(r)
Spec == Init /\ [][Next]_content
=============================================================================
