------------------------------ MODULE MCAppend ------------------------------
(* One flow whose run r1 and its successor r2 append to the same SQL target; *)
(* one worker that may restart; an operator who stops r1.                   *)
EXTENDS ParallelBundle, TLC

CONSTANTS r1, r2, t1, t2, w1, f1, background, portal

MCRunOf == (t1 :> r1) @@ (t2 :> r2)
MCFlowOf == [r \in {r1, r2} |-> f1]
MCMode == [x \in {r1, r2, w1} |-> background]
MCSite == [r \in {r1, r2} |-> portal]
MCModeCapacity == background :> 1
MCPortalCapacity == portal :> 1
MCParallelism == [r \in {r1, r2} |-> 1]
MCStopKeys == {<<"user", r1>>}
=============================================================================
