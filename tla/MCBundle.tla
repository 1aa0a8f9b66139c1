------------------------------ MODULE MCBundle ------------------------------
(* One bundle of two exports, two worker slots that may each restart, and   *)
(* both kinds of stop.                                                      *)
EXTENDS ParallelBundle, TLC

CONSTANTS r1, t1, t2, w1, w2, f1, background, portal

MCRunOf == [t \in Tasks |-> r1]
MCFlowOf == [r \in {r1} |-> f1]
MCMode == [x \in {r1, w1, w2} |-> background]
MCSite == [r \in {r1} |-> portal]
MCModeCapacity == [m \in {background} |-> 2]
MCPortalCapacity == [s \in {portal} |-> 2]
MCParallelism == [r \in {r1} |-> 2]
MCStopKeys == {<<"user", r1>>, <<"abort", r1>>}
\* Workers are alike, and so are exports that Resume does not carry.
FullSymmetry == Permutations({w1, w2}) \cup Permutations({t1, t2})
=============================================================================
