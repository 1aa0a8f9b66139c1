------------------------------- MODULE MCPool -------------------------------
(* Two flows that compete for a pool of three workers in two browser modes: *)
(* r1 exports t1 and t2 in the background, r2 exports t3 in a window, and    *)
(* both use the same portal.                                                *)
EXTENDS ParallelBundle, TLC

CONSTANTS r1, r2, t1, t2, t3, w1, w2, w3, f1, f2, background, visible, portal

MCRunOf == (t1 :> r1) @@ (t2 :> r1) @@ (t3 :> r2)
MCFlowOf == (r1 :> f1) @@ (r2 :> f2)
MCMode == [x \in {r1, w1, w2} |-> background] @@ [x \in {r2, w3} |-> visible]
MCSite == [r \in {r1, r2} |-> portal]
MCModeCapacity == (background :> 2) @@ (visible :> 1)
MCPortalCapacity == portal :> 2
MCParallelism == (r1 :> 2) @@ (r2 :> 1)
Symmetry == Permutations({w1, w2})
=============================================================================
