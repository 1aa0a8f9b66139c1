-------------------------------- MODULE MCScan --------------------------------
(* Two requests and the pool's thread.                                       *)
EXTENDS ScanControl, TLC

CONSTANTS u1, u2, thread
Symmetry == Permutations(Callers)
=============================================================================
