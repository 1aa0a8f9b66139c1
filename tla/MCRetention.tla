----------------------------- MODULE MCRetention -----------------------------
(* Two flows that save into one folder, which keeps one run. *)
EXTENDS Retention, TLC

CONSTANTS f1, f2
Symmetry == Permutations({f1, f2})
=============================================================================
