------------------------------ MODULE MCPublish ------------------------------
(* Three runs publish to one folder; r1 and r2 replace an existing file and *)
(* add a new one, in opposite orders, r3 only the existing one.             *)
EXTENDS DirectPublish, TLC

CONSTANTS r1, r2, r3, f1, f2

MCBundle == (r1 :> <<f1, f2>>) @@ (r2 :> <<f2, f1>>) @@ (r3 :> <<f1>>)
=============================================================================
