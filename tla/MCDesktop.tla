----------------------------- MODULE MCDesktop ------------------------------
(* One step, its own launcher and one more that another start has left over. *)
EXTENDS DesktopSteps
=============================================================================
