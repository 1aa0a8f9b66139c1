------------------------------ MODULE MCAgents ------------------------------
(* One alert whose evidence, context and settings change while an           *)
(* enrichment job and a user ask for analyses of it.                        *)
EXTENDS AgentRuns, TLC

CONSTANTS a1, c1, c2, job, user
Symmetry == Permutations(Callers)
=============================================================================
