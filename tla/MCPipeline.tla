----------------------------- MODULE MCPipeline -----------------------------
(* Full: a report with two flows and two views.  Shared: two reports on one  *)
(* dataset, rA with the flow f1 upstream and rB with the view v1; the flow   *)
(* f2 refreshes v1 when it runs and may be edited to write f1's table.       *)
EXTENDS Pipeline, TLC

CONSTANTS rA, rB, f1, f2, v1, v2, t1, t2, dA, scheduled, startup

FullFlows == rA :> <<f1, f2>>
FullViews == rA :> <<v1, v2>>
SmallFlows == rA :> <<f1>>
SmallViews == rA :> <<v1>>
SharedFlows == (rA :> <<f1>>) @@ (rB :> <<>>)
SharedViews == (rA :> <<>>) @@ (rB :> <<v1>>)
MCDataset == (rA :> dA) @@ (rB :> dA)
MCFlowViews == (f1 :> {}) @@ (f2 :> {v1})
MCFirstTarget == (f1 :> t1) @@ (f2 :> t2)
=============================================================================
