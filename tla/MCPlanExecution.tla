--------------------------- MODULE MCPlanExecution ---------------------------
EXTENDS PlanExecution, TLC

CONSTANTS a1, a2, t1, t2

MCApproaches == {a1, a2}
MCSize == a1 :> 2 @@ a2 :> 2
MCMode == a1 :> "sequential" @@ a2 :> "parallel"
=============================================================================
