------------------------------ MODULE MCPlanMode ------------------------------
EXTENDS PlanMode, TLC

CONSTANTS a1, a2

MCApproaches == {a1, a2}
MCSize == a1 :> 3 @@ a2 :> 3
MCMode == a1 :> "sequential" @@ a2 :> "parallel"
=============================================================================
