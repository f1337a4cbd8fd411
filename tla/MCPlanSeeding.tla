---------------------------- MODULE MCPlanSeeding ----------------------------
EXTENDS PlanSeeding, TLC

CONSTANTS i1, i2, i3

\* Two processes of one version and one of the next.
Rollout == i1 :> 2 @@ i2 :> 2 @@ i3 :> 3
=============================================================================
