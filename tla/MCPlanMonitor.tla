--------------------------- MODULE MCPlanMonitor ---------------------------
(* Instances of PlanMonitor for TLC. *)
EXTENDS PlanMonitor

C(l, h, c) == [low |-> l, high |-> h, close |-> c]

\* Above the zone, into it from above, into it and back below it.
Shapes == {C(3, 3, 3), C(2, 3, 2), C(1, 2, 1)}
=============================================================================
