----------------------------- MODULE MCSessions -----------------------------
(* A planner and its child.                                                *)
EXTENDS Sessions

CONSTANTS planner, child

Family == {planner, child}
FewerTogether == [n \in 0 .. 2 |-> IF n = 2 THEN 4 ELSE 5]
ChildOfPlanner == [s \in Family |-> IF s = child THEN planner ELSE NoParent]
=============================================================================
