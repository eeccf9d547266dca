--------------------------- MODULE MCControlPlane ---------------------------
(* TLC instances of ControlPlane. *)
EXTENDS ControlPlane, TLC

CONSTANTS a, b

BothVms == {a, b}
OnlyA == {a}
OnlyB == {b}
Nobody == {}
=============================================================================
