-------------------------- MODULE MCPendingActions --------------------------
(* Instances of PendingActions for TLC: a ring small enough to be reused. *)
EXTENDS PendingActions

CONSTANTS p1, p2
=============================================================================
