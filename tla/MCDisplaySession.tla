-------------------------- MODULE MCDisplaySession --------------------------
(* Instances of DisplaySession for TLC: a plugin or two, a page or two. *)
EXTENDS DisplaySession

CONSTANTS x1, x2, g1, g2
=============================================================================
