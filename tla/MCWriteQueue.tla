---------------------------- MODULE MCWriteQueue ----------------------------
(* Instances of WriteQueue for TLC: a ring of a few slots, so that it wraps *)
(* and overflows within the messages a run accepts.                         *)
EXTENDS WriteQueue

CONSTANTS s1, s2
=============================================================================
