---------------------------- MODULE MCApiSession ----------------------------
(* Instance of ApiSession: a few runs of mmcom over two descriptors. *)
EXTENDS ApiSession

CONSTANTS c1, c2

=============================================================================
