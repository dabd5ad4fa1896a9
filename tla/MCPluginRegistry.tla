-------------------------- MODULE MCPluginRegistry --------------------------
(* Instances of PluginRegistry for TLC: names a, b, bb and c, numbered in   *)
(* their order.                                                             *)
EXTENDS PluginRegistry

MCExtends == {<<3, 2>>}
=============================================================================
