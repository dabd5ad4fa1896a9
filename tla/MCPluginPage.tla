---------------------------- MODULE MCPluginPage ----------------------------
(* Instances of PluginPage for TLC. *)
EXTENDS PluginPage

=============================================================================
