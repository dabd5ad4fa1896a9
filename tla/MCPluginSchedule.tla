-------------------------- MODULE MCPluginSchedule --------------------------
(* Instances of PluginSchedule for TLC. *)
EXTENDS PluginSchedule

=============================================================================
