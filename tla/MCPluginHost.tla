---------------------------- MODULE MCPluginHost ----------------------------
(***************************************************************************)
(* PluginHost for TLC: three loads in all, the first UI among them, so     *)
(* that there are two switches, or a switch and a plugin, or two plugins;  *)
(* and a short queue, which Run may fill by several events in a pass.      *)
(***************************************************************************)
EXTENDS PluginHost

=============================================================================
