------------------------------- MODULE MCKeys -------------------------------
(* Two buttons, which are the combination too, and one that never repeats. *)
EXTENDS Keys

==============================================================================
