----------------------------- MODULE MCHttpOpen -----------------------------
(***************************************************************************)
(* HttpOpen for TLC: three connections are allowed in a call, and the      *)
(* fourth descriptor tells the limit on them from their running out.       *)
(***************************************************************************)
EXTENDS HttpOpen

MCSockets == 0..3
MCNoFD == -1

=============================================================================
