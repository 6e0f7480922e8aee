---------------------------- MODULE MCWindowHandler ----------------------------
(* One screen with two sides and the options; boxes that appear and go in  *)
(* two pictures.                                                           *)
EXTENDS WindowHandler

===============================================================================
