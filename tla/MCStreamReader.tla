--------------------------- MODULE MCStreamReader ---------------------------
(***************************************************************************)
(* StreamReader for TLC.  Intervals shorter and longer than what is asked  *)
(* for, and Garbage that is 0, like an interval, or beyond all of them.    *)
(***************************************************************************)
EXTENDS StreamReader

MCIntervals == {2, 4}
MCGarbage == {0, 2, 9}
MCMetaSizes == {0, 1}
MCSizes == {1, 3}

=============================================================================
