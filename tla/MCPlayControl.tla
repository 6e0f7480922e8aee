---------------------------- MODULE MCPlayControl ----------------------------
(* An instance of PlayControl for TLC: a file and a URL.                   *)
EXTENDS PlayControl

MCTracks == {"a", "u"}
MCFiles == {"a"}

(* No list at all, two of which the second is empty, and one.              *)
MCLibrary == {<<>>, << <<"a", "u">>, <<>> >>, << <<"u">> >>}

=============================================================================
