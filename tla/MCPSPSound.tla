----------------------------- MODULE MCPSPSound -----------------------------
(* Instances of PSPSound for TLC.                                          *)
EXTENDS PSPSound

MCTypes == {"file", "url"}

FilesOnly == {"file"}

=============================================================================
