---------------------------- MODULE MCFtpServer ----------------------------
(***************************************************************************)
(* A session on four descriptors beside stdin, with ports that run over    *)
(* after two passive connections; and what its CWD does with two names.    *)
(***************************************************************************)
EXTENDS FtpServer, FtpPaths

(* Once the client has logged in, a path leads where it says, from any     *)
(* directory that CWD may have left it in, also when slashes, dots and     *)
(* steps beyond the root are mixed.                                        *)
CwdLeadsWhereItSays == userLoggedIn => LeadsWhereItSays

=============================================================================
