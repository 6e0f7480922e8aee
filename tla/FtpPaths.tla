------------------------------ MODULE FtpPaths ------------------------------
(***************************************************************************)
(* The current directory of an FTP session, as mftpCommandCWD              *)
(* (Plugins/FSServer_FTPD/ftp.cpp) moves it.  A directory is the sequence  *)
(* of what stands between its slashes; "/" is the empty sequence.  No file *)
(* system is asked, so any name is gone into, and any directory is reached.*)
(*                                                                         *)
(* A path is whether it begins with a slash, and what stands between the   *)
(* others: at least one component, which is "" at a slash too many.        *)
(***************************************************************************)
EXTENDS Naturals, Sequences, FiniteSets, SequencesExt

CONSTANTS
    Names,       \* what directories are called
    MaxPath,     \* bound: components of a path
    MaxDepth     \* bound: components of the current directory

ASSUME FtpPathsAssumption ==
    Names \cap {"", ".", ".."} = {} /\ MaxPath \in Nat /\ MaxDepth \in Nat

Components == Names \cup {"", ".", ".."}

Paths == [absolute : BOOLEAN, components : UNION {[1..n -> Components] : n \in 1..MaxPath}]

(* What curDir may be: no slash at its end, but perhaps two in a row.      *)
Directories ==
    {dir \in UNION {[1..n -> Names \cup {""}] : n \in 0..MaxDepth} :
        dir # <<>> => Last(dir) # ""}

(* Mutant: the walk goes on at the root.                                   *)
WalkStepStays(at, c) ==
    CASE c = "."  -> at
      [] c = ".." -> [at EXCEPT !.dir = IF @ = <<>> THEN @ ELSE Front(@)]
      [] OTHER    -> [at EXCEPT !.dir = Append(@, c)]

(* ".." at the root leaves an empty string, and the loop.                  *)
WalkStep(at, c) ==
    IF at.stopped
      THEN at
      ELSE CASE c = "."                      -> at
             [] c = ".." /\ at.dir = <<>>    -> [at EXCEPT !.stopped = TRUE]
             [] c = ".." /\ at.dir # <<>>    -> [at EXCEPT !.dir = Front(@)]
             [] OTHER                        -> [at EXCEPT !.dir = Append(@, c)]

(* trimEndingChar, and a slash behind it.                                  *)
Trimmed(dir) ==
    LET last == {i \in DOMAIN dir : dir[i] # ""}
    IN  SubSeq(dir, 1, IF last = {} THEN 0 ELSE Max(last))

Start(dir, path) == IF path.absolute THEN <<>> ELSE dir

(* The loop over the components of the path.                               *)
Walk(from, components) ==
    LET at[n \in 0..Len(components)] ==
            IF n = 0
              THEN [dir |-> from, stopped |-> FALSE]
              ELSE WalkStep(at[n - 1], components[n])
    IN  at

Cwd(dir, path) ==
    Trimmed(Walk(Start(dir, path), path.components)[Len(path.components)].dir)

CDUP == [absolute |-> FALSE, components |-> <<"..">>]

-----------------------------------------------------------------------------
(* What a path means.  Every name goes down and every ".." up; a name      *)
(* stays unless a later step up takes it back.                             *)
IsName(c) == c \notin {".", ".."}

Downs(word, i, j) == Cardinality({k \in i..j : IsName(word[k])})
Ups(word, i, j)   == Cardinality({k \in i..j : word[k] = ".."})

(* Somewhere on the way there are more steps up than down.                 *)
LeavesRoot(word) == \E j \in DOMAIN word : Ups(word, 1, j) > Downs(word, 1, j)

Stays(word) ==
    {i \in DOMAIN word : \A j \in i..Len(word) : Downs(word, i, j) > Ups(word, i, j)}

Place(i, stays) == Cardinality({j \in stays : j <= i})

(* The names that stay, in their order.                                    *)
Meaning(word) ==
    [k \in 1..Cardinality(Stays(word)) |->
        word[CHOOSE i \in Stays(word) : Place(i, Stays(word)) = k]]

(* What CWD is for.  A path that leaves the root on its way ends at the    *)
(* root, and what follows is not looked at.                                *)
LeadsWhereItSays ==
    \A dir \in Directories, path \in Paths \cup {CDUP} :
        LET word == Start(dir, path) \o path.components
        IN  Cwd(dir, path) = IF LeavesRoot(word) THEN <<>> ELSE Trimmed(Meaning(word))

=============================================================================
