---------------------------- MODULE SoundObject ----------------------------
(***************************************************************************)
(* What the callers of CPSPSound count on: work, which is opening a stream *)
(* or decoding it, begins only when it was asked for; and Stop is final.   *)
(* From when it is called until it returns nothing is asked for, and it    *)
(* returns when nothing is left of what was asked for before.  That it     *)
(* returns is not promised.  PSPSound and PlayControl, which see the sound *)
(* object from its threads and from the handlers of the program, are shown *)
(* to implement this module.                                               *)
(***************************************************************************)
CONSTANTS
    Callers,    \* threads that may call Stop
    Nobody

VARIABLES
    asked,      \* a START or a DECODE is yet to be received
    working,    \* a stream is being opened or decoded
    stopping,   \* who has called Stop, or Nobody
    answered    \* this Stop has its answer

vars == <<asked, working, stopping, answered>>

Init ==
    /\ asked = FALSE
    /\ working = FALSE
    /\ stopping = Nobody
    /\ answered = FALSE

(* Play, from STOP or from PAUSE.                                          *)
Ask ==
    /\ stopping = Nobody
    /\ asked' = TRUE
    /\ UNCHANGED <<working, stopping, answered>>

(* Of several requests one is taken at a time.                             *)
Begin ==
    /\ asked /\ ~working
    /\ working' = TRUE
    /\ asked' \in BOOLEAN
    /\ UNCHANGED <<stopping, answered>>

(* An error, the end of the stream, or another event that waits.           *)
End ==
    /\ working
    /\ working' = FALSE
    /\ UNCHANGED <<asked, stopping, answered>>

(* The decode thread asks itself for what comes next.                      *)
AskItself ==
    /\ working
    /\ stopping = Nobody
    /\ working' = FALSE
    /\ asked' = TRUE
    /\ UNCHANGED <<stopping, answered>>

Stop(c) ==
    /\ stopping = Nobody
    /\ stopping' = c
    /\ UNCHANGED <<asked, working, answered>>

Answer ==
    /\ stopping # Nobody /\ ~answered
    /\ ~asked /\ ~working
    /\ answered' = TRUE
    /\ UNCHANGED <<asked, working, stopping>>

Return ==
    /\ answered
    /\ answered' = FALSE
    /\ stopping' = Nobody
    /\ UNCHANGED <<asked, working>>

Next == Ask \/ Begin \/ End \/ AskItself \/ (\E c \in Callers : Stop(c)) \/ Answer \/ Return

Spec == Init /\ [][Next]_vars

=============================================================================
