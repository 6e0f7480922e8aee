------------------------------ MODULE MCEventQ ------------------------------
(* An instance of EventQ for TLC: two sending threads, one receiver.       *)
EXTENDS EventQ, TLC

CONSTANTS s1, s2, r

MCSenders == {s1, s2}

(* One sender waits for answers, the handler of an event of the other may  *)
(* send to the queue itself, as happens in the queue of the decode thread. *)
MCKinds == s1 :> {"plain", "needok"} @@ s2 :> {"plain", "resend"}

=============================================================================
