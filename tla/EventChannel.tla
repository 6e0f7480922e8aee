---------------------------- MODULE EventChannel ----------------------------
(***************************************************************************)
(* What the users of CPSPEventQ count on: a first-in first-out channel     *)
(* that gives its receiver every event.  The queue keeps to this as long   *)
(* as no push has met the pop of its only node; from then on events may    *)
(* get lost, but none is overtaken, taken out twice or made up.  EventQ is *)
(* shown to implement this module.                                         *)
(***************************************************************************)
EXTENDS Naturals, Sequences

CONSTANTS
    Threads,    \* who may send
    Kinds,      \* what kinds of events are sent
    NoEvent     \* what the receiver has before its first event

VARIABLES
    sent,       \* how many events of each thread have been sent
    queue,      \* sent, and neither received nor lost
    received,   \* the event received last
    got,        \* the number of the last event received from each thread
    broken      \* events may get lost

vars == <<sent, queue, received, got, broken>>

Init ==
    /\ sent = [t \in Threads |-> 0]
    /\ queue = <<>>
    /\ received = NoEvent
    /\ got = [t \in Threads |-> 0]
    /\ broken = FALSE

(* Thread t sends its next event.                                          *)
Send(t, k) ==
    /\ sent' = [sent EXCEPT ![t] = @ + 1]
    /\ queue' = Append(queue, [from |-> t, n |-> sent[t] + 1, kind |-> k])
    /\ UNCHANGED <<received, got, broken>>

Deliver ==
    /\ queue # <<>>
    /\ received' = Head(queue)
    /\ got' = [got EXCEPT ![Head(queue).from] = Head(queue).n]
    /\ queue' = Tail(queue)
    /\ UNCHANGED <<sent, broken>>

(* The event being sent is lost.                                           *)
LoseSent(t) ==
    /\ sent' = [sent EXCEPT ![t] = @ + 1]
    /\ broken' = TRUE
    /\ UNCHANGED <<queue, received, got>>

(* All that waits is lost.                                                 *)
LoseWaiting ==
    /\ queue' = <<>>
    /\ broken' = TRUE
    /\ UNCHANGED <<sent, received, got>>

Next ==
    \/ \E t \in Threads, k \in Kinds : Send(t, k)
    \/ Deliver
    \/ \E t \in Threads : LoseSent(t)
    \/ LoseWaiting

Spec == Init /\ [][Next]_vars

=============================================================================
