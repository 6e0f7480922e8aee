------------------------------- MODULE EventQ -------------------------------
(***************************************************************************)
(* CPSPEventQ (SharedLib/PSPApp/PSPEventQ.cpp): the queue through which    *)
(* PSPRadio's threads talk.  Any thread sends, one thread receives.  The   *)
(* receiver runs a handler for what it got; that handler may acknowledge   *)
(* the event (SendReceiveOK) or send to its own queue, as the decode       *)
(* thread and the main thread do.                                          *)
(*                                                                         *)
(* Senders hold m_lock, the receiver takes no lock at all, so push_back    *)
(* and pop_front of the same std::list overlap.  Each of the two is a load *)
(* of the neighbouring links followed by the stores.                       *)
(***************************************************************************)
EXTENDS Naturals, Sequences, FiniteSets

CONSTANTS
    Senders,    \* threads that call Send or SendAndWaitForOK
    Receiver,   \* the one thread that calls Receive
    KindsOf,    \* the kinds of events each sender sends, out of AllKinds
    MaxSends,   \* bound: sends per sender
    MaxResends, \* bound: sends by the receiver's handlers
    NoEvent     \* the receiver's event before the first Receive: {0, 0, NULL}

(* "plain":  the handler touches the queue no more.                        *)
(* "needok": sent with SendAndWaitForOK, the handler calls SendReceiveOK.  *)
(* "resend": the handler sends a plain event to its own queue.             *)
AllKinds == {"plain", "needok", "resend"}

ASSUME EventQAssumption ==
    /\ Receiver \notin Senders
    /\ KindsOf \in [Senders -> SUBSET AllKinds]
    /\ MaxSends \in Nat
    /\ MaxResends \in Nat

Threads == Senders \cup {Receiver}

(* An event is identified by its sender and the sender's count.            *)
Event == [from : Threads, n : Nat \ {0}, kind : AllKinds]

ASSUME NoEventAssumption == NoEvent \notin Event

VARIABLES
    m_EventList,    \* what begin()..end() of the list reaches
    severed,        \* the list's first link no longer leads to its last node
    m_lock,         \* CLock: count of a semaphore, 1 is free
    m_RcvBlocker,   \* CBlocker: 0 or 1
    m_RcvOKBlocker, \* CBlocker: 0 or 1
    pc,             \* where each thread is
    sending,        \* the event each thread is sending
    tailSeen,       \* push_back's load: the last node, NoEvent for the anchor
    nextSeen,       \* pop_front's load: the node after the first, or NoEvent
    event,          \* the receiver's local event, reused by every Receive
    count,          \* history: how many events each thread has linked or begun
    got,            \* history: count of the last event received from each thread
    raced           \* history: a push and a pop of the same single node met

lists == <<m_EventList, severed, tailSeen, nextSeen, raced>>
semas == <<m_lock, m_RcvBlocker, m_RcvOKBlocker>>
vars  == <<lists, semas, pc, sending, event, count, got>>

Labels == {"idle", "lock", "push", "hook", "unblock", "waitok", "unlock",
           "block", "test", "pop", "unhook", "again", "handle"}

-----------------------------------------------------------------------------
Init ==
    /\ m_EventList = <<>>
    /\ severed = FALSE
    /\ m_lock = 1
    /\ m_RcvBlocker = 0
    /\ m_RcvOKBlocker = 0
    /\ pc = [t \in Threads |-> IF t = Receiver THEN "block" ELSE "idle"]
    /\ sending = [t \in Threads |-> NoEvent]
    /\ tailSeen = NoEvent
    /\ nextSeen = NoEvent
    /\ event = NoEvent
    /\ count = [t \in Threads |-> 0]
    /\ got = [t \in Threads |-> 0]
    /\ raced = FALSE

Go(t, from, to) == pc[t] = from /\ pc' = [pc EXCEPT ![t] = to]

(* sceKernelSignalSema on a CBlocker: above the maximum count of 1 the     *)
(* kernel refuses and the count stays.                                     *)
UnBlocked == 1

(* A thread starts a send of its next event.                               *)
NewSend(t, k) ==
    /\ count' = [count EXCEPT ![t] = @ + 1]
    /\ sending' = [sending EXCEPT ![t] =
                       [from |-> t, n |-> count[t] + 1, kind |-> k]]

CallSend(t, k) ==
    /\ count[t] < MaxSends
    /\ Go(t, "idle", "lock")
    /\ NewSend(t, k)
    /\ UNCHANGED <<lists, semas, event, got>>

Lock(t) ==
    /\ m_lock > 0
    /\ m_lock' = m_lock - 1
    /\ Go(t, "lock", "push")
    /\ UNCHANGED <<lists, m_RcvBlocker, m_RcvOKBlocker, sending, event, count, got>>

(* push_back, first half: the new node is linked to the present last node. *)
PushBegin(t) ==
    /\ Go(t, "push", "hook")
    /\ tailSeen' = IF m_EventList = <<>> THEN NoEvent
                   ELSE m_EventList[Len(m_EventList)]
    /\ UNCHANGED <<m_EventList, severed, nextSeen, raced, semas, sending, event,
                   count, got>>

TailIsLinked == m_EventList # <<>> /\ m_EventList[Len(m_EventList)] = tailSeen

(* Mutant: push_front.                                                     *)
PushFront(t) ==
    /\ Go(t, "hook", "unblock")
    /\ m_EventList' = <<sending[t]>> \o m_EventList
    /\ UNCHANGED <<severed, raced, tailSeen, nextSeen, semas, sending, event, count, got>>

(* push_back, second half: the node seen as last and the list's anchor are *)
(* pointed at the new node.  If the receiver has freed the node seen as    *)
(* last, only the anchor's backward link leads to the new node, and to all *)
(* the nodes pushed after it: size() and begin() find nothing any more.    *)
PushEnd(t) ==
    /\ Go(t, "hook", "unblock")
    /\ IF severed
       THEN UNCHANGED <<m_EventList, severed, raced>>
       ELSE IF tailSeen = NoEvent \/ TailIsLinked
       THEN /\ m_EventList' = Append(m_EventList, sending[t])
            /\ UNCHANGED <<severed, raced>>
       ELSE /\ severed' = TRUE
            /\ raced' = TRUE
            /\ UNCHANGED m_EventList
    /\ UNCHANGED <<tailSeen, nextSeen, semas, sending, event, count, got>>

UnBlock(t) ==
    /\ Go(t, "unblock", IF sending[t].kind = "needok" THEN "waitok" ELSE "unlock")
    /\ m_RcvBlocker' = UnBlocked
    /\ UNCHANGED <<lists, m_lock, m_RcvOKBlocker, sending, event, count, got>>

(* SendAndWaitForOK waits for its answer with m_lock held.                 *)
WaitOK(t) ==
    /\ m_RcvOKBlocker > 0
    /\ m_RcvOKBlocker' = m_RcvOKBlocker - 1
    /\ Go(t, "waitok", "unlock")
    /\ UNCHANGED <<lists, m_lock, m_RcvBlocker, sending, event, count, got>>

Unlock(t) ==
    /\ Go(t, "unlock", IF t = Receiver THEN "block" ELSE "idle")
    /\ m_lock' = m_lock + 1
    /\ UNCHANGED <<lists, m_RcvBlocker, m_RcvOKBlocker, sending, event, count, got>>

-----------------------------------------------------------------------------
(* Receive, from its Block to its return.                                  *)

Block ==
    /\ m_RcvBlocker > 0
    /\ m_RcvBlocker' = m_RcvBlocker - 1
    /\ Go(Receiver, "block", "test")
    /\ UNCHANGED <<lists, m_lock, m_RcvOKBlocker, sending, event, count, got>>

(* Mutant: off by one, Size() > 1.                                         *)
TestForTwo ==
    /\ Go(Receiver, "test", IF Len(m_EventList) > 1 THEN "pop" ELSE "again")
    /\ UNCHANGED <<lists, semas, sending, event, count, got>>

(* With nothing in the list the event of the previous Receive is returned  *)
(* once more.                                                              *)
Test ==
    /\ Go(Receiver, "test", IF m_EventList # <<>> THEN "pop" ELSE "again")
    /\ UNCHANGED <<lists, semas, sending, event, count, got>>

(* front() and the first half of pop_front.                                *)
PopBegin ==
    /\ Go(Receiver, "pop", "unhook")
    /\ event' = Head(m_EventList)
    /\ got' = [got EXCEPT ![Head(m_EventList).from] = Head(m_EventList).n]
    /\ nextSeen' = IF Len(m_EventList) = 1 THEN NoEvent ELSE m_EventList[2]
    /\ UNCHANGED <<m_EventList, severed, tailSeen, raced, semas, sending, count>>

(* Mutant: clear() in place of pop_front().                                *)
PopAll ==
    /\ Go(Receiver, "unhook", "again")
    /\ m_EventList' = <<>>
    /\ UNCHANGED <<raced, severed, tailSeen, nextSeen, semas, sending, event, count, got>>

(* The second half: the anchor is linked to the node seen as the next one. *)
(* A node hooked since then behind a single node is unlinked with it.      *)
PopEnd ==
    /\ Go(Receiver, "unhook", "again")
    /\ m_EventList' = IF nextSeen = NoEvent THEN <<>> ELSE Tail(m_EventList)
    /\ raced' = (raced \/ (nextSeen = NoEvent /\ Len(m_EventList) > 1))
    /\ UNCHANGED <<severed, tailSeen, nextSeen, semas, sending, event, count, got>>

(* Mutant: the receiver does not tell itself of what is left.              *)
NotAgain ==
    /\ Go(Receiver, "again", "handle")
    /\ UNCHANGED <<lists, semas, sending, event, count, got>>

(* The test and the signal after it are one step: between them other       *)
(* threads can only add to the list and raise the same signal.             *)
Again ==
    /\ Go(Receiver, "again", "handle")
    /\ m_RcvBlocker' = IF m_EventList # <<>> THEN UnBlocked ELSE m_RcvBlocker
    /\ UNCHANGED <<lists, m_lock, m_RcvOKBlocker, sending, event, count, got>>

(* What the handlers of the receiving threads do to their own queue.       *)
IsKind(e, k) == e # NoEvent /\ e.kind = k

HandlePlain ==
    /\ ~IsKind(event, "needok")
    /\ ~IsKind(event, "resend")
    /\ Go(Receiver, "handle", "block")
    /\ UNCHANGED <<lists, semas, sending, event, count, got>>

(* Mutant: a handler that forgets its answer.                              *)
SendNoOK ==
    /\ IsKind(event, "needok")
    /\ Go(Receiver, "handle", "block")
    /\ UNCHANGED <<lists, semas, sending, event, count, got>>

SendReceiveOK ==
    /\ IsKind(event, "needok")
    /\ Go(Receiver, "handle", "block")
    /\ m_RcvOKBlocker' = UnBlocked
    /\ UNCHANGED <<lists, m_lock, m_RcvBlocker, sending, event, count, got>>

Resend ==
    /\ IsKind(event, "resend")
    /\ count[Receiver] < MaxResends
    /\ Go(Receiver, "handle", "lock")
    /\ NewSend(Receiver, "plain")
    /\ UNCHANGED <<lists, semas, event, got>>

-----------------------------------------------------------------------------
SendStep(t) ==
    \/ Lock(t) \/ PushBegin(t) \/ PushEnd(t) \/ UnBlock(t) \/ WaitOK(t) \/ Unlock(t)

ReceiveStep ==
    \/ Block \/ Test \/ PopBegin \/ PopEnd \/ Again
    \/ HandlePlain \/ SendReceiveOK \/ Resend

Next ==
    \/ \E t \in Senders : \E k \in KindsOf[t] : CallSend(t, k)
    \/ \E t \in Threads : SendStep(t)
    \/ ReceiveStep

Spec == Init /\ [][Next]_vars

(* Every thread that is ready to run is run in the end: each of them waits *)
(* on a semaphore sooner or later, whatever its priority, and the kernel   *)
(* wakes the waiters of a semaphore in their order (attribute 0 is FIFO).  *)
(* Nothing obliges a thread to start a send.                               *)
Fairness ==
    /\ \A t \in Threads : WF_vars(SendStep(t)) /\ SF_vars(Lock(t))
    /\ WF_vars(ReceiveStep)

FairSpec == Spec /\ Fairness

-----------------------------------------------------------------------------
(* Every variable keeps its type: the semaphores never exceed 1, and the   *)
(* list holds events of the threads only.                                  *)
TypeOK ==
    /\ m_EventList \in Seq(Event)
    /\ severed \in BOOLEAN
    /\ raced \in BOOLEAN
    /\ m_lock \in 0..1
    /\ m_RcvBlocker \in 0..1
    /\ m_RcvOKBlocker \in 0..1
    /\ pc \in [Threads -> Labels]
    /\ sending \in [Threads -> Event \cup {NoEvent}]
    /\ tailSeen \in Event \cup {NoEvent}
    /\ nextSeen \in Event \cup {NoEvent}
    /\ event \in Event \cup {NoEvent}
    /\ count \in [Threads -> Nat]
    /\ got \in [Threads -> Nat]

(* Threads inside Send or SendAndWaitForOK, between Lock and Unlock.       *)
Holding == {"push", "hook", "unblock", "waitok", "unlock"}

(* At most one thread is between Lock and Unlock, and the lock is taken    *)
(* exactly then: also while SendAndWaitForOK sleeps, and when a handler of *)
(* the receiver sends.                                                     *)
OneSender ==
    /\ \A t, u \in Threads :
           pc[t] \in Holding /\ pc[u] \in Holding => t = u
    /\ m_lock = 0 <=> \E t \in Threads : pc[t] \in Holding

(* The receiver never sleeps on a list that holds an event: either it is   *)
(* told to wake, or it is already awake in Receive with its own test of    *)
(* the size to come, or the sender has its UnBlock still to do.  While the *)
(* handler runs the signal must already be raised (comment in Receive:     *)
(* "if there's more messages waiting, we need to tell it to unblock now"). *)
NoLostWakeup ==
    m_EventList # <<>> =>
        \/ m_RcvBlocker = 1
        \/ pc[Receiver] \in {"test", "pop", "unhook", "again"}
        \/ \E t \in Threads : pc[t] = "unblock"

(* Not received yet: what the list holds, but for the node being unhooked. *)
Waiting ==
    IF pc[Receiver] = "unhook" THEN Tail(m_EventList) ELSE m_EventList

(* Whatever push and pop do to each other, the events of one sender are    *)
(* received in the order they were sent, and none twice out of the list.   *)
InOrder ==
    \A i \in DOMAIN Waiting :
        /\ Waiting[i].n > got[Waiting[i].from]
        /\ \A j \in 1..i-1 :
               Waiting[j].from = Waiting[i].from => Waiting[j].n < Waiting[i].n

(* Is the event thread t has begun last still outside the list?            *)
NotPushedYet(t) == pc[t] \in {"lock", "push", "hook"}

(* Unless a push met the pop of a list's only node, every event sent is in *)
(* the list or has been received.                                          *)
NothingLost ==
    raced \/
    \A t \in Threads : \A n \in 1..count[t] :
        \/ n <= got[t]
        \/ \E i \in DOMAIN m_EventList : m_EventList[i].from = t /\ m_EventList[i].n = n
        \/ NotPushedYet(t) /\ n = count[t]

(* A handler sends to the queue it serves while a sender sleeps with the   *)
(* queue's lock until that handler's thread answers.                       *)
Deadlocked ==
    pc[Receiver] = "lock" /\ \E t \in Senders : pc[t] = "waitok"

(* An event once begun is received in the end, unless such a push and pop  *)
(* met: no wake-up is lost and the lock comes free.  The one thing that    *)
(* can keep the lock is a handler that sends to its own queue.             *)
Received ==
    \A t \in Threads : \A n \in 1..MaxSends :
        count[t] >= n ~> got[t] >= n \/ raced \/ Deadlocked

(* SendAndWaitForOK returns to its caller, with the same two exceptions.   *)
OKReturns ==
    \A t \in Senders : pc[t] = "waitok" ~> pc[t] # "waitok" \/ raced \/ Deadlocked

-----------------------------------------------------------------------------
(* EventQ implements EventChannel.  An event is sent when push_back hooks  *)
(* it, and received when pop_front begins; PushEnd of a severed list loses *)
(* the event, and PopEnd may lose those hooked behind the node it unhooks. *)
(* Receive that returns the previous event again is no step of the channel.*)
Sent == [t \in Threads |-> IF NotPushedYet(t) THEN count[t] - 1 ELSE count[t]]

Channel == INSTANCE EventChannel
    WITH Kinds <- AllKinds, sent <- Sent, queue <- Waiting, received <- event,
         broken <- raced

(* Whatever list operations overlap, what the threads see is a FIFO that   *)
(* breaks, if at all, when a push meets the pop of the only node.          *)
ImplementsChannel == Channel!Spec

=============================================================================
