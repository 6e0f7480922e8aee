---------------------------- MODULE EventQProofs ----------------------------
(***************************************************************************)
(* Proofs about CPSPEventQ for any number of threads, sends and kinds of   *)
(* events: its variables keep their types, one thread at a time is in Send *)
(* or SendAndWaitForOK, no wake-up of the receiver is lost, although       *)
(* Receive takes no lock, and the queue implements EventChannel: events    *)
(* come in order, and all of them until a push has met the pop of the only *)
(* node.                                                                   *)
(***************************************************************************)
EXTENDS EventQ, TLAPS

(* A thread that is sending has an event to send.                          *)
SendingInv ==
    \A t \in Threads : pc[t] \in Holding \cup {"lock"} => sending[t] \in Event

(* Between its test of the size and the end of its pop the receiver alone  *)
(* takes nodes from the list, so that the list stays non-empty.            *)
PopInv == pc[Receiver] \in {"pop", "unhook"} => m_EventList # <<>>

(* TypeOK alone is not inductive: that m_lock stays below 2 needs          *)
(* OneSender, that the list holds events needs SendingInv and PopInv.      *)
IInv == TypeOK /\ OneSender /\ SendingInv /\ PopInv /\ NoLostWakeup

(* The event a new send makes is an event.                                 *)
LEMMA NewEventType ==
    ASSUME NEW t \in Threads, NEW k \in AllKinds, NEW c \in Nat
    PROVE  [from |-> t, n |-> c + 1, kind |-> k] \in Event
BY DEF Event

(* The second element of a sequence that has one.                          *)
LEMMA SecondType ==
    ASSUME NEW S, NEW s \in Seq(S), s # <<>>, Len(s) # 1
    PROVE  s[2] \in S
<1>1. Len(s) \in Nat /\ Len(s) # 0
    OBVIOUS
<1>2. \A n \in Nat : n # 0 /\ n # 1 => 2 \in 1..n
    OBVIOUS
<1>3. 2 \in 1..Len(s)
    BY <1>1, <1>2, Zenon
<1> QED
    BY <1>3

(* The initial state satisfies the invariant.                              *)
LEMMA InitIInv == Init => IInv
<1> SUFFICES ASSUME Init PROVE IInv
    OBVIOUS
<1>1. TypeOK
  <2>1. m_EventList \in Seq(Event)
    BY DEF Init
  <2>2. pc \in [Threads -> Labels]
    BY DEF Init, Labels
  <2>3. m_lock \in 0..1 /\ m_RcvBlocker \in 0..1 /\ m_RcvOKBlocker \in 0..1
    BY DEF Init
  <2>4. /\ sending \in [Threads -> Event \cup {NoEvent}]
        /\ count \in [Threads -> Nat] /\ got \in [Threads -> Nat]
    BY DEF Init
  <2> QED
    BY <2>1, <2>2, <2>3, <2>4 DEF Init, TypeOK
<1>2. \A t \in Threads : pc[t] \notin Holding \cup {"lock"}
    BY DEF Init, Holding
<1>3. OneSender /\ SendingInv
    BY <1>2 DEF Init, OneSender, SendingInv
<1>4. PopInv /\ NoLostWakeup
    BY DEF Init, PopInv, NoLostWakeup, Threads
<1> QED
    BY <1>1, <1>3, <1>4 DEF IInv

(* A step that leaves every variable alone keeps the invariant.            *)
LEMMA StutterIInv == IInv /\ UNCHANGED vars => IInv'
BY DEF IInv, TypeOK, OneSender, SendingInv, PopInv, NoLostWakeup, vars, lists, semas

-----------------------------------------------------------------------------
(* One lemma per action: it keeps the invariant.  DEFS of each are those   *)
(* of the conjunct proved and of the action.                               *)

LEMMA CallSendIInv ==
    ASSUME IInv, NEW t \in Senders, NEW k \in KindsOf[t], CallSend(t, k)
    PROVE  IInv'
<1> t \in Threads /\ k \in AllKinds
    BY EventQAssumption DEF Threads
<1> USE DEF IInv, CallSend, Go, NewSend, lists, semas
<1>1. [from |-> t, n |-> count[t] + 1, kind |-> k] \in Event
    BY NewEventType DEF TypeOK
<1>2. TypeOK'
    BY <1>1 DEF TypeOK, Labels
<1>3. OneSender'
    BY DEF TypeOK, OneSender, Holding
<1>4. SendingInv'
    BY <1>1 DEF TypeOK, SendingInv, Holding
<1>5. PopInv'
    BY DEF TypeOK, PopInv
<1>6. NoLostWakeup'
    BY EventQAssumption DEF TypeOK, NoLostWakeup, Threads
<1> QED
    BY <1>2, <1>3, <1>4, <1>5, <1>6

LEMMA LockIInv ==
    ASSUME IInv, NEW t \in Threads, Lock(t)
    PROVE  IInv'
<1> USE DEF IInv, Lock, Go, lists
<1>1. TypeOK'
    BY DEF TypeOK, Labels
<1>2. OneSender'
    BY DEF TypeOK, OneSender, Holding
<1>3. SendingInv'
    BY DEF TypeOK, SendingInv, Holding
<1>4. PopInv'
    BY DEF TypeOK, PopInv
<1>5. NoLostWakeup'
    BY DEF TypeOK, NoLostWakeup, Threads
<1> QED
    BY <1>1, <1>2, <1>3, <1>4, <1>5

LEMMA PushBeginIInv ==
    ASSUME IInv, NEW t \in Threads, PushBegin(t)
    PROVE  IInv'
<1> USE DEF IInv, PushBegin, Go, semas
<1>1. TypeOK'
    BY DEF TypeOK, Labels
<1>2. OneSender'
    BY DEF TypeOK, OneSender, Holding
<1>3. SendingInv'
    BY DEF TypeOK, SendingInv, Holding
<1>4. PopInv'
    BY DEF TypeOK, PopInv
<1>5. NoLostWakeup'
    BY DEF TypeOK, NoLostWakeup, Threads
<1> QED
    BY <1>1, <1>2, <1>3, <1>4, <1>5

LEMMA PushEndIInv ==
    ASSUME IInv, NEW t \in Threads, PushEnd(t)
    PROVE  IInv'
<1> USE DEF IInv, PushEnd, Go, semas
<1>1. m_EventList' = m_EventList \/ m_EventList' = Append(m_EventList, sending[t])
    OBVIOUS
<1>2. sending[t] \in Event
    BY DEF SendingInv, Holding
<1>3. m_EventList' \in Seq(Event) /\ (m_EventList # <<>> => m_EventList' # <<>>)
  <2>1. m_EventList \in Seq(Event)
    BY DEF TypeOK
  <2>2. /\ Append(m_EventList, sending[t]) \in Seq(Event)
        /\ Append(m_EventList, sending[t]) # <<>>
    BY ONLY <2>1, <1>2
  <2> QED
    BY <1>1, <2>1, <2>2
<1>4. TypeOK'
    BY <1>3 DEF TypeOK, Labels
<1>5. OneSender'
    BY DEF TypeOK, OneSender, Holding
<1>6. SendingInv'
    BY DEF TypeOK, SendingInv, Holding
<1>7. PopInv'
    BY <1>3 DEF TypeOK, PopInv
<1>8. NoLostWakeup'
    BY DEF TypeOK, NoLostWakeup
<1> QED
    BY <1>4, <1>5, <1>6, <1>7, <1>8

LEMMA UnBlockIInv ==
    ASSUME IInv, NEW t \in Threads, UnBlock(t)
    PROVE  IInv'
<1> USE DEF IInv, UnBlock, Go, lists, UnBlocked
<1>1. TypeOK'
    BY DEF TypeOK, Labels
<1>2. OneSender'
    BY DEF TypeOK, OneSender, Holding
<1>3. SendingInv'
    BY DEF TypeOK, SendingInv, Holding
<1>4. PopInv'
    BY DEF TypeOK, PopInv
<1>5. NoLostWakeup'
    BY DEF TypeOK, NoLostWakeup, Threads
<1> QED
    BY <1>1, <1>2, <1>3, <1>4, <1>5

LEMMA WaitOKIInv ==
    ASSUME IInv, NEW t \in Threads, WaitOK(t)
    PROVE  IInv'
<1> USE DEF IInv, WaitOK, Go, lists
<1>1. TypeOK'
    BY DEF TypeOK, Labels
<1>2. OneSender'
    BY DEF TypeOK, OneSender, Holding
<1>3. SendingInv'
    BY DEF TypeOK, SendingInv, Holding
<1>4. PopInv'
    BY DEF TypeOK, PopInv
<1>5. NoLostWakeup'
    BY DEF TypeOK, NoLostWakeup, Threads
<1> QED
    BY <1>1, <1>2, <1>3, <1>4, <1>5

LEMMA UnlockIInv ==
    ASSUME IInv, NEW t \in Threads, Unlock(t)
    PROVE  IInv'
<1> USE DEF IInv, Unlock, Go, lists
<1>1. m_lock' \in 0..1
    BY DEF TypeOK, OneSender, Holding
<1>2. TypeOK'
    BY <1>1 DEF TypeOK, Labels
<1>3. OneSender'
    BY DEF TypeOK, OneSender, Holding
<1>4. SendingInv'
    BY DEF TypeOK, SendingInv, Holding
<1>5. PopInv'
    BY DEF TypeOK, PopInv
<1>6. NoLostWakeup'
    BY DEF TypeOK, NoLostWakeup, Threads
<1> QED
    BY <1>2, <1>3, <1>4, <1>5, <1>6

(* The steps of Receive and of the handlers.                               *)
LEMMA ReceiverIsAThread == Receiver \in Threads
BY DEF Threads

LEMMA BlockIInv ==
    ASSUME IInv, Block
    PROVE  IInv'
<1> USE DEF IInv, Block, Go, lists
<1>1. Receiver \in Threads
    BY ReceiverIsAThread
<1>2. TypeOK'
    BY <1>1 DEF TypeOK, Labels
<1>3. OneSender'
    BY <1>1 DEF TypeOK, OneSender, Holding
<1>4. SendingInv'
    BY <1>1 DEF TypeOK, SendingInv, Holding
<1>5. PopInv'
    BY <1>1 DEF TypeOK, PopInv
<1>6. NoLostWakeup'
    BY <1>1 DEF TypeOK, NoLostWakeup
<1> QED
    BY <1>2, <1>3, <1>4, <1>5, <1>6

LEMMA TestIInv ==
    ASSUME IInv, Test
    PROVE  IInv'
<1> USE DEF IInv, Test, Go, lists, semas
<1>1. Receiver \in Threads
    BY ReceiverIsAThread
<1>2. TypeOK'
    BY <1>1 DEF TypeOK, Labels
<1>3. OneSender'
    BY <1>1 DEF TypeOK, OneSender, Holding
<1>4. SendingInv'
    BY <1>1 DEF TypeOK, SendingInv, Holding
<1>5. PopInv'
    BY <1>1 DEF TypeOK, PopInv
<1>6. NoLostWakeup'
    BY <1>1 DEF TypeOK, NoLostWakeup
<1> QED
    BY <1>2, <1>3, <1>4, <1>5, <1>6

LEMMA PopBeginIInv ==
    ASSUME IInv, PopBegin
    PROVE  IInv'
<1> USE DEF IInv, PopBegin, Go, semas
<1>1. Receiver \in Threads
    BY ReceiverIsAThread
<1>2. /\ Head(m_EventList) \in Event
      /\ nextSeen' \in Event \cup {NoEvent}
      /\ got' \in [Threads -> Nat]
  <2>1. m_EventList \in Seq(Event) /\ m_EventList # <<>>
    BY DEF TypeOK, PopInv
  <2>2. Head(m_EventList) \in Event /\ Len(m_EventList) \in Nat /\ Len(m_EventList) > 0
    BY ONLY <2>1
  <2>3. Len(m_EventList) # 1 => m_EventList[2] \in Event
    BY <2>1, SecondType
  <2>4. Head(m_EventList).n \in Nat
    BY <2>2 DEF Event
  <2> QED
    BY <2>2, <2>3, <2>4 DEF TypeOK
<1>3. TypeOK'
    BY <1>1, <1>2 DEF TypeOK, Labels
<1>4. OneSender'
    BY <1>1 DEF TypeOK, OneSender, Holding
<1>5. SendingInv'
    BY <1>1 DEF TypeOK, SendingInv, Holding
<1>6. PopInv'
    BY <1>1 DEF TypeOK, PopInv
<1>7. NoLostWakeup'
    BY <1>1 DEF TypeOK, NoLostWakeup
<1> QED
    BY <1>3, <1>4, <1>5, <1>6, <1>7

LEMMA PopEndIInv ==
    ASSUME IInv, PopEnd
    PROVE  IInv'
<1> USE DEF IInv, PopEnd, Go, semas
<1>1. Receiver \in Threads
    BY ReceiverIsAThread
<1>2. m_EventList' \in Seq(Event)
  <2>1. m_EventList \in Seq(Event) /\ m_EventList # <<>>
    BY DEF TypeOK, PopInv
  <2>2. Tail(m_EventList) \in Seq(Event) /\ <<>> \in Seq(Event)
    BY ONLY <2>1
  <2> QED
    BY <2>2
<1>3. TypeOK'
    BY <1>1, <1>2 DEF TypeOK, Labels
<1>4. OneSender'
    BY <1>1 DEF TypeOK, OneSender, Holding
<1>5. SendingInv'
    BY <1>1 DEF TypeOK, SendingInv, Holding
<1>6. PopInv'
    BY <1>1 DEF TypeOK, PopInv
<1>7. NoLostWakeup'
    BY <1>1 DEF TypeOK, NoLostWakeup
<1> QED
    BY <1>3, <1>4, <1>5, <1>6, <1>7

LEMMA AgainIInv ==
    ASSUME IInv, Again
    PROVE  IInv'
<1> USE DEF IInv, Again, Go, lists, UnBlocked
<1>1. Receiver \in Threads
    BY ReceiverIsAThread
<1>2. TypeOK'
    BY <1>1 DEF TypeOK, Labels
<1>3. OneSender'
    BY <1>1 DEF TypeOK, OneSender, Holding
<1>4. SendingInv'
    BY <1>1 DEF TypeOK, SendingInv, Holding
<1>5. PopInv'
    BY <1>1 DEF TypeOK, PopInv
<1>6. NoLostWakeup'
    BY <1>1 DEF TypeOK, NoLostWakeup
<1> QED
    BY <1>2, <1>3, <1>4, <1>5, <1>6

LEMMA HandlePlainIInv ==
    ASSUME IInv, HandlePlain
    PROVE  IInv'
<1> USE DEF IInv, HandlePlain, Go, lists, semas
<1>1. Receiver \in Threads
    BY ReceiverIsAThread
<1>2. TypeOK'
    BY <1>1 DEF TypeOK, Labels
<1>3. OneSender'
    BY <1>1 DEF TypeOK, OneSender, Holding
<1>4. SendingInv'
    BY <1>1 DEF TypeOK, SendingInv, Holding
<1>5. PopInv'
    BY <1>1 DEF TypeOK, PopInv
<1>6. NoLostWakeup'
    BY <1>1 DEF TypeOK, NoLostWakeup
<1> QED
    BY <1>2, <1>3, <1>4, <1>5, <1>6

LEMMA SendReceiveOKIInv ==
    ASSUME IInv, SendReceiveOK
    PROVE  IInv'
<1> USE DEF IInv, SendReceiveOK, Go, lists, UnBlocked
<1>1. Receiver \in Threads
    BY ReceiverIsAThread
<1>2. TypeOK'
    BY <1>1 DEF TypeOK, Labels
<1>3. OneSender'
    BY <1>1 DEF TypeOK, OneSender, Holding
<1>4. SendingInv'
    BY <1>1 DEF TypeOK, SendingInv, Holding
<1>5. PopInv'
    BY <1>1 DEF TypeOK, PopInv
<1>6. NoLostWakeup'
    BY <1>1 DEF TypeOK, NoLostWakeup
<1> QED
    BY <1>2, <1>3, <1>4, <1>5, <1>6

LEMMA ResendIInv ==
    ASSUME IInv, Resend
    PROVE  IInv'
<1> USE DEF IInv, Resend, Go, lists, semas, NewSend
<1>1. Receiver \in Threads
    BY ReceiverIsAThread
<1>2. [from |-> Receiver, n |-> count[Receiver] + 1, kind |-> "plain"] \in Event
    BY <1>1, NewEventType DEF TypeOK, AllKinds
<1>3. TypeOK'
    BY <1>1, <1>2 DEF TypeOK, Labels
<1>4. OneSender'
    BY <1>1 DEF TypeOK, OneSender, Holding
<1>5. SendingInv'
    BY <1>1, <1>2 DEF TypeOK, SendingInv, Holding
<1>6. PopInv'
    BY <1>1 DEF TypeOK, PopInv
<1>7. NoLostWakeup'
    BY <1>1 DEF TypeOK, NoLostWakeup
<1> QED
    BY <1>3, <1>4, <1>5, <1>6, <1>7

-----------------------------------------------------------------------------
(* Every step keeps the invariant.                                         *)
LEMMA NextIInv == IInv /\ [Next]_vars => IInv'
<1> SUFFICES ASSUME IInv, [Next]_vars PROVE IInv'
    OBVIOUS
<1>1. ASSUME NEW t \in Senders, NEW k \in KindsOf[t], CallSend(t, k)
      PROVE  IInv'
    BY <1>1, CallSendIInv
<1>2. ASSUME NEW t \in Threads, SendStep(t)
      PROVE  IInv'
    BY <1>2, LockIInv, PushBeginIInv, PushEndIInv, UnBlockIInv, WaitOKIInv,
       UnlockIInv DEF SendStep
<1>3. CASE ReceiveStep
    BY <1>3, BlockIInv, TestIInv, PopBeginIInv, PopEndIInv, AgainIInv,
       HandlePlainIInv, SendReceiveOKIInv, ResendIInv DEF ReceiveStep
<1>4. CASE UNCHANGED vars
    BY <1>4, StutterIInv
<1> QED
    BY <1>1, <1>2, <1>3, <1>4 DEF Next

(* The invariant holds in every reachable state.                           *)
THEOREM Invariance == Spec => []IInv
BY InitIInv, NextIInv, PTL DEF Spec

(* The variables of the queue keep their types: no semaphore is ever       *)
(* raised above 1 and only whole events are in the list.                   *)
THEOREM TypeCorrect == Spec => []TypeOK
BY Invariance, PTL DEF IInv

(* Send and SendAndWaitForOK exclude each other, for any set of threads,   *)
(* the receiver's own sends included.                                      *)
THEOREM MutualExclusion == Spec => []OneSender
BY Invariance, PTL DEF IInv

(* The receiver is never left asleep on a list that holds an event,        *)
(* whatever the interleaving of Receive with the sends, and even when a    *)
(* push and a pop of the list's only node have met.                        *)
THEOREM NoWakeupIsLost == Spec => []NoLostWakeup
BY Invariance, PTL DEF IInv

-----------------------------------------------------------------------------
(* EventQ implements EventChannel, and what follows for the order and the  *)
(* completeness of the events received.                                    *)

(* A thread that has yet to hook its event has numbered it with its count; *)
(* a severed list is a race that has happened; the tail that a push has    *)
(* seen to be missing is still missing, for nobody else hooks nodes.       *)
NumberInv ==
    /\ \A t \in Threads : NotPushedYet(t) =>
           /\ sending[t].from = t
           /\ sending[t].n = count[t]
           /\ count[t] >= 1
    /\ severed => raced

(* The initial state satisfies it.                                         *)
LEMMA InitNumberInv == Init => NumberInv
BY DEF Init, NumberInv, NotPushedYet

(* A new send numbers its event.                                           *)
LEMMA NewSendNumberInv ==
    ASSUME TypeOK, NumberInv, NEW t \in Threads, NEW k \in AllKinds, NewSend(t, k),
           pc' = [pc EXCEPT ![t] = "lock"], UNCHANGED <<severed, raced>>
    PROVE  NumberInv'
<1> USE DEF TypeOK, NewSend
<1>1. /\ sending'[t].from = t /\ sending'[t].n = count'[t] /\ count'[t] >= 1
    OBVIOUS
<1>2. \A u \in Threads \ {t} :
          pc'[u] = pc[u] /\ sending'[u] = sending[u] /\ count'[u] = count[u]
    OBVIOUS
<1> QED
    BY <1>1, <1>2 DEF NumberInv, NotPushedYet

(* Any other step leaves counts and events to be sent alone, and lets no   *)
(* thread enter the part of Send before the push.                          *)
LEMMA OtherNumberInv ==
    ASSUME TypeOK, NumberInv, UNCHANGED <<sending, count>>, severed' => raced',
           \A t \in Threads : NotPushedYet(t)' => NotPushedYet(t)
    PROVE  NumberInv'
BY DEF TypeOK, NumberInv, NotPushedYet

(* Every step keeps the numbers.                                           *)
LEMMA NextNumberInv ==
    ASSUME IInv, NumberInv, [Next]_vars
    PROVE  NumberInv'
<1>0. TypeOK
    BY DEF IInv
<1>1. ASSUME NEW t \in Senders, NEW k \in KindsOf[t], CallSend(t, k)
      PROVE  NumberInv'
  <2>1. t \in Threads /\ k \in AllKinds
    BY EventQAssumption DEF Threads
  <2>2. NewSend(t, k) /\ pc' = [pc EXCEPT ![t] = "lock"] /\ UNCHANGED <<severed, raced>>
    BY <1>1 DEF CallSend, Go, lists
  <2> QED
    BY <1>0, <2>1, <2>2, NewSendNumberInv
<1>2. ASSUME NEW t \in Threads, SendStep(t)
      PROVE  NumberInv'
  <2>1. UNCHANGED <<sending, count>>
    BY <1>2 DEF SendStep, Lock, PushBegin, PushEnd, UnBlock, WaitOK, Unlock
  <2>2. severed' => raced'
    BY <1>2 DEF SendStep, Lock, PushBegin, PushEnd, UnBlock, WaitOK, Unlock, lists,
                NumberInv
  <2>3. \A u \in Threads : NotPushedYet(u)' => NotPushedYet(u)
    BY <1>0, <1>2 DEF SendStep, Lock, PushBegin, PushEnd, UnBlock, WaitOK, Unlock,
                      Go, NotPushedYet, TypeOK
  <2> QED
    BY <1>0, <2>1, <2>2, <2>3, OtherNumberInv
<1>3. CASE Resend
  <2>1. Receiver \in Threads /\ "plain" \in AllKinds
    BY ReceiverIsAThread DEF AllKinds
  <2>2. /\ NewSend(Receiver, "plain") /\ pc' = [pc EXCEPT ![Receiver] = "lock"]
        /\ UNCHANGED <<severed, raced>>
    BY <1>3 DEF Resend, Go, lists
  <2> QED
    BY <1>0, <2>1, <2>2, NewSendNumberInv
<1>4. CASE ReceiveStep /\ ~Resend
  <2> USE DEF ReceiveStep, Block, Test, PopBegin, PopEnd, Again, HandlePlain,
              SendReceiveOK
  <2>1. UNCHANGED <<sending, count>>
    BY <1>4
  <2>2. severed' => raced'
    <3>1. CASE PopEnd
      BY <3>1, Zenon DEF NumberInv
    <3>2. CASE ~PopEnd
      <4>1. UNCHANGED <<severed, raced>>
        BY <1>4, <3>2 DEF lists
      <4> QED
        BY <4>1 DEF NumberInv
    <3> QED
      BY <3>1, <3>2
  <2>3. \A u \in Threads : NotPushedYet(u)' => NotPushedYet(u)
    BY <1>0, <1>4, ReceiverIsAThread DEF Go, NotPushedYet, TypeOK
  <2> QED
    BY <1>0, <2>1, <2>2, <2>3, OtherNumberInv
<1>5. CASE UNCHANGED vars
    BY <1>0, <1>5 DEF NumberInv, NotPushedYet, vars, lists
<1> QED
    BY <1>1, <1>2, <1>3, <1>4, <1>5 DEF Next

(* The end of a sequence goes the same way as its beginning.               *)
LEMMA TailOfAppend ==
    ASSUME NEW S, NEW s \in Seq(S), NEW e \in S, s # <<>>
    PROVE  /\ Append(s, e) # <<>>
           /\ Tail(Append(s, e)) = Append(Tail(s), e)
OBVIOUS

(* What follows the first of a single element.                             *)
LEMMA SingleTail ==
    ASSUME NEW S, NEW s \in Seq(S), s # <<>>, ~(Len(s) > 1)
    PROVE  Tail(s) = <<>>
<1>1. Len(s) \in Nat /\ Len(s) # 0 /\ ~(Len(s) > 1)
    OBVIOUS
<1>2. Len(s) = 1
  <2>1. \A n \in Nat : n # 0 /\ ~(n > 1) => n = 1
    OBVIOUS
  <2> QED
    BY <1>1, <2>1
<1>3. Tail(s) \in Seq(S) /\ Len(Tail(s)) = 0
    BY <1>2
<1> QED
    BY <1>3

(* What the channel sees of a step that neither hooks nor pops a node.     *)
LEMMA ChannelStutters ==
    ASSUME TypeOK, UNCHANGED <<m_EventList, event, got, raced>>, Sent' = Sent,
           pc'[Receiver] = "unhook" <=> pc[Receiver] = "unhook"
    PROVE  UNCHANGED Channel!vars
BY DEF Channel!vars, Waiting

(* Of a step that changes no count, and lets no thread past its push.      *)
LEMMA SentStays ==
    ASSUME TypeOK, count' = count,
           \A t \in Threads : NotPushedYet(t)' <=> NotPushedYet(t)
    PROVE  Sent' = Sent
BY DEF Sent

(* A new send is none of the channel's, until its event is hooked.         *)
LEMMA NewSendSentStays ==
    ASSUME TypeOK, NEW t \in Threads, NEW k \in AllKinds, NewSend(t, k),
           ~NotPushedYet(t), pc' = [pc EXCEPT ![t] = "lock"]
    PROVE  Sent' = Sent
<1>1. \A u \in Threads : Sent'[u] = Sent[u]
    BY DEF TypeOK, NewSend, Sent, NotPushedYet
<1> QED
    BY <1>1 DEF Sent

(* The push: the event enters the channel, or is lost with the list.       *)
LEMMA PushEndImplements ==
    ASSUME IInv, NumberInv, NEW t \in Threads, PushEnd(t)
    PROVE  Channel!Next
<1> USE DEF IInv, TypeOK
<1>1. /\ pc[t] = "hook" /\ pc' = [pc EXCEPT ![t] = "unblock"]
      /\ UNCHANGED <<sending, event, count, got>>
    BY DEF PushEnd, Go
<1>2. Sent' = [Sent EXCEPT ![t] = @ + 1]
  <2>1. Sent'[t] = Sent[t] + 1
    BY <1>1 DEF Sent, NotPushedYet
  <2>2. \A u \in Threads \ {t} : Sent'[u] = Sent[u]
    BY <1>1 DEF Sent, NotPushedYet
  <2> QED
    BY <2>1, <2>2 DEF Sent
<1>3. pc'[Receiver] = "unhook" <=> pc[Receiver] = "unhook"
    BY <1>1, ReceiverIsAThread
<1>4. CASE m_EventList' = Append(m_EventList, sending[t]) /\ UNCHANGED raced
  <2>1. sending[t] \in Event /\ sending[t].n = Sent[t] + 1 /\ sending[t].from = t
    BY <1>1 DEF SendingInv, Holding, NumberInv, NotPushedYet, Sent
  <2>2. sending[t] = [from |-> t, n |-> Sent[t] + 1, kind |-> sending[t].kind]
        /\ sending[t].kind \in AllKinds
    BY <2>1 DEF Event
  <2>3. Waiting' = Append(Waiting, sending[t])
    BY <1>3, <1>4, <2>1, TailOfAppend DEF Waiting, PopInv
  <2>4. Channel!Send(t, sending[t].kind)
    BY <1>1, <1>2, <1>4, <2>2, <2>3 DEF Channel!Send
  <2> QED
    BY <2>2, <2>4 DEF Channel!Next
<1>5. CASE UNCHANGED m_EventList /\ raced' = TRUE
  <2>1. Waiting' = Waiting
    BY <1>3, <1>5 DEF Waiting
  <2>2. Channel!LoseSent(t)
    BY <1>1, <1>2, <1>5, <2>1 DEF Channel!LoseSent
  <2> QED
    BY <2>2 DEF Channel!Next
<1>6. severed => raced
    BY DEF NumberInv
<1>7. \/ m_EventList' = Append(m_EventList, sending[t]) /\ UNCHANGED raced
      \/ UNCHANGED m_EventList /\ raced' = TRUE
    BY <1>6, Zenon DEF PushEnd
<1> QED
    BY <1>4, <1>5, <1>7

(* The beginning of the pop delivers the first event.                      *)
LEMMA PopBeginImplements ==
    ASSUME IInv, PopBegin
    PROVE  Channel!Next
<1> USE DEF IInv, TypeOK
<1>1. /\ pc[Receiver] = "pop" /\ pc' = [pc EXCEPT ![Receiver] = "unhook"]
      /\ UNCHANGED <<m_EventList, raced, count>>
    BY DEF PopBegin, Go
<1>2. Sent' = Sent
    BY <1>1, ReceiverIsAThread, SentStays DEF NotPushedYet
<1>3. Waiting = m_EventList /\ Waiting' = Tail(m_EventList) /\ m_EventList # <<>>
    BY <1>1, ReceiverIsAThread DEF Waiting, PopInv
<1>4. Channel!Deliver
    BY <1>1, <1>2, <1>3 DEF Channel!Deliver, PopBegin
<1> QED
    BY <1>4 DEF Channel!Next

(* The end of the pop is nothing to the channel, or loses all it holds.    *)
LEMMA PopEndImplements ==
    ASSUME IInv, PopEnd
    PROVE  [Channel!Next]_Channel!vars
<1> USE DEF IInv, TypeOK
<1>1. /\ pc[Receiver] = "unhook" /\ pc' = [pc EXCEPT ![Receiver] = "again"]
      /\ UNCHANGED <<event, got, count>>
    BY DEF PopEnd, Go
<1>2. Sent' = Sent
    BY <1>1, ReceiverIsAThread, SentStays DEF NotPushedYet
<1>3. Waiting = Tail(m_EventList) /\ Waiting' = m_EventList' /\ m_EventList # <<>>
    BY <1>1, ReceiverIsAThread DEF Waiting, PopInv
<1>4. CASE nextSeen = NoEvent /\ Len(m_EventList) > 1
  <2>1. m_EventList' = <<>> /\ raced' = TRUE
    BY <1>4, Zenon DEF PopEnd
  <2>2. Channel!LoseWaiting
    BY <1>1, <1>2, <1>3, <2>1 DEF Channel!LoseWaiting
  <2> QED
    BY <2>2 DEF Channel!Next
<1>5. CASE ~(nextSeen = NoEvent /\ Len(m_EventList) > 1)
  <2>1. raced' = raced
    BY <1>5, Zenon DEF PopEnd
  <2>2. m_EventList' = Tail(m_EventList)
    <3>1. CASE nextSeen # NoEvent
      BY <3>1 DEF PopEnd
    <3>2. CASE nextSeen = NoEvent
      <4>1. Tail(m_EventList) = <<>>
        BY <1>3, <1>5, <3>2, SingleTail
      <4> QED
        BY <3>2, <4>1 DEF PopEnd
    <3> QED
      BY <3>1, <3>2
  <2> QED
    BY <1>1, <1>2, <1>3, <2>1, <2>2 DEF Channel!vars
<1> QED
    BY <1>4, <1>5

(* Every step of the queue is one of the channel, or a stutter.            *)
LEMMA NextImplements ==
    ASSUME IInv, NumberInv, [Next]_vars
    PROVE  [Channel!Next]_Channel!vars
<1>0. TypeOK
    BY DEF IInv
<1>1. ASSUME NEW t \in Senders, NEW k \in KindsOf[t], CallSend(t, k)
      PROVE  UNCHANGED Channel!vars
  <2>1. t \in Threads /\ k \in AllKinds /\ t # Receiver
    BY EventQAssumption DEF Threads
  <2>2. /\ NewSend(t, k) /\ ~NotPushedYet(t) /\ pc' = [pc EXCEPT ![t] = "lock"]
        /\ UNCHANGED <<m_EventList, event, got, raced>>
    BY <1>1 DEF CallSend, Go, lists, NotPushedYet
  <2>3. pc'[Receiver] = pc[Receiver]
    BY <1>0, <2>1, <2>2 DEF TypeOK
  <2> QED
    BY <1>0, <2>1, <2>2, <2>3, NewSendSentStays, ChannelStutters
<1>2. ASSUME NEW t \in Threads, Lock(t) \/ PushBegin(t) \/ UnBlock(t) \/ WaitOK(t) \/ Unlock(t)
      PROVE  UNCHANGED Channel!vars
  <2> USE DEF Lock, PushBegin, UnBlock, WaitOK, Unlock, Go
  <2>1. UNCHANGED <<m_EventList, event, got, raced, count>>
    BY <1>2 DEF lists
  <2>2. \A u \in Threads : NotPushedYet(u)' <=> NotPushedYet(u)
    BY <1>0, <1>2 DEF TypeOK, NotPushedYet
  <2>3. pc'[Receiver] = "unhook" <=> pc[Receiver] = "unhook"
    BY <1>0, <1>2, ReceiverIsAThread DEF TypeOK
  <2> QED
    BY <1>0, <2>1, <2>2, <2>3, SentStays, ChannelStutters
<1>3. ASSUME NEW t \in Threads, SendStep(t)
      PROVE  [Channel!Next]_Channel!vars
    BY <1>2, <1>3, PushEndImplements DEF SendStep
<1>4. CASE Resend
  <2>1. Receiver \in Threads /\ "plain" \in AllKinds
    BY ReceiverIsAThread DEF AllKinds
  <2>2. /\ NewSend(Receiver, "plain") /\ pc' = [pc EXCEPT ![Receiver] = "lock"]
        /\ UNCHANGED <<m_EventList, event, got, raced>> /\ ~NotPushedYet(Receiver)
        /\ pc[Receiver] = "handle"
    BY <1>4 DEF Resend, Go, lists, NotPushedYet
  <2>3. pc'[Receiver] = "lock"
    BY <1>0, <2>1, <2>2 DEF TypeOK
  <2> QED
    BY <1>0, <2>1, <2>2, <2>3, NewSendSentStays, ChannelStutters
<1>5. CASE Block \/ Test \/ Again \/ HandlePlain \/ SendReceiveOK
  <2> USE DEF Block, Test, Again, HandlePlain, SendReceiveOK, Go
  <2>1. UNCHANGED <<m_EventList, event, got, raced, count>>
    BY <1>5 DEF lists
  <2>2. \A u \in Threads : NotPushedYet(u)' <=> NotPushedYet(u)
    BY <1>0, <1>5, ReceiverIsAThread DEF TypeOK, NotPushedYet
  <2>3. pc'[Receiver] = "unhook" <=> pc[Receiver] = "unhook"
    BY <1>0, <1>5, ReceiverIsAThread DEF TypeOK
  <2> QED
    BY <1>0, <2>1, <2>2, <2>3, SentStays, ChannelStutters
<1>6. CASE UNCHANGED vars
    BY <1>6 DEF vars, lists, Channel!vars, Waiting, Sent, NotPushedYet
<1> QED
    BY <1>1, <1>3, <1>4, <1>5, <1>6, PopBeginImplements, PopEndImplements
    DEF Next, ReceiveStep

(* The initial states are the channel's.                                   *)
LEMMA InitImplements == Init => Channel!Init
BY DEF Init, Channel!Init, Sent, Waiting, NotPushedYet, Threads

(* The numbering goes with the invariant.                                  *)
LEMMA NumbersAreKept == Spec => []NumberInv
<1>1. Init => NumberInv
    BY InitNumberInv
<1>2. IInv /\ NumberInv /\ [Next]_vars => NumberInv'
    BY NextNumberInv
<1> QED
    BY <1>1, <1>2, Invariance, PTL DEF Spec

(* CPSPEventQ implements the channel for any number of threads and sends:  *)
(* overlapping list operations show as losses, never as disorder, and only *)
(* once a push has met the pop of a single node.                           *)
THEOREM QueueImplementsChannel == Spec => ImplementsChannel
<1>1. IInv /\ NumberInv /\ [Next]_vars => [Channel!Next]_Channel!vars
    BY NextImplements
<1>2. Channel!Init /\ [][Channel!Next]_Channel!vars => ImplementsChannel
    BY DEF ImplementsChannel, Channel!Spec
<1> QED
    BY <1>1, <1>2, InitImplements, Invariance, NumbersAreKept, PTL DEF Spec

-----------------------------------------------------------------------------
(* Order and completeness, as the channel keeps them.                      *)

(* What is sent and not received is numbered upwards, sender by sender,    *)
(* from the last number received to the last one sent.                     *)
Ordered(q, g, s) ==
    /\ \A i \in DOMAIN q : g[q[i].from] < q[i].n /\ q[i].n <= s[q[i].from]
    /\ \A i \in DOMAIN q : \A j \in 1..i-1 :
           q[j].from = q[i].from => q[j].n < q[i].n
    /\ \A t \in Threads : g[t] <= s[t]

(* No number in between is missing.                                        *)
Complete(q, g, s) ==
    \A t \in Threads : \A n \in 1..s[t] :
        n <= g[t] \/ \E i \in DOMAIN q : q[i].from = t /\ q[i].n = n

ChannelInv ==
    /\ Ordered(Waiting, got, Sent)
    /\ raced \/ Complete(Waiting, got, Sent)

(* Sending at the end keeps the order and leaves no gap.                   *)
LEMMA SendKeepsOrder ==
    ASSUME NEW q \in Seq(Event), NEW g \in [Threads -> Nat], NEW s \in [Threads -> Nat],
           NEW t \in Threads, NEW e \in Event, e.from = t, e.n = s[t] + 1,
           Ordered(q, g, s)
    PROVE  /\ Ordered(Append(q, e), g, [s EXCEPT ![t] = @ + 1])
           /\ Complete(q, g, s) => Complete(Append(q, e), g, [s EXCEPT ![t] = @ + 1])
<1> DEFINE r == Append(q, e)
           s1 == [s EXCEPT ![t] = @ + 1]
<1>1. /\ Len(q) \in Nat /\ DOMAIN q = 1..Len(q) /\ DOMAIN r = 1..(Len(q) + 1)
      /\ \A i \in 1..Len(q) : r[i] = q[i] /\ q[i] \in Event
      /\ r[Len(q) + 1] = e
    OBVIOUS
<1>2. /\ s1[t] = s[t] + 1 /\ s1 \in [Threads -> Nat]
      /\ \A u \in Threads : s[u] \in Nat /\ s1[u] \in Nat /\ s[u] <= s1[u]
      /\ \A u \in Threads : u # t => s1[u] = s[u]
    <2>1. s1[t] = s[t] + 1 /\ \A u \in Threads : u # t => s1[u] = s[u]
      OBVIOUS
    <2>2. \A u \in Threads : s[u] \in Nat /\ s1[u] \in Nat
      OBVIOUS
    <2>3. \A u \in Threads : s[u] <= s1[u]
      <3> SUFFICES ASSUME NEW u \in Threads PROVE s[u] <= s1[u]
          OBVIOUS
      <3>1. CASE u = t
        <4>1. s[u] \in Nat /\ s1[u] = s[u] + 1
          BY <2>1, <2>2, <3>1
        <4> HIDE DEF s1
        <4> QED
          BY <4>1
      <3>2. CASE u # t
        <4>1. s[u] \in Nat /\ s1[u] = s[u]
          BY <2>1, <2>2, <3>2
        <4> HIDE DEF s1
        <4> QED
          BY <4>1
      <3> QED
        BY <3>1, <3>2
    <2> QED
      BY <2>1, <2>2, <2>3
<1>3. \A x \in Event : x.from \in Threads /\ x.n \in Nat
    BY DEF Event
<1> HIDE DEF r, s1
<1>4. \A i \in DOMAIN r : g[r[i].from] < r[i].n /\ r[i].n <= s1[r[i].from]
  <2> SUFFICES ASSUME NEW i \in DOMAIN r
               PROVE  g[r[i].from] < r[i].n /\ r[i].n <= s1[r[i].from]
      OBVIOUS
  <2>1. CASE i \in 1..Len(q)
    <3>1. r[i] = q[i] /\ q[i].from \in Threads /\ q[i].n \in Nat
        BY <1>1, <1>3, <2>1
    <3>2. g[q[i].from] < q[i].n /\ q[i].n <= s[q[i].from]
        BY <1>1, <2>1 DEF Ordered
    <3>3. s1[q[i].from] \in Nat /\ s[q[i].from] \in Nat /\ s[q[i].from] <= s1[q[i].from]
        BY <1>2, <3>1
    <3> QED
        BY <3>1, <3>2, <3>3
  <2>2. CASE i = Len(q) + 1
    BY <1>1, <1>2, <2>2 DEF Ordered
  <2> QED
    BY <1>1, <2>1, <2>2
<1>5. \A i \in DOMAIN r : \A j \in 1..i-1 : r[j].from = r[i].from => r[j].n < r[i].n
  <2> SUFFICES ASSUME NEW i \in DOMAIN r, NEW j \in 1..i-1, r[j].from = r[i].from
               PROVE  r[j].n < r[i].n
      OBVIOUS
  <2>1. j \in 1..Len(q) /\ r[j] = q[j] /\ q[j].n \in Nat /\ q[j].from \in Threads
      BY <1>1, <1>3
  <2>2. CASE i \in 1..Len(q)
    BY <1>1, <2>1, <2>2 DEF Ordered
  <2>3. CASE i = Len(q) + 1
    <3>1. q[j].n <= s[t]
      BY <1>1, <2>1, <2>3 DEF Ordered
    <3> QED
      BY <1>1, <2>1, <2>3, <3>1
  <2> QED
    BY <1>1, <2>2, <2>3
<1>6. \A u \in Threads : g[u] <= s1[u]
  <2> SUFFICES ASSUME NEW u \in Threads PROVE g[u] <= s1[u]
      OBVIOUS
  <2>1. g[u] \in Nat /\ g[u] <= s[u]
      BY DEF Ordered
  <2> QED
      BY <1>2, <2>1
<1>7. ASSUME Complete(q, g, s)
      PROVE  Complete(r, g, s1)
  <2> SUFFICES ASSUME NEW u \in Threads, NEW n \in 1..s1[u], ~(n <= g[u])
               PROVE  \E i \in DOMAIN r : r[i].from = u /\ r[i].n = n
      BY DEF Complete
  <2>1. CASE u = t /\ n = s[t] + 1
    <3>1. Len(q) + 1 \in DOMAIN r
      BY <1>1
    <3> QED
      BY <1>1, <2>1, <3>1
  <2>2. CASE ~(u = t /\ n = s[t] + 1)
    <3>1. n \in 1..s[u]
      BY <1>2, <2>2
    <3>2. PICK i \in DOMAIN q : q[i].from = u /\ q[i].n = n
      BY <1>7, <3>1 DEF Complete
    <3> QED
      BY <1>1, <3>2
  <2> QED
    BY <2>1, <2>2
<1>8. Ordered(r, g, s1)
    BY <1>4, <1>5, <1>6 DEF Ordered
<1> QED
    BY <1>7, <1>8 DEF r, s1

(* Receiving from the front does so too.                                   *)
LEMMA DeliverKeepsOrder ==
    ASSUME NEW q \in Seq(Event), NEW g \in [Threads -> Nat], NEW s \in [Threads -> Nat],
           q # <<>>, Ordered(q, g, s)
    PROVE  /\ Ordered(Tail(q), [g EXCEPT ![Head(q).from] = Head(q).n], s)
           /\ Complete(q, g, s) =>
                  Complete(Tail(q), [g EXCEPT ![Head(q).from] = Head(q).n], s)
<1> DEFINE r == Tail(q)
           f == Head(q).from
           g1 == [g EXCEPT ![f] = Head(q).n]
<1>1. /\ Len(q) \in Nat /\ Len(q) >= 1 /\ DOMAIN q = 1..Len(q)
      /\ DOMAIN r = 1..(Len(q) - 1)
      /\ \A i \in 1..Len(q) - 1 : r[i] = q[i + 1]
      /\ Head(q) = q[1]
      /\ \A i \in 1..Len(q) : q[i] \in Event
    OBVIOUS
<1>2. \A x \in Event : x.from \in Threads /\ x.n \in Nat
    BY DEF Event
<1>3. f \in Threads /\ q[1].from = f /\ q[1].n \in Nat /\ g[f] < q[1].n /\ q[1].n <= s[f]
  <2>1. 1 \in DOMAIN q /\ q[1] \in Event /\ f = q[1].from
      BY <1>1
  <2> QED
      BY <1>2, <2>1 DEF Ordered
<1>4. /\ g1 \in [Threads -> Nat] /\ g1[f] = q[1].n
      /\ \A u \in Threads \ {f} : g1[u] = g[u]
    BY <1>1, <1>3
<1> HIDE DEF r, f, g1
<1>5. \A i \in DOMAIN r : g1[r[i].from] < r[i].n /\ r[i].n <= s[r[i].from]
  <2> SUFFICES ASSUME NEW i \in DOMAIN r
               PROVE  g1[r[i].from] < r[i].n /\ r[i].n <= s[r[i].from]
      OBVIOUS
  <2>1. /\ r[i] = q[i + 1] /\ i + 1 \in 1..Len(q) /\ 1 \in 1..(i + 1) - 1
        /\ q[i + 1].from \in Threads
      BY <1>1, <1>2
  <2>2. g[q[i + 1].from] < q[i + 1].n /\ q[i + 1].n <= s[q[i + 1].from]
      BY <1>1, <2>1 DEF Ordered
  <2>3. CASE q[i + 1].from = f
    <3>1. q[1].n < q[i + 1].n
      BY <1>1, <1>3, <2>1, <2>3 DEF Ordered
    <3> QED
      BY <1>4, <2>1, <2>2, <2>3, <3>1
  <2>4. CASE q[i + 1].from # f
    BY <1>4, <2>1, <2>2, <2>4
  <2> QED
    BY <2>3, <2>4
<1>6. \A i \in DOMAIN r : \A j \in 1..i-1 : r[j].from = r[i].from => r[j].n < r[i].n
  <2> SUFFICES ASSUME NEW i \in DOMAIN r, NEW j \in 1..i-1, r[j].from = r[i].from
               PROVE  r[j].n < r[i].n
      OBVIOUS
  <2>1. /\ r[i] = q[i + 1] /\ i + 1 \in DOMAIN q
        /\ r[j] = q[j + 1] /\ j + 1 \in 1..(i + 1) - 1
      BY <1>1
  <2> QED
      BY <2>1 DEF Ordered
<1>7. \A u \in Threads : g1[u] <= s[u]
    BY <1>3, <1>4 DEF Ordered
<1>8. ASSUME Complete(q, g, s)
      PROVE  Complete(r, g1, s)
  <2> SUFFICES ASSUME NEW u \in Threads, NEW n \in 1..s[u], ~(n <= g1[u])
               PROVE  \E i \in DOMAIN r : r[i].from = u /\ r[i].n = n
      BY DEF Complete
  <2>1. g[u] <= g1[u] /\ g[u] \in Nat /\ g1[u] \in Nat
    <3>1. g[u] \in Nat /\ g1[u] \in Nat
      BY <1>4
    <3>2. CASE u = f
      BY <1>3, <1>4, <3>1, <3>2
    <3>3. CASE u # f
      BY <1>4, <3>1, <3>3
    <3> QED
      BY <3>1, <3>2, <3>3
  <2>2. PICK i \in DOMAIN q : q[i].from = u /\ q[i].n = n
      BY <1>8, <2>1 DEF Complete
  <2>3. i # 1
      BY <1>3, <1>4, <2>2
  <2>4. i - 1 \in DOMAIN r /\ r[i - 1] = q[i]
      BY <1>1, <2>3
  <2> QED
      BY <2>2, <2>4
<1>9. Ordered(r, g1, s)
    BY <1>5, <1>6, <1>7 DEF Ordered
<1> QED
    BY <1>8, <1>9 DEF r, f, g1

(* The parts of the elements of a sequence of events.                      *)
LEMMA ElementTypes ==
    ASSUME NEW q \in Seq(Event), NEW i \in DOMAIN q
    PROVE  q[i].from \in Threads /\ q[i].n \in Nat
<1>1. q[i] \in Event
    OBVIOUS
<1> QED
    BY <1>1 DEF Event

(* An event that is lost when sent leaves the order as it is.              *)
LEMMA LossKeepsOrder ==
    ASSUME NEW q \in Seq(Event), NEW g \in [Threads -> Nat], NEW s \in [Threads -> Nat],
           NEW r \in [Threads -> Nat], \A t \in Threads : s[t] <= r[t],
           Ordered(q, g, s)
    PROVE  Ordered(q, g, r)
<1>1. \A i \in DOMAIN q : g[q[i].from] < q[i].n /\ q[i].n <= r[q[i].from]
  <2> SUFFICES ASSUME NEW i \in DOMAIN q
               PROVE  g[q[i].from] < q[i].n /\ q[i].n <= r[q[i].from]
      OBVIOUS
  <2>1. q[i].from \in Threads /\ q[i].n \in Nat
      BY ElementTypes
  <2>2. s[q[i].from] \in Nat /\ r[q[i].from] \in Nat /\ s[q[i].from] <= r[q[i].from]
      BY <2>1
  <2>3. g[q[i].from] < q[i].n /\ q[i].n <= s[q[i].from]
      BY DEF Ordered
  <2> QED
      BY <2>1, <2>2, <2>3
<1>2. \A t \in Threads : g[t] <= r[t]
  <2> SUFFICES ASSUME NEW t \in Threads PROVE g[t] <= r[t]
      OBVIOUS
  <2>1. g[t] \in Nat /\ s[t] \in Nat /\ r[t] \in Nat /\ g[t] <= s[t] /\ s[t] <= r[t]
      BY DEF Ordered
  <2> QED
      BY <2>1
<1> QED
    BY <1>1, <1>2 DEF Ordered

(* What the invariant says of the types of the channel's variables.        *)
LEMMA ChannelTypes ==
    ASSUME IInv, NumberInv
    PROVE  /\ Waiting \in Seq(Event)
           /\ Sent \in [Threads -> Nat]
           /\ got \in [Threads -> Nat]
<1>1. m_EventList \in Seq(Event) /\ got \in [Threads -> Nat]
      /\ count \in [Threads -> Nat]
    BY DEF IInv, TypeOK
<1>2. Waiting \in Seq(Event)
  <2>1. CASE pc[Receiver] = "unhook"
    BY <1>1, <2>1 DEF Waiting, IInv, PopInv
  <2>2. CASE pc[Receiver] # "unhook"
    BY <1>1, <2>2 DEF Waiting
  <2> QED
    BY <2>1, <2>2
<1>3. \A t \in Threads : (IF NotPushedYet(t) THEN count[t] - 1 ELSE count[t]) \in Nat
    BY <1>1 DEF NumberInv
<1> QED
    BY <1>1, <1>2, <1>3 DEF Sent

(* The queue's initial state has nothing sent.                             *)
LEMMA InitChannelInv == Init => ChannelInv
<1> SUFFICES ASSUME Init PROVE ChannelInv
    OBVIOUS
<1>1. Waiting = <<>> /\ got = [t \in Threads |-> 0] /\ Sent = [t \in Threads |-> 0]
    BY DEF Init, Waiting, Sent, NotPushedYet
<1> QED
    BY <1>1 DEF ChannelInv, Ordered, Complete

(* Every step of the channel keeps its order, and its completeness until   *)
(* it breaks.                                                              *)
LEMMA NextChannelInv ==
    ASSUME IInv, NumberInv, ChannelInv, [Channel!Next]_Channel!vars
    PROVE  ChannelInv'
<1>0. Waiting \in Seq(Event) /\ Sent \in [Threads -> Nat] /\ got \in [Threads -> Nat]
    BY ChannelTypes
<1>1. ASSUME NEW t \in Threads, NEW k \in AllKinds, Channel!Send(t, k)
      PROVE  ChannelInv'
  <2> DEFINE e == [from |-> t, n |-> Sent[t] + 1, kind |-> k]
  <2>1. e \in Event /\ e.from = t /\ e.n = Sent[t] + 1
      BY <1>0 DEF Event
  <2>2. /\ Waiting' = Append(Waiting, e) /\ Sent' = [Sent EXCEPT ![t] = @ + 1]
        /\ got' = got /\ raced' = raced
      BY <1>1 DEF Channel!Send
  <2> HIDE DEF e
  <2>3. Ordered(Waiting, got, Sent)
      BY DEF ChannelInv
  <2>4. /\ Ordered(Waiting', got', Sent')
        /\ Complete(Waiting, got, Sent) => Complete(Waiting', got', Sent')
      BY <1>0, <2>1, <2>2, <2>3, SendKeepsOrder
  <2>5. raced' \/ Complete(Waiting', got', Sent')
      BY <2>2, <2>4, Zenon DEF ChannelInv
  <2> QED
      BY <2>4, <2>5 DEF ChannelInv, Ordered, Complete
<1>2. CASE Channel!Deliver
  <2>1. /\ Waiting # <<>> /\ Waiting' = Tail(Waiting) /\ Sent' = Sent
        /\ got' = [got EXCEPT ![Head(Waiting).from] = Head(Waiting).n]
        /\ raced' = raced
      BY <1>2 DEF Channel!Deliver
  <2>2. Ordered(Waiting, got, Sent)
      BY DEF ChannelInv
  <2>3. /\ Ordered(Waiting', got', Sent')
        /\ Complete(Waiting, got, Sent) => Complete(Waiting', got', Sent')
      BY <1>0, <2>1, <2>2, DeliverKeepsOrder
  <2>4. raced' \/ Complete(Waiting', got', Sent')
      BY <2>1, <2>3, Zenon DEF ChannelInv
  <2> QED
      BY <2>3, <2>4 DEF ChannelInv, Ordered, Complete
<1>3. ASSUME NEW t \in Threads, Channel!LoseSent(t)
      PROVE  ChannelInv'
  <2>1. /\ Waiting' = Waiting /\ Sent' = [Sent EXCEPT ![t] = @ + 1]
        /\ got' = got /\ raced' = TRUE
      BY <1>3 DEF Channel!LoseSent
  <2>2. \A u \in Threads : Sent[u] \in Nat /\ Sent'[u] \in Nat /\ Sent[u] <= Sent'[u]
      BY <1>0, <2>1
  <2>3. Ordered(Waiting, got, Sent)
      BY DEF ChannelInv
  <2>4. Ordered(Waiting, got, Sent')
    <3>1. Sent' \in [Threads -> Nat]
      BY <1>0, <2>1
    <3> QED
      BY <1>0, <2>2, <2>3, <3>1, LossKeepsOrder
  <2> QED
      BY <2>1, <2>4 DEF ChannelInv, Ordered, Complete
<1>4. CASE Channel!LoseWaiting
  <2>1. Waiting' = <<>> /\ Sent' = Sent /\ got' = got /\ raced' = TRUE
      BY <1>4 DEF Channel!LoseWaiting
  <2> QED
      BY <2>1 DEF ChannelInv, Ordered, Complete
<1>5. CASE UNCHANGED Channel!vars
  <2>1. Waiting' = Waiting /\ Sent' = Sent /\ got' = got /\ raced' = raced
      BY <1>5 DEF Channel!vars
  <2> QED
      BY <2>1 DEF ChannelInv, Ordered, Complete
<1> QED
    BY <1>1, <1>2, <1>3, <1>4, <1>5 DEF Channel!Next

(* What the channel keeps is what the two invariants of the queue state.   *)
LEMMA ChannelInvGives ==
    ASSUME IInv, NumberInv, ChannelInv
    PROVE  InOrder /\ NothingLost
<1>1. InOrder
  <2>1. \A i \in DOMAIN Waiting : Waiting[i].from \in Threads /\ Waiting[i].n \in Nat
    BY ChannelTypes, ElementTypes
  <2>2. \A i \in DOMAIN Waiting : got[Waiting[i].from] \in Nat
    BY <2>1, ChannelTypes
  <2>3. Ordered(Waiting, got, Sent)
    BY DEF ChannelInv
  <2>4. \A a, b \in Nat : a < b => b > a
    OBVIOUS
  <2> HIDE DEF Waiting
  <2> QED
    BY <2>1, <2>2, <2>3, <2>4 DEF Ordered, InOrder
<1>2. ASSUME ~raced, NEW t \in Threads, NEW n \in 1..count[t], ~(n <= got[t]),
             ~(NotPushedYet(t) /\ n = count[t])
      PROVE  \E i \in DOMAIN m_EventList : m_EventList[i].from = t /\ m_EventList[i].n = n
  <2>1. n \in 1..Sent[t]
    <3>1. count[t] \in Nat
      BY DEF IInv, TypeOK
    <3> QED
      BY <1>2, <3>1 DEF Sent
  <2>2. Complete(Waiting, got, Sent)
    BY <1>2, Zenon DEF ChannelInv
  <2>3. PICK i \in DOMAIN Waiting : Waiting[i].from = t /\ Waiting[i].n = n
    BY <1>2, <2>1, <2>2 DEF Complete
  <2>4. CASE pc[Receiver] = "unhook"
    <3>1. Waiting = Tail(m_EventList) /\ m_EventList \in Seq(Event) /\ m_EventList # <<>>
      BY <2>4 DEF Waiting, IInv, TypeOK, PopInv
    <3>2. i + 1 \in DOMAIN m_EventList /\ Waiting[i] = m_EventList[i + 1]
      BY <3>1
    <3> QED
      BY <2>3, <3>2
  <2>5. CASE pc[Receiver] # "unhook"
    BY <2>3, <2>5 DEF Waiting
  <2> QED
    BY <2>4, <2>5
<1>3. NothingLost
    BY <1>2, Zenon DEF NothingLost
<1> QED
    BY <1>1, <1>3

(* So they hold in every reachable state.                                  *)
LEMMA ChannelInvariance == Spec => []ChannelInv
<1>1. IInv /\ NumberInv /\ ChannelInv /\ [Next]_vars => ChannelInv'
    BY NextImplements, NextChannelInv
<1> QED
    BY <1>1, InitChannelInv, Invariance, NumbersAreKept, PTL DEF Spec

(* Whatever push and pop do to each other, no sender's events are received *)
(* out of order and none is taken from the list twice.                     *)
THEOREM OrderIsKept == Spec => []InOrder
<1>1. IInv /\ NumberInv /\ ChannelInv => InOrder
    BY ChannelInvGives
<1> QED
    BY <1>1, ChannelInvariance, Invariance, NumbersAreKept, PTL

(* An event can be lost in one way only: a push that meets the pop of the  *)
(* list's only node.                                                       *)
THEOREM LossNeedsARace == Spec => []NothingLost
<1>1. IInv /\ NumberInv /\ ChannelInv => NothingLost
    BY ChannelInvGives
<1> QED
    BY <1>1, ChannelInvariance, Invariance, NumbersAreKept, PTL

=============================================================================
