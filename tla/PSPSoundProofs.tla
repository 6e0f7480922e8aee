--------------------------- MODULE PSPSoundProofs ---------------------------
(***************************************************************************)
(* Theorems about PSPSound, for any number of calls: its variables keep    *)
(* their types, no decoder is lost, when Stop has its answer nothing is    *)
(* left that decodes, what the state says stopped becomes quiet, and all   *)
(* it does is what SoundObject promises.                                   *)
(*                                                                         *)
(* The first invariant follows a STOP through its three stages.  It is in  *)
(* the queue, as the last event; or it is being handled, with nothing      *)
(* queued behind it; or it is answered, and the decode thread waits.  One  *)
(* stage at a time, and only while the queue's lock is held by the thread  *)
(* that waits for the answer: so nobody can append anything behind the     *)
(* STOP.                                                                   *)
(***************************************************************************)
EXTENDS PSPSound, SequenceTheorems, TLAPS

-----------------------------------------------------------------------------
(* What the calls are made of.                                             *)

OpInv(o) ==
    /\ o.do = "seturi" => o.arg \in {"file", "url"}
    /\ o.do = "state" => o.arg \in {"PLAY", "PAUSE", "STOP"}
    /\ o.do = "send" => o.arg \in Events \ {"STOP"}
    /\ o.do = "sendwait" => o.arg = "STOP"

(* Steps of a call that wait for no answer, and steps with at most a first *)
(* one that does.                                                          *)
Plain == {s \in Seq(Op) : \A i \in 1..Len(s) : OpInv(s[i]) /\ s[i].do # "wait"}

Calls == {s \in Seq(Op) : \A i \in 1..Len(s) : OpInv(s[i]) /\ (s[i].do = "wait" => i = 1)}

(* The invariant.                                                          *)
CallsInv == todo \in [Clients -> Calls]

LockInv == \A c \in Clients : lock = c <=> Waiting(c)

StopInv ==
    /\ \A i \in 1..Len(queue) :
           queue[i] = "STOP" =>
               i = Len(queue) /\ lock # "free" /\ decPc # "STOP" /\ okBlocker = 0
    /\ decPc = "STOP" => lock # "free" /\ queue = <<>> /\ okBlocker = 0
    /\ okBlocker > 0 => lock # "free" /\ queue = <<>> /\ decPc = "receive" /\ Decoder = "NULL"

DecoderInv ==
    /\ DecoderIsKept
    /\ decPc \in {"open", "opening", "opened"} => Decoder = "NULL"

IInv == TypeOK /\ CallsInv /\ LockInv /\ StopInv /\ DecoderInv

-----------------------------------------------------------------------------
(* The sequences of steps are closed under what the actions do to them.    *)

LEMMA EmptyPlain == <<>> \in Plain
  BY DEF Plain

LEMMA OnePlain ==
  ASSUME NEW o \in Op, OpInv(o), o.do # "wait"
  PROVE  <<o>> \in Plain
  BY DEF Plain

LEMMA ConcatPlain ==
  ASSUME NEW s \in Plain, NEW t \in Plain
  PROVE  s \o t \in Plain
<1>1. s \in Seq(Op) /\ t \in Seq(Op) BY DEF Plain
<1>2. s \o t \in Seq(Op) /\ Len(s \o t) = Len(s) + Len(t) BY <1>1, ConcatProperties
<1>3. ASSUME NEW i \in 1..Len(s \o t)
      PROVE  OpInv((s \o t)[i]) /\ (s \o t)[i].do # "wait"
  <2>1. CASE i <= Len(s)
    <3>1. i \in 1..Len(s) BY <1>1, <1>2, <1>3, <2>1
    <3>2. (s \o t)[i] = s[i] BY <1>1, <2>1, <1>2, <1>3, ConcatProperties
    <3> QED BY <3>1, <3>2 DEF Plain
  <2>2. CASE i > Len(s)
    <3>1. i - Len(s) \in 1..Len(t) BY <1>1, <1>2, <1>3, <2>2
    <3>2. (s \o t)[i] = t[i - Len(s)] BY <1>1, <2>2, <1>2, <1>3, ConcatProperties
    <3> QED BY <3>1, <3>2 DEF Plain
  <2> QED BY <1>1, <1>2, <1>3, <2>1, <2>2
<1> QED BY <1>2, <1>3 DEF Plain

LEMMA PlainIsCall == Plain \subseteq Calls
  BY DEF Plain, Calls

LEMMA TailOfCall ==
  ASSUME NEW s \in Calls, s # <<>>
  PROVE  Tail(s) \in Plain /\ Head(s) \in Op /\ OpInv(Head(s))
<1>1. s \in Seq(Op) BY DEF Calls
<1>2. Len(s) \in Nat \ {0} /\ Head(s) = s[1] /\ Head(s) \in Op
  BY <1>1
<1>3. Tail(s) \in Seq(Op) /\ Len(Tail(s)) = Len(s) - 1 BY <1>1
<1>4. \A i \in 1..Len(Tail(s)) : Tail(s)[i] = s[i + 1] BY <1>1
<1>5. OpInv(Head(s)) BY <1>2 DEF Calls
<1>6. ASSUME NEW i \in 1..Len(Tail(s))
      PROVE  OpInv(Tail(s)[i]) /\ Tail(s)[i].do # "wait"
  <2>1. i + 1 \in 1..Len(s) /\ i + 1 # 1 BY <1>2, <1>3
  <2> QED BY <2>1, <1>4 DEF Calls
<1> QED BY <1>2, <1>3, <1>5, <1>6 DEF Plain

LEMMA HeadOfPlain ==
  ASSUME NEW s \in Plain, s # <<>>
  PROVE  Head(s).do # "wait"
<1>1. s \in Seq(Op) BY DEF Plain
<1>2. 1 \in 1..Len(s) /\ Head(s) = s[1] BY <1>1
<1> QED BY <1>2 DEF Plain

LEMMA TwoPlain ==
  ASSUME NEW o \in Op, OpInv(o), o.do # "wait",
         NEW p \in Op, OpInv(p), p.do # "wait"
  PROVE  <<o, p>> \in Plain
<1>1. <<o, p>> \in Seq(Op) /\ Len(<<o, p>>) = 2 OBVIOUS
<1>2. <<o, p>>[1] = o /\ <<o, p>>[2] = p OBVIOUS
<1>3. \A i \in 1..2 : i = 1 \/ i = 2 OBVIOUS
<1> QED BY <1>1, <1>2, <1>3 DEF Plain

(* What the calls put into todo.                                           *)
LEMMA CallsArePlain ==
  /\ Pause \in Plain /\ Stop \in Plain /\ Seek \in Plain
  /\ <<Play>> \in Plain /\ <<Recheck>> \in Plain
  /\ \A t \in Types : <<SetURI(t), Play>> \in Plain
  /\ \A e \in {"DECODE", "START"} : <<Send(e), SetState("PLAY")>> \in Plain
<1>1. \A s \in {"PAUSE", "STOP", "PLAY"} :
          SetState(s) \in Op /\ OpInv(SetState(s)) /\ SetState(s).do # "wait"
  BY DEF Op, OpInv, Events, SetState
<1>2. \A e \in Events \ {"STOP"} : Send(e) \in Op /\ OpInv(Send(e)) /\ Send(e).do # "wait"
  BY DEF Op, OpInv, Events, Send
<1>3. SendAndWaitForOK("STOP") \in Op /\ OpInv(SendAndWaitForOK("STOP"))
      /\ SendAndWaitForOK("STOP").do # "wait"
  BY DEF Op, OpInv, Events, SendAndWaitForOK
<1>4. Play \in Op /\ OpInv(Play) /\ Play.do # "wait" BY DEF Op, OpInv, Events, Play
<1>5. Recheck \in Op /\ OpInv(Recheck) /\ Recheck.do # "wait"
  BY DEF Op, OpInv, Events, Recheck
<1>6. \A t \in Types : SetURI(t) \in Op /\ OpInv(SetURI(t)) /\ SetURI(t).do # "wait"
  BY PSPSoundAssumption DEF Op, OpInv, Events, SetURI
<1>7. Pause \in Plain BY <1>1, <1>2, TwoPlain DEF Pause, Events
<1>8. Stop \in Plain BY <1>1, <1>3, TwoPlain DEF Stop
<1>9. Seek \in Plain BY <1>2, OnePlain DEF Seek, Events
<1>10. \A t \in Types : <<SetURI(t), Play>> \in Plain BY <1>4, <1>6, TwoPlain
<1>11. \A e \in {"DECODE", "START"} : <<Send(e), SetState("PLAY")>> \in Plain
  BY <1>1, <1>2, TwoPlain DEF Events
<1> QED BY <1>4, <1>5, <1>7, <1>8, <1>9, <1>10, <1>11, OnePlain

LEMMA WaitFirst ==
  ASSUME NEW s \in Plain
  PROVE  /\ <<WaitOK>> \o s \in Calls
         /\ <<WaitOK>> \o s # <<>>
         /\ Head(<<WaitOK>> \o s).do = "wait"
<1> DEFINE r == <<WaitOK>> \o s
<1>1. s \in Seq(Op) BY DEF Plain
<1>2. WaitOK \in Op /\ WaitOK.do = "wait" /\ OpInv(WaitOK)
  BY DEF WaitOK, Op, OpInv, Events
<1>3. <<WaitOK>> \in Seq(Op) /\ Len(<<WaitOK>>) = 1 /\ <<WaitOK>>[1] = WaitOK BY <1>2
<1>4. r \in Seq(Op) /\ Len(r) = 1 + Len(s) BY <1>1, <1>3, ConcatProperties
<1>5. r[1] = WaitOK BY <1>1, <1>3, <1>4, ConcatProperties
<1>6. ASSUME NEW i \in 1..Len(r) PROVE OpInv(r[i]) /\ (r[i].do = "wait" => i = 1)
  <2>1. CASE i = 1 BY <1>2, <1>5, <2>1
  <2>2. CASE i # 1
    <3>1. i - 1 \in 1..Len(s) BY <1>1, <1>4, <2>2
    <3>2. r[i] = s[i - 1] BY <1>1, <1>3, <1>4, <2>2, ConcatProperties
    <3> QED BY <3>1, <3>2 DEF Plain
  <2> QED BY <2>1, <2>2
<1>7. r # <<>> /\ Head(r) = r[1] BY <1>1, <1>4
<1> HIDE DEF r
<1>8. r \in Calls BY <1>4, <1>6 DEF Calls
<1>9. r \in Calls /\ r # <<>> /\ Head(r).do = "wait" BY <1>2, <1>5, <1>7, <1>8
<1> QED BY <1>9 DEF r

-----------------------------------------------------------------------------
(* Every initial state satisfies the invariant.                            *)
LEMMA InitIInv == Init => IInv
<1> SUFFICES ASSUME Init PROVE IInv OBVIOUS
<1>1. <<>> \in Calls BY EmptyPlain, PlainIsCall
<1>2. TypeOK
  <2>1. todo \in [Clients -> Seq(Op)] BY DEF Init
  <2>2. queue \in Seq(Events) BY DEF Init
  <2>3. /\ m_CurrentState \in {"PLAY", "PAUSE", "STOP"}
        /\ lock \in Clients \cup {"free"}
        /\ okBlocker \in 0..1
        /\ decPc \in DecLabels
        /\ Decoder \in {"live", "NULL"}
        /\ m_Type \in {"none", "file", "url"}
        /\ m_State \in {"CLOSED", "OPEN"}
        /\ content \in AllContents
        /\ opening \in {"none", "file", "url"}
        /\ resume \in {"no", "play", "pause"}
    BY DEF Init, DecLabels, AllContents
  <2>4. calls \in 0..MaxCalls BY PSPSoundAssumption DEF Init
  <2>5. bDecoderCreated \in BOOLEAN /\ m_pfd \in BOOLEAN /\ m_fdSocket \in BOOLEAN
    BY DEF Init
  <2> QED BY <2>1, <2>2, <2>3, <2>4, <2>5 DEF TypeOK
<1>3. CallsInv BY <1>1 DEF Init, CallsInv
<1>4. LockInv BY DEF Init, LockInv, Waiting, Next1, Clients, Main, Power
<1>5. StopInv /\ DecoderInv BY DEF Init, StopInv, DecoderInv, DecoderIsKept
<1> QED BY <1>2, <1>3, <1>4, <1>5 DEF IInv

-----------------------------------------------------------------------------
(* A client that replaces what it has to do by steps that wait for no      *)
(* answer does not wait, and the other client is not disturbed.            *)
LEMMA OneCallChanges ==
  ASSUME IInv, NEW c \in Clients, NEW s \in Calls,
         todo' = [todo EXCEPT ![c] = s]
  PROVE  /\ todo' \in [Clients -> Seq(Op)]
         /\ CallsInv'
         /\ s \in Plain => ~Waiting(c)'
         /\ \A d \in Clients \ {c} : Waiting(d)' <=> Waiting(d)
<1>1. todo \in [Clients -> Calls] BY DEF IInv, CallsInv
<1>2. todo' \in [Clients -> Calls] BY <1>1
<1>3. todo' \in [Clients -> Seq(Op)] BY <1>2 DEF Calls
<1>4. CallsInv' BY <1>2 DEF CallsInv
<1>5. todo'[c] = s /\ \A d \in Clients \ {c} : todo'[d] = todo[d] BY <1>1
<1>6. s \in Plain => ~Waiting(c)' BY <1>5, HeadOfPlain DEF Waiting, Next1
<1>7. \A d \in Clients \ {c} : Waiting(d)' <=> Waiting(d) BY <1>5 DEF Waiting, Next1
<1> QED BY <1>3, <1>4, <1>6, <1>7

(* A call begins: nothing changes but what its client has to do.           *)
LEMMA CallIInv ==
  ASSUME IInv, NEW c \in Clients, NEW ops \in Plain, Call(c, ops), Rest,
         resume' \in {"no", "play", "pause"}
  PROVE  IInv'
<1> USE DEF Call, Rest, queueVars, decoderVars, streamVars
<1>1. ops \in Calls BY PlainIsCall
<1>2. /\ todo' \in [Clients -> Seq(Op)]
      /\ CallsInv'
      /\ ~Waiting(c)'
      /\ \A d \in Clients \ {c} : Waiting(d)' <=> Waiting(d)
  BY <1>1, OneCallChanges
<1>3. TypeOK' BY <1>2, PSPSoundAssumption DEF IInv, TypeOK
<1>4. ~Waiting(c) BY DEF Waiting, Next1
<1>5. LockInv' BY <1>2, <1>4 DEF IInv, LockInv
<1>6. StopInv' /\ DecoderInv' BY DEF IInv, StopInv, DecoderInv, DecoderIsKept
<1> QED BY <1>2, <1>3, <1>5, <1>6 DEF IInv

(* The calls, by CallIInv.                                                 *)
LEMMA PlaySetStreamIInv ==
  ASSUME IInv, NEW t \in Types, PlaySetStream(t)
  PROVE  IInv'
<1> DEFINE ops == IF m_CurrentState = "PAUSE" THEN <<Play>> ELSE <<SetURI(t), Play>>
<1>1. ops \in Plain BY CallsArePlain
<1>2. Main \in Clients BY DEF Clients
<1>3. Call(Main, ops) /\ Rest /\ resume' = resume BY DEF PlaySetStream
<1>4. resume' \in {"no", "play", "pause"} BY <1>3 DEF IInv, TypeOK
<1> HIDE DEF ops
<1> QED BY <1>1, <1>2, <1>3, <1>4, CallIInv

LEMMA CallPauseIInv ==
  ASSUME IInv, CallPause
  PROVE  IInv'
<1>1. Pause \in Plain /\ Main \in Clients BY CallsArePlain DEF Clients
<1>2. Call(Main, Pause) /\ Rest /\ resume' = resume BY DEF CallPause
<1>3. resume' \in {"no", "play", "pause"} BY <1>2 DEF IInv, TypeOK
<1> QED BY <1>1, <1>2, <1>3, CallIInv

LEMMA CallStopIInv ==
  ASSUME IInv, CallStop
  PROVE  IInv'
<1>1. Stop \in Plain /\ Main \in Clients BY CallsArePlain DEF Clients
<1>2. Call(Main, Stop) /\ Rest /\ resume' = resume BY DEF CallStop
<1>3. resume' \in {"no", "play", "pause"} BY <1>2 DEF IInv, TypeOK
<1> QED BY <1>1, <1>2, <1>3, CallIInv

LEMMA SuspendIInv ==
  ASSUME IInv, Suspend
  PROVE  IInv'
<1> DEFINE ops == IF m_CurrentState = "PLAY" THEN Stop \o <<Recheck>> ELSE <<Recheck>>
<1>1. ops \in Plain BY CallsArePlain, ConcatPlain
<1>2. Power \in Clients BY DEF Clients
<1>3. Call(Power, ops) /\ Rest BY DEF Suspend
<1>4. resume' \in {"no", "play", "pause"} BY DEF Suspend, IInv, TypeOK
<1> HIDE DEF ops
<1> QED BY <1>1, <1>2, <1>3, <1>4, CallIInv

LEMMA ResumeIInv ==
  ASSUME IInv, Resume
  PROVE  IInv'
<1> DEFINE seek == IF m_Type = "file" THEN Seek ELSE <<>>
           pause == IF resume = "pause" THEN Pause ELSE <<>>
           ops == <<Play>> \o seek \o pause
<1>1. seek \in Plain /\ pause \in Plain BY CallsArePlain, EmptyPlain
<1>2. Call(Main, ops) /\ Rest /\ resume' = "no" BY DEF Resume
<1> HIDE DEF seek, pause
<1>3. ops \in Plain BY <1>1, CallsArePlain, ConcatPlain
<1>4. Main \in Clients BY DEF Clients
<1> HIDE DEF ops
<1> QED BY <1>2, <1>3, <1>4, CallIInv

-----------------------------------------------------------------------------
(* The steps of a call.                                                    *)

(* What a client that has something to do can have to do.                  *)
LEMMA HeadOfCall ==
  ASSUME IInv, NEW c \in Clients, todo[c] # <<>>
  PROVE  /\ Tail(todo[c]) \in Plain
         /\ Head(todo[c]) \in Op
         /\ OpInv(Head(todo[c]))
<1>1. todo[c] \in Calls BY DEF IInv, CallsInv
<1> QED BY <1>1, TailOfCall

(* A step that is not a wait and leaves steps that are none, and changes   *)
(* nothing that the queue or the decode thread look at.                    *)
LEMMA QuietStepIInv ==
  ASSUME IInv, NEW c \in Clients, ~Waiting(c),
         NEW s \in Plain, todo' = [todo EXCEPT ![c] = s],
         UNCHANGED <<queueVars, decPc, decoderVars>>, TypeOK'
  PROVE  IInv'
<1> USE DEF queueVars, decoderVars
<1>1. s \in Calls BY PlainIsCall
<1>2. /\ CallsInv'
      /\ ~Waiting(c)'
      /\ \A d \in Clients \ {c} : Waiting(d)' <=> Waiting(d)
  BY <1>1, OneCallChanges
<1>3. LockInv' BY <1>2 DEF IInv, LockInv
<1>4. StopInv' /\ DecoderInv' BY DEF IInv, StopInv, DecoderInv, DecoderIsKept
<1> QED BY <1>2, <1>3, <1>4 DEF IInv

LEMMA DoSetURIIInv ==
  ASSUME IInv, NEW c \in Clients, DoSetURI(c)
  PROVE  IInv'
<1>1. /\ Tail(todo[c]) \in Plain
      /\ Head(todo[c]) \in Op
      /\ OpInv(Head(todo[c]))
  BY HeadOfCall DEF DoSetURI, Next1
<1>2. ~Waiting(c) BY DEF DoSetURI, Next1, Waiting
<1>3. todo' = [todo EXCEPT ![c] = Tail(todo[c])] BY DEF DoSetURI, Done
<1>4. todo' \in [Clients -> Seq(Op)] BY <1>1, <1>3, OneCallChanges, PlainIsCall
<1>5. m_Type' \in {"file", "url"} BY <1>1 DEF DoSetURI, Next1, Arg, OpInv
<1>6. TypeOK'
  BY <1>4, <1>5 DEF IInv, TypeOK, DoSetURI, queueVars, decoderVars, AllContents
<1> QED BY <1>1, <1>2, <1>3, <1>6, QuietStepIInv DEF DoSetURI

LEMMA DoPlayIInv ==
  ASSUME IInv, NEW c \in Clients, DoPlay(c)
  PROVE  IInv'
<1> DEFINE ops == <<Send(IF m_CurrentState = "PAUSE" THEN "DECODE" ELSE "START"),
                    SetState("PLAY")>>
<1>1. ops \in Plain BY CallsArePlain
<1>2. todo' = [todo EXCEPT ![c] = ops \o Tail(todo[c])] BY DEF DoPlay, Instead
<1> HIDE DEF ops
<1>3. ops \o Tail(todo[c]) \in Plain BY <1>1, HeadOfCall, ConcatPlain DEF DoPlay, Next1
<1>4. ~Waiting(c) BY DEF DoPlay, Next1, Waiting
<1>5. todo' \in [Clients -> Seq(Op)] BY <1>2, <1>3, OneCallChanges, PlainIsCall
<1>6. TypeOK'
  BY <1>5 DEF IInv, TypeOK, DoPlay, queueVars, decoderVars, streamVars
<1> QED BY <1>2, <1>3, <1>4, <1>6, QuietStepIInv DEF DoPlay

LEMMA DoSetStateIInv ==
  ASSUME IInv, NEW c \in Clients, DoSetState(c)
  PROVE  IInv'
<1>1. /\ Tail(todo[c]) \in Plain
      /\ Head(todo[c]) \in Op
      /\ OpInv(Head(todo[c]))
  BY HeadOfCall DEF DoSetState, Next1
<1>2. ~Waiting(c) BY DEF DoSetState, Next1, Waiting
<1>3. todo' = [todo EXCEPT ![c] = Tail(todo[c])] BY DEF DoSetState, Done
<1>4. todo' \in [Clients -> Seq(Op)] BY <1>1, <1>3, OneCallChanges, PlainIsCall
<1>5. m_CurrentState' \in {"PLAY", "PAUSE", "STOP"}
  BY <1>1 DEF DoSetState, Next1, Arg, OpInv
<1>6. TypeOK'
  BY <1>4, <1>5 DEF IInv, TypeOK, DoSetState, queueVars, decoderVars, streamVars
<1> QED BY <1>1, <1>2, <1>3, <1>6, QuietStepIInv DEF DoSetState

LEMMA DoRecheckIInv ==
  ASSUME IInv, NEW c \in Clients, DoRecheck(c)
  PROVE  IInv'
<1>1. Tail(todo[c]) \in Plain /\ Stop \o Tail(todo[c]) \in Plain
  BY HeadOfCall, CallsArePlain, ConcatPlain DEF DoRecheck, Next1
<1>2. ~Waiting(c) BY DEF DoRecheck, Next1, Waiting
<1>3. PICK s \in Plain : todo' = [todo EXCEPT ![c] = s]
  BY <1>1 DEF DoRecheck, Instead, Done
<1>4. todo' \in [Clients -> Seq(Op)] BY <1>3, OneCallChanges, PlainIsCall
<1>5. resume' \in {"no", "play", "pause"} BY DEF DoRecheck, IInv, TypeOK
<1>6. TypeOK'
  BY <1>4, <1>5 DEF IInv, TypeOK, DoRecheck, queueVars, decoderVars, streamVars
<1> QED BY <1>2, <1>3, <1>6, QuietStepIInv DEF DoRecheck

(* An event is put behind those that are queued.                           *)
LEMMA OneMoreQueued ==
  ASSUME IInv, NEW e \in Events
  PROVE  /\ Append(queue, e) \in Seq(Events)
         /\ Append(queue, e) # <<>>
         /\ Len(Append(queue, e)) = Len(queue) + 1
         /\ Len(queue) \in Nat
         /\ Append(queue, e)[Len(queue) + 1] = e
         /\ \A i \in 1..Len(queue) : Append(queue, e)[i] = queue[i]
<1>1. queue \in Seq(Events) BY DEF IInv, TypeOK
<1> QED BY <1>1

(* While the lock is free no STOP is queued, handled or answered.          *)
LEMMA FreeHasNoStop ==
  ASSUME IInv, lock = "free"
  PROVE  /\ \A i \in 1..Len(queue) : queue[i] # "STOP"
         /\ decPc # "STOP"
         /\ okBlocker = 0
  BY DEF IInv, StopInv, TypeOK

(* So what is sent then cannot follow a STOP.                              *)
LEMMA SendKeepsStopInv ==
  ASSUME IInv, lock = "free", NEW e \in Events \ {"STOP"},
         queue' = Append(queue, e), UNCHANGED <<lock, okBlocker>>, decPc' # "STOP"
  PROVE  StopInv'
<1>1. /\ Len(queue') = Len(queue) + 1
      /\ Len(queue) \in Nat
      /\ queue'[Len(queue) + 1] = e
      /\ \A i \in 1..Len(queue) : queue'[i] = queue[i]
  BY OneMoreQueued
<1>2. \A i \in 1..Len(queue') : i \in 1..Len(queue) \/ i = Len(queue) + 1 BY <1>1
<1>3. \A i \in 1..Len(queue') : queue'[i] # "STOP" BY <1>1, <1>2, FreeHasNoStop
<1>4. okBlocker' = 0 BY FreeHasNoStop
<1> QED BY <1>3, <1>4 DEF StopInv

LEMMA DoSendIInv ==
  ASSUME IInv, NEW c \in Clients, DoSend(c)
  PROVE  IInv'
<1> USE DEF decoderVars, streamVars
<1>1. /\ Tail(todo[c]) \in Plain
      /\ OpInv(Head(todo[c]))
  BY HeadOfCall DEF DoSend, Next1
<1>2. Arg(c) \in Events \ {"STOP"} BY <1>1 DEF DoSend, Next1, Arg, OpInv
<1>3. ~Waiting(c) BY DEF DoSend, Next1, Waiting
<1>4. todo' = [todo EXCEPT ![c] = Tail(todo[c])] BY DEF DoSend, Done
<1>5. /\ todo' \in [Clients -> Seq(Op)]
      /\ CallsInv'
      /\ ~Waiting(c)'
      /\ \A d \in Clients \ {c} : Waiting(d)' <=> Waiting(d)
  BY <1>1, <1>4, OneCallChanges, PlainIsCall
<1>6. queue' \in Seq(Events) BY <1>2, OneMoreQueued DEF DoSend
<1>7. TypeOK' BY <1>5, <1>6 DEF IInv, TypeOK, DoSend
<1>8. LockInv' BY <1>3, <1>5 DEF IInv, LockInv, DoSend
<1>9. decPc' # "STOP" BY FreeHasNoStop DEF DoSend
<1>10. StopInv' BY <1>2, <1>9, SendKeepsStopInv DEF DoSend
<1>11. DecoderInv' BY DEF IInv, DecoderInv, DecoderIsKept, DoSend
<1> QED BY <1>5, <1>7, <1>8, <1>10, <1>11 DEF IInv

LEMMA DoSendAndWaitIInv ==
  ASSUME IInv, NEW c \in Clients, DoSendAndWait(c)
  PROVE  IInv'
<1> USE DEF decoderVars, streamVars
<1> DEFINE s == <<WaitOK>> \o Tail(todo[c])
<1>1. /\ Tail(todo[c]) \in Plain
      /\ OpInv(Head(todo[c]))
  BY HeadOfCall DEF DoSendAndWait, Next1
<1>2. Arg(c) \in Events BY <1>1 DEF DoSendAndWait, Next1, Arg, OpInv, Events
<1>3. s \in Calls /\ s # <<>> /\ Head(s).do = "wait" BY <1>1, WaitFirst
<1>4. todo' = [todo EXCEPT ![c] = s] BY DEF DoSendAndWait, Instead
<1> HIDE DEF s
<1>5. /\ todo' \in [Clients -> Seq(Op)]
      /\ CallsInv'
      /\ \A d \in Clients \ {c} : Waiting(d)' <=> Waiting(d)
  BY <1>3, <1>4, OneCallChanges
<1>6. Waiting(c)'
  <2>1. todo'[c] = s BY <1>4 DEF IInv, TypeOK
  <2> QED BY <1>3, <2>1 DEF Waiting, Next1
<1>7. \A d \in Clients \ {c} : ~Waiting(d)
  BY DEF IInv, LockInv, DoSendAndWait, Clients, Main, Power
<1>8. queue' \in Seq(Events) BY <1>2, OneMoreQueued DEF DoSendAndWait
<1>9. TypeOK' BY <1>5, <1>8 DEF IInv, TypeOK, DoSendAndWait
<1>10. LockInv' BY <1>5, <1>6, <1>7 DEF LockInv, DoSendAndWait
<1>11. StopInv'
  <2>1. lock' # "free" BY DEF DoSendAndWait, Clients, Main, Power
  <2>2. /\ Len(queue') = Len(queue) + 1
        /\ Len(queue) \in Nat
        /\ \A i \in 1..Len(queue) : queue'[i] = queue[i]
    BY <1>2, OneMoreQueued DEF DoSendAndWait
  <2>3. \A i \in 1..Len(queue') : i \in 1..Len(queue) \/ i = Len(queue') BY <2>2
  <2>4. \A i \in 1..Len(queue') : queue'[i] = "STOP" => i = Len(queue')
    BY <2>2, <2>3, FreeHasNoStop DEF DoSendAndWait
  <2>5. decPc' # "STOP" /\ okBlocker' = 0 BY FreeHasNoStop DEF DoSendAndWait
  <2> QED BY <2>1, <2>4, <2>5 DEF StopInv
<1>12. DecoderInv' BY DEF IInv, DecoderInv, DecoderIsKept, DoSendAndWait
<1> QED BY <1>5, <1>9, <1>10, <1>11, <1>12 DEF IInv

LEMMA DoWaitOKIInv ==
  ASSUME IInv, NEW c \in Clients, DoWaitOK(c)
  PROVE  IInv'
<1> USE DEF decoderVars, streamVars
<1>1. Tail(todo[c]) \in Plain BY HeadOfCall DEF DoWaitOK, Next1
<1>2. todo' = [todo EXCEPT ![c] = Tail(todo[c])] BY DEF DoWaitOK, Done
<1>3. /\ todo' \in [Clients -> Seq(Op)]
      /\ CallsInv'
      /\ ~Waiting(c)'
      /\ \A d \in Clients \ {c} : Waiting(d)' <=> Waiting(d)
  BY <1>1, <1>2, OneCallChanges, PlainIsCall
<1>4. lock = c BY DEF IInv, LockInv, Waiting, DoWaitOK
<1>5. \A d \in Clients \ {c} : ~Waiting(d) BY <1>4 DEF IInv, LockInv
<1>6. lock' = "free" /\ "free" \notin Clients BY DEF DoWaitOK, Clients, Main, Power
<1>7. LockInv' BY <1>3, <1>5, <1>6 DEF LockInv
<1>8. okBlocker' = 0 /\ queue' = queue /\ queue = <<>> /\ decPc' = "receive"
  BY DEF IInv, TypeOK, StopInv, DoWaitOK
<1>9. TypeOK' BY <1>3, <1>6, <1>8 DEF IInv, TypeOK, DoWaitOK
<1>10. StopInv' BY <1>8 DEF StopInv
<1>11. DecoderInv' BY DEF IInv, DecoderInv, DecoderIsKept, DoWaitOK
<1> QED BY <1>3, <1>7, <1>9, <1>10, <1>11 DEF IInv

LEMMA ClientStepIInv ==
  ASSUME IInv, NEW c \in Clients, ClientStep(c)
  PROVE  IInv'
  BY DoSetURIIInv, DoPlayIInv, DoSetStateIInv, DoSendIInv, DoSendAndWaitIInv,
     DoWaitOKIInv, DoRecheckIInv DEF ClientStep

-----------------------------------------------------------------------------
(* The decode thread.  None of its steps changes what the clients have to  *)
(* do or who holds the lock.                                               *)

LEMMA DecodeKeepsCalls ==
  ASSUME IInv, UNCHANGED <<todo, lock>>
  PROVE  CallsInv' /\ LockInv'
  BY DEF IInv, CallsInv, LockInv, Waiting, Next1

(* A step that leaves the queue and its answer alone and is neither to nor *)
(* from the handling of a STOP, nor from the wait for an event.            *)
LEMMA StopInvStays ==
  ASSUME IInv, UNCHANGED <<queue, lock, okBlocker>>,
         decPc # "receive", decPc' # "STOP"
  PROVE  StopInv'
  BY DEF IInv, StopInv, TypeOK

LEMMA CloseStreamType ==
  ASSUME TypeOK, CloseStream \/ KeepStream
  PROVE  m_State' \in {"CLOSED", "OPEN"} /\ m_pfd' \in BOOLEAN /\ m_fdSocket' \in BOOLEAN
<1>1. CASE CloseStream BY <1>1 DEF CloseStream
<1>2. CASE KeepStream BY <1>2 DEF KeepStream, TypeOK
<1> QED BY <1>1, <1>2

LEMMA ReceiveIInv ==
  ASSUME IInv, Receive
  PROVE  IInv'
<1> USE DEF Receive, DecGo, clientVars, decoderVars, streamVars
<1>1. queue \in Seq(Events) /\ queue # <<>> BY DEF IInv, TypeOK
<1>2. /\ queue' \in Seq(Events)
      /\ Len(queue) \in Nat \ {0}
      /\ Len(queue') = Len(queue) - 1
      /\ \A i \in 1..Len(queue') : queue'[i] = queue[i + 1]
  BY <1>1
<1>3. decPc' = queue[1] /\ decPc' \in Events BY <1>1
<1>4. TypeOK'
  <2>1. decPc' \in DecLabels BY <1>3 DEF DecLabels
  <2> QED BY <1>2, <2>1 DEF IInv, TypeOK
<1>5. CallsInv' /\ LockInv' BY DecodeKeepsCalls
<1>6. okBlocker' = 0 BY <1>1 DEF IInv, TypeOK, StopInv
<1>7. StopInv'
  <2>1. \A i \in 1..Len(queue) : queue[i] = "STOP" => i = Len(queue) /\ lock # "free"
    BY DEF IInv, StopInv
  <2>2. lock' = lock OBVIOUS
  <2>3. decPc' = "STOP" => lock' # "free" /\ queue' = <<>>
    <3>1. 1 \in 1..Len(queue) BY <1>2
    <3> HIDE DEF Receive
    <3>2. Len(queue') = 0 => queue' = <<>> BY <1>2, EmptySeq
    <3>3. decPc' = "STOP" => Len(queue) = 1 /\ lock # "free" BY <1>3, <2>1, <3>1
    <3>4. Len(queue) = 1 => Len(queue') = 0 BY <1>2
    <3> QED BY <2>2, <3>2, <3>3, <3>4
  <2>4. ASSUME NEW i \in 1..Len(queue'), queue'[i] = "STOP"
        PROVE  i = Len(queue') /\ lock' # "free" /\ decPc' # "STOP"
    <3> HIDE DEF Receive
    <3>1. i + 1 \in 1..Len(queue) /\ queue[i + 1] = "STOP" BY <1>2, <2>4
    <3>2. i + 1 = Len(queue) /\ lock # "free" BY <2>1, <3>1
    <3>3. 1 \in 1..Len(queue) /\ 1 # Len(queue) BY <1>2, <2>4, <3>2
    <3>4. queue[1] # "STOP" BY <2>1, <3>3
    <3> QED BY <1>2, <1>3, <2>2, <3>2, <3>4
  <2> HIDE DEF Receive
  <2> QED BY <1>6, <2>3, <2>4 DEF StopInv
<1>8. DecoderInv' BY <1>3 DEF IInv, DecoderInv, DecoderIsKept, Events
<1> QED BY <1>4, <1>5, <1>7, <1>8 DEF IInv

LEMMA StartIInv ==
  ASSUME IInv, Start
  PROVE  IInv'
<1> USE DEF Start, DecGo, clientVars, queueVars, DeleteDecoder
<1>1. CloseStream \/ KeepStream BY DEF decoderVars
<1>2. Decoder' = "NULL" BY DEF IInv, TypeOK, DecoderInv, DecoderIsKept, decoderVars
<1>3. bDecoderCreated' = bDecoderCreated BY DEF decoderVars
<1>4. TypeOK' BY <1>1, <1>2, <1>3, CloseStreamType DEF IInv, TypeOK, DecLabels
<1>5. CallsInv' /\ LockInv' BY DecodeKeepsCalls
<1>6. StopInv' BY StopInvStays
<1>7. DecoderInv' BY <1>2 DEF DecoderInv, DecoderIsKept
<1> QED BY <1>4, <1>5, <1>6, <1>7 DEF IInv

LEMMA OpenBeginIInv ==
  ASSUME IInv, OpenBegin
  PROVE  IInv'
<1> USE DEF OpenBegin, DecGo, clientVars, queueVars, decoderVars
<1>1. CloseStream \/ KeepStream OBVIOUS
<1>2. TypeOK' BY <1>1, CloseStreamType DEF IInv, TypeOK, DecLabels, AllContents
<1>3. CallsInv' /\ LockInv' BY DecodeKeepsCalls
<1>4. StopInv' BY StopInvStays
<1>5. DecoderInv' BY DEF IInv, DecoderInv, DecoderIsKept
<1> QED BY <1>2, <1>3, <1>4, <1>5 DEF IInv

LEMMA OpenEndIInv ==
  ASSUME IInv, NEW ok \in BOOLEAN, NEW c \in Contents, OpenEnd(ok, c)
  PROVE  IInv'
<1> USE DEF OpenEnd, DecGo, clientVars, queueVars, decoderVars
<1>1. m_pfd' \in BOOLEAN /\ m_fdSocket' \in BOOLEAN BY DEF IInv, TypeOK
<1>2. m_State' \in {"CLOSED", "OPEN"} BY DEF IInv, TypeOK
<1>3. content' \in AllContents BY PSPSoundAssumption DEF IInv, TypeOK
<1>4. TypeOK' BY <1>1, <1>2, <1>3 DEF IInv, TypeOK, DecLabels
<1>5. CallsInv' /\ LockInv' BY DecodeKeepsCalls
<1>6. StopInv' BY StopInvStays
<1>7. DecoderInv' BY DEF IInv, DecoderInv, DecoderIsKept
<1> QED BY <1>4, <1>5, <1>6, <1>7 DEF IInv

(* What follows Open, by the content of the stream.                        *)
LEMMA AfterOpenIInv ==
  ASSUME IInv,
         \/ NotOpened \/ CreateDecoder \/ NotSupported \/ EmptyPlaylist
         \/ \E t \in Types, short \in BOOLEAN : ReadPlaylist(t, short)
  PROVE  IInv'
<1> USE DEF DecGo, clientVars, queueVars
<1>1. CASE NotOpened
  <2> USE <1>1 DEF NotOpened, decoderVars, streamVars
  <2>1. TypeOK' BY DEF IInv, TypeOK, DecLabels
  <2>2. CallsInv' /\ LockInv' BY DecodeKeepsCalls
  <2>3. StopInv' BY StopInvStays
  <2>4. DecoderInv' BY DEF IInv, DecoderInv, DecoderIsKept
  <2> QED BY <2>1, <2>2, <2>3, <2>4 DEF IInv
<1>2. CASE CreateDecoder
  <2> USE <1>2 DEF CreateDecoder, streamVars
  <2>1. TypeOK' BY DEF IInv, TypeOK, DecLabels
  <2>2. CallsInv' /\ LockInv' BY DecodeKeepsCalls
  <2>3. StopInv' BY StopInvStays
  <2>4. DecoderInv' BY DEF DecoderInv, DecoderIsKept
  <2> QED BY <2>1, <2>2, <2>3, <2>4 DEF IInv
<1>3. CASE NotSupported
  <2> USE <1>3 DEF NotSupported, streamVars
  <2>1. TypeOK' BY DEF IInv, TypeOK, DecLabels
  <2>2. CallsInv' /\ LockInv' BY DecodeKeepsCalls
  <2>3. StopInv' BY StopInvStays
  <2>4. DecoderInv' BY DEF IInv, DecoderInv, DecoderIsKept
  <2> QED BY <2>1, <2>2, <2>3, <2>4 DEF IInv
<1>4. CASE EmptyPlaylist
  <2> USE <1>4 DEF EmptyPlaylist
  <2>1. TypeOK' BY CloseStreamType DEF IInv, TypeOK, DecLabels
  <2>2. CallsInv' /\ LockInv' BY DecodeKeepsCalls
  <2>3. StopInv' BY StopInvStays
  <2>4. DecoderInv' BY DEF IInv, DecoderInv, DecoderIsKept
  <2> QED BY <2>1, <2>2, <2>3, <2>4 DEF IInv
<1>5. ASSUME NEW t \in Types, NEW short \in BOOLEAN, ReadPlaylist(t, short)
      PROVE  IInv'
  <2> USE <1>5 DEF ReadPlaylist
  <2>1. CloseStream \/ KeepStream OBVIOUS
  <2>2. TypeOK'
    BY <2>1, CloseStreamType, PSPSoundAssumption DEF IInv, TypeOK, DecLabels, AllContents
  <2>3. CallsInv' /\ LockInv' BY DecodeKeepsCalls
  <2>4. StopInv' BY StopInvStays
  <2>5. DecoderInv' BY DEF IInv, DecoderInv, DecoderIsKept
  <2> QED BY <2>2, <2>3, <2>4, <2>5 DEF IInv
<1> QED BY <1>1, <1>2, <1>3, <1>4, <1>5

(* The decode thread needs the lock to send to itself: no STOP is there.   *)
LEMMA SendToSelfIInv ==
  ASSUME IInv, SendDecode \/ SendRetry \/ SendPlaylistStart
  PROVE  IInv'
<1> USE DEF DecGo, clientVars, decoderVars
<1>1. PICK e \in {"DECODE", "START"}, from \in {"senddecode", "sendretry", "sendplaylist"} :
          SendToSelf(from, e)
  BY DEF SendDecode, SendRetry, SendPlaylistStart
<1>2. CloseStream \/ KeepStream BY DEF SendDecode, SendRetry, SendPlaylistStart
<1>3. e \in Events \ {"STOP"} BY DEF Events
<1>4. queue' \in Seq(Events) BY <1>1, <1>3, OneMoreQueued DEF SendToSelf
<1>5. TypeOK' BY <1>1, <1>2, <1>4, CloseStreamType DEF IInv, TypeOK, DecLabels, SendToSelf
<1>6. CallsInv' /\ LockInv' BY <1>1, DecodeKeepsCalls DEF SendToSelf
<1>7. StopInv' BY <1>1, <1>3, SendKeepsStopInv DEF SendToSelf
<1>8. DecoderInv' BY <1>1 DEF IInv, DecoderInv, DecoderIsKept, SendToSelf
<1> QED BY <1>5, <1>6, <1>7, <1>8 DEF IInv

LEMMA RetryStartIInv ==
  ASSUME IInv, RetryStart
  PROVE  IInv'
<1> USE DEF RetryStart, DecGo, clientVars, queueVars, decoderVars
<1>1. TypeOK' BY CloseStreamType DEF IInv, TypeOK, DecLabels
<1>2. CallsInv' /\ LockInv' BY DecodeKeepsCalls
<1>3. StopInv' BY StopInvStays
<1>4. DecoderInv' BY DEF IInv, DecoderInv, DecoderIsKept
<1> QED BY <1>1, <1>2, <1>3, <1>4 DEF IInv

(* The steps that only go from one place to another.                       *)
LEMMA DecodeMovesIInv ==
  ASSUME IInv,
         \/ BeginDecoding \/ LoopAgain \/ DecodeReturns \/ LeaveLoop
         \/ SeekDecoder \/ PauseDecoder
  PROVE  IInv'
<1> USE DEF BeginDecoding, LoopAgain, DecodeReturns, LeaveLoop, SeekDecoder, PauseDecoder,
            DecGo, clientVars, queueVars, decoderVars, streamVars
<1>1. decPc # "receive" /\ decPc' \in {"decoding", "indecode", "crashed", "receive"}
  OBVIOUS
<1>2. UNCHANGED <<m_CurrentState, clientVars, queueVars, decoderVars, streamVars>>
  OBVIOUS
<1> HIDE DEF BeginDecoding, LoopAgain, DecodeReturns, LeaveLoop, SeekDecoder, PauseDecoder,
             DecGo
<1>3. TypeOK' BY <1>1, <1>2 DEF IInv, TypeOK, DecLabels
<1>4. CallsInv' /\ LockInv' BY <1>2, DecodeKeepsCalls
<1>5. StopInv' BY <1>1, <1>2, StopInvStays
<1>6. DecoderInv' BY <1>1, <1>2 DEF IInv, DecoderInv, DecoderIsKept
<1> QED BY <1>3, <1>4, <1>5, <1>6 DEF IInv

LEMMA EndOfStreamIInv ==
  ASSUME IInv, EndOfStream
  PROVE  IInv'
<1> USE DEF EndOfStream, DecGo, clientVars, queueVars, DeleteDecoder
<1>1. CloseStream \/ KeepStream OBVIOUS
<1>2. TypeOK' BY <1>1, CloseStreamType DEF IInv, TypeOK, DecLabels
<1>3. CallsInv' /\ LockInv' BY DecodeKeepsCalls
<1>4. StopInv' BY StopInvStays
<1>5. DecoderInv' BY DEF DecoderInv, DecoderIsKept
<1> QED BY <1>2, <1>3, <1>4, <1>5 DEF IInv

LEMMA ConnectionEndsIInv ==
  ASSUME IInv, ConnectionEnds
  PROVE  IInv'
<1> USE DEF ConnectionEnds, clientVars, queueVars, decoderVars
<1>1. TypeOK' BY CloseStreamType DEF IInv, TypeOK
<1>2. CallsInv' /\ LockInv' BY DecodeKeepsCalls
<1>3. StopInv' BY StopInvStays
<1>4. DecoderInv' BY DEF IInv, DecoderInv, DecoderIsKept
<1> QED BY <1>1, <1>2, <1>3, <1>4 DEF IInv

LEMMA StopDecoderIInv ==
  ASSUME IInv, StopDecoder
  PROVE  IInv'
<1> USE DEF StopDecoder, DecGo, clientVars, DeleteDecoder
<1>1. CloseStream \/ KeepStream OBVIOUS
<1>2. Decoder' = "NULL" BY DEF IInv, TypeOK, DecoderInv, DecoderIsKept
<1>3. TypeOK' BY <1>1, <1>2, CloseStreamType DEF IInv, TypeOK, DecLabels
<1>4. CallsInv' /\ LockInv' BY DecodeKeepsCalls
<1>5. lock # "free" /\ queue = <<>> BY DEF IInv, StopInv
<1>6. StopInv'
  <2>1. \A i \in 1..Len(queue') : FALSE BY <1>5
  <2> QED BY <1>2, <1>5, <2>1 DEF StopInv
<1>7. DecoderInv' BY <1>2 DEF DecoderInv, DecoderIsKept
<1> QED BY <1>3, <1>4, <1>6, <1>7 DEF IInv

LEMMA DecodeStepIInv ==
  ASSUME IInv, DecodeStep
  PROVE  IInv'
  BY ReceiveIInv, StartIInv, OpenBeginIInv, OpenEndIInv, AfterOpenIInv, SendToSelfIInv,
     RetryStartIInv, DecodeMovesIInv, EndOfStreamIInv, StopDecoderIInv
  DEF DecodeStep

-----------------------------------------------------------------------------
(* IInv is an invariant of the specification.                              *)
LEMMA StutterIInv ==
  ASSUME IInv, UNCHANGED vars
  PROVE  IInv'
<1> USE DEF vars, clientVars, queueVars, decoderVars, streamVars
<1>1. TypeOK' BY DEF IInv, TypeOK
<1>2. CallsInv' /\ LockInv' BY DecodeKeepsCalls
<1>3. StopInv' /\ DecoderInv' BY DEF IInv, StopInv, DecoderInv, DecoderIsKept
<1> QED BY <1>1, <1>2, <1>3 DEF IInv

LEMMA NextIInv ==
  ASSUME IInv, [Next]_vars
  PROVE  IInv'
<1>1. CASE \E t \in Types : PlaySetStream(t) BY <1>1, PlaySetStreamIInv
<1>2. CASE CallPause \/ CallStop \/ Suspend \/ Resume
  BY <1>2, CallPauseIInv, CallStopIInv, SuspendIInv, ResumeIInv
<1>3. CASE \E c \in Clients : ClientStep(c) BY <1>3, ClientStepIInv
<1>4. CASE DecodeStep BY <1>4, DecodeStepIInv
<1>5. CASE StreamEnds BY <1>5, ConnectionEndsIInv, EndOfStreamIInv DEF StreamEnds
<1>6. CASE UNCHANGED vars BY <1>6, StutterIInv
<1> QED BY <1>1, <1>2, <1>3, <1>4, <1>5, <1>6 DEF Next

(* The strengthened invariant holds in every state.                        *)
THEOREM Invariance == Spec => []IInv
<1>1. Init => IInv BY InitIInv
<1>2. IInv /\ [Next]_vars => IInv' BY NextIInv
<1> QED BY <1>1, <1>2, PTL DEF Spec

(* Every variable keeps its type, whatever is called how often.            *)
THEOREM TypeCorrect == Spec => []TypeOK
<1>1. IInv => TypeOK BY DEF IInv
<1> QED BY <1>1, Invariance, PTL

(* No decoder is lost: the flag by which START and STOP delete it is set   *)
(* while there is one, whatever the stream turned out to be meanwhile.     *)
THEOREM NoDecoderIsLost == Spec => []DecoderIsKept
<1>1. IInv => DecoderIsKept BY DEF IInv, DecoderInv
<1> QED BY <1>1, Invariance, PTL

(* An answered Stop left nothing that decodes, and somebody waits for the  *)
(* answer: no Stop takes the answer to another.                            *)
THEOREM StopIsFinal == Spec => []StopLeavesQuiet
<1>1. IInv => StopLeavesQuiet
  <2> SUFFICES ASSUME IInv, okBlocker > 0 PROVE StopLeavesQuiet
    BY DEF StopLeavesQuiet
  <2>1. lock # "free" /\ queue = <<>> /\ decPc = "receive" /\ Decoder = "NULL"
    BY DEF IInv, StopInv
  <2>2. \E c \in Clients : Waiting(c) BY <2>1 DEF IInv, TypeOK, LockInv
  <2> QED BY <2>1, <2>2 DEF StopLeavesQuiet
<1> QED BY <1>1, Invariance, PTL

-----------------------------------------------------------------------------
(* What is stopped becomes quiet.  Stop sets the state before it sends the *)
(* STOP, Play sends the START or DECODE before it sets the state: so when  *)
(* the state is STOP and the decode thread has something to start with,    *)
(* one of the two callers still owes a STOP, an answer to one, or another  *)
(* state.                                                                  *)

OwedOp(o) == o.do \in {"sendwait", "wait"} \/ (o.do = "state" /\ o.arg # "STOP")

Starts == {"START", "DECODE"}

(* The steps that have to be followed by one that is owed.                 *)
Heralds(o) == (o.do = "state" /\ o.arg = "STOP") \/ (o.do = "send" /\ o.arg \in Starts)

Owes(s) == \E i \in 1..Len(s) : OwedOp(s[i])

Kept(s) == \A i \in 1..Len(s) : Heralds(s[i]) => i < Len(s) /\ OwedOp(s[i + 1])

Owing == \E c \in Clients : Owes(todo[c])

Quiet == ~AtWork /\ \A i \in 1..Len(queue) : queue[i] \notin Starts

QuietInv ==
  /\ \A c \in Clients : Kept(todo[c])
  /\ m_CurrentState = "STOP" => Quiet \/ Owing

LEMMA KeptEmpty == Kept(<<>>) /\ ~Owes(<<>>)
  BY DEF Kept, Owes

LEMMA KeptOne ==
  ASSUME NEW o \in Op, ~Heralds(o)
  PROVE  Kept(<<o>>)
<1>1. Len(<<o>>) = 1 /\ <<o>>[1] = o OBVIOUS
<1>2. \A i \in 1..1 : i = 1 OBVIOUS
<1> QED BY <1>1, <1>2 DEF Kept

LEMMA KeptTwo ==
  ASSUME NEW o \in Op, NEW p \in Op, Heralds(o) => OwedOp(p), ~Heralds(p)
  PROVE  Kept(<<o, p>>)
<1>1. Len(<<o, p>>) = 2 /\ <<o, p>>[1] = o /\ <<o, p>>[2] = p OBVIOUS
<1>2. \A i \in 1..2 : i = 1 \/ i = 2 OBVIOUS
<1> QED BY <1>1, <1>2 DEF Kept

LEMMA KeptConcat ==
  ASSUME NEW s \in Seq(Op), NEW t \in Seq(Op), Kept(t)
  PROVE  /\ Kept(s) => Kept(s \o t)
         /\ Owes(t) => Owes(s \o t)
<1> DEFINE r == s \o t
<1>1. /\ Len(r) = Len(s) + Len(t) /\ Len(s) \in Nat /\ Len(t) \in Nat
      /\ \A i \in 1..Len(s) : r[i] = s[i]
      /\ \A i \in 1..Len(t) : r[Len(s) + i] = t[i]
  OBVIOUS
<1> HIDE DEF r
<1>2. ASSUME Kept(s), NEW i \in 1..Len(r), Heralds(r[i])
      PROVE  i < Len(r) /\ OwedOp(r[i + 1])
  <2>1. CASE i <= Len(s)
    <3>1. i \in 1..Len(s) /\ r[i] = s[i] BY <1>1, <2>1
    <3>2. i < Len(s) /\ OwedOp(s[i + 1]) BY <1>2, <3>1 DEF Kept
    <3>3. i + 1 \in 1..Len(s) BY <1>1, <3>2
    <3> QED BY <1>1, <3>2, <3>3
  <2>2. CASE i > Len(s)
    <3>1. PICK k \in 1..Len(t) : i = Len(s) + k
      <4>1. i - Len(s) \in 1..Len(t) /\ i = Len(s) + (i - Len(s)) BY <1>1, <2>2
      <4> QED BY <4>1
    <3>2. r[i] = t[k] BY <1>1, <3>1
    <3>3. k < Len(t) /\ OwedOp(t[k + 1]) BY <1>2, <3>1, <3>2 DEF Kept
    <3>4. k + 1 \in 1..Len(t) /\ i + 1 = Len(s) + (k + 1) BY <1>1, <3>1, <3>3
    <3>5. r[i + 1] = t[k + 1] BY <1>1, <3>4
    <3> QED BY <1>1, <3>1, <3>3, <3>5
  <2> QED BY <1>1, <2>1, <2>2
<1>3. ASSUME Owes(t) PROVE Owes(r)
  <2>1. PICK k \in 1..Len(t) : OwedOp(t[k]) BY <1>3 DEF Owes
  <2>2. Len(s) + k \in 1..Len(r) /\ r[Len(s) + k] = t[k] BY <1>1
  <2> QED BY <2>1, <2>2 DEF Owes
<1> QED BY <1>2, <1>3 DEF Kept, r

(* What is left when the first step is done.                               *)
LEMMA KeptTail ==
  ASSUME NEW s \in Seq(Op), s # <<>>, Kept(s)
  PROVE  /\ Tail(s) \in Seq(Op)
         /\ Kept(Tail(s))
         /\ Heralds(Head(s)) => Owes(Tail(s))
         /\ Owes(s) => OwedOp(Head(s)) \/ Owes(Tail(s))
<1> DEFINE r == Tail(s)
<1>1. /\ Len(s) \in Nat \ {0} /\ Head(s) = s[1] /\ r \in Seq(Op)
      /\ Len(r) = Len(s) - 1
      /\ \A i \in 1..Len(r) : r[i] = s[i + 1]
  OBVIOUS
<1> HIDE DEF r
<1>2. ASSUME NEW i \in 1..Len(r), Heralds(r[i])
      PROVE  i < Len(r) /\ OwedOp(r[i + 1])
  <2>1. i + 1 \in 1..Len(s) /\ Heralds(s[i + 1]) BY <1>1, <1>2
  <2>2. i + 1 < Len(s) /\ OwedOp(s[i + 1 + 1]) BY <2>1 DEF Kept
  <2>3. i + 1 \in 1..Len(r) BY <1>1, <2>2
  <2> QED BY <1>1, <2>2, <2>3
<1>3. ASSUME Heralds(s[1]) PROVE Owes(r)
  <2>1. 1 < Len(s) /\ OwedOp(s[1 + 1]) BY <1>1, <1>3 DEF Kept
  <2>2. 1 \in 1..Len(r) BY <1>1, <2>1
  <2> QED BY <1>1, <2>1, <2>2 DEF Owes
<1>4. ASSUME Owes(s), ~OwedOp(s[1]) PROVE Owes(r)
  <2>1. PICK k \in 1..Len(s) : OwedOp(s[k]) BY <1>4 DEF Owes
  <2>2. k - 1 \in 1..Len(r) /\ (k - 1) + 1 = k BY <1>1, <1>4, <2>1
  <2>3. r[k - 1] = s[k] BY <1>1, <2>2
  <2> QED BY <2>1, <2>2, <2>3 DEF Owes
<1> QED BY <1>1, <1>2, <1>3, <1>4 DEF Kept, r

(* The calls keep to it.                                                   *)
LEMMA CallsAreKept ==
  /\ Pause \in Seq(Op) /\ Kept(Pause)
  /\ Stop \in Seq(Op) /\ Kept(Stop)
  /\ Seek \in Seq(Op) /\ Kept(Seek)
  /\ <<Play>> \in Seq(Op) /\ Kept(<<Play>>)
  /\ <<Recheck>> \in Seq(Op) /\ Kept(<<Recheck>>)
  /\ \A t \in Types : <<SetURI(t), Play>> \in Seq(Op) /\ Kept(<<SetURI(t), Play>>)
  /\ \A e \in Starts : /\ <<Send(e), SetState("PLAY")>> \in Seq(Op)
                       /\ Kept(<<Send(e), SetState("PLAY")>>)
<1> USE DEF OwedOp, Heralds, Starts, Op, Events
<1>1. \A s \in {"PAUSE", "STOP", "PLAY"} : SetState(s) \in Op BY DEF SetState
<1>2. \A e \in Events : Send(e) \in Op /\ SendAndWaitForOK(e) \in Op
  BY DEF Send, SendAndWaitForOK
<1>3. Play \in Op /\ ~Heralds(Play) BY DEF Play
<1>4. Recheck \in Op /\ ~Heralds(Recheck) BY DEF Recheck
<1>5. \A t \in Types : SetURI(t) \in Op /\ ~Heralds(SetURI(t))
  BY PSPSoundAssumption DEF SetURI
<1>6. ~Heralds(Send("PAUSE")) /\ ~Heralds(Send("SEEK")) BY DEF Send
<1>7. ~Heralds(SetState("PAUSE")) BY DEF SetState
<1>8. OwedOp(SendAndWaitForOK("STOP")) /\ ~Heralds(SendAndWaitForOK("STOP"))
  BY DEF SendAndWaitForOK
<1>9. OwedOp(SetState("PLAY")) /\ ~Heralds(SetState("PLAY")) BY DEF SetState
<1>10. Starts \subseteq Events /\ {"PAUSE", "SEEK", "STOP"} \subseteq Events OBVIOUS
<1> HIDE DEF OwedOp, Heralds, Starts, Op, Events
<1>11. Pause \in Seq(Op) /\ Kept(Pause)
  <2>1. SetState("PAUSE") \in Op /\ Send("PAUSE") \in Op BY <1>1, <1>2, <1>10
  <2> QED BY <2>1, <1>6, <1>7, KeptTwo DEF Pause
<1>12. Stop \in Seq(Op) /\ Kept(Stop)
  <2>1. SetState("STOP") \in Op /\ SendAndWaitForOK("STOP") \in Op BY <1>1, <1>2, <1>10
  <2> QED BY <2>1, <1>8, KeptTwo DEF Stop
<1>13. Seek \in Seq(Op) /\ Kept(Seek)
  <2>1. Send("SEEK") \in Op BY <1>2, <1>10
  <2> QED BY <2>1, <1>6, KeptOne DEF Seek
<1>14. <<Play>> \in Seq(Op) /\ Kept(<<Play>>) BY <1>3, KeptOne
<1>15. <<Recheck>> \in Seq(Op) /\ Kept(<<Recheck>>) BY <1>4, KeptOne
<1>16. ASSUME NEW t \in Types
       PROVE  <<SetURI(t), Play>> \in Seq(Op) /\ Kept(<<SetURI(t), Play>>)
  BY <1>3, <1>5, KeptTwo
<1>17. ASSUME NEW e \in Starts
       PROVE  <<Send(e), SetState("PLAY")>> \in Seq(Op) /\ Kept(<<Send(e), SetState("PLAY")>>)
  <2>1. SetState("PLAY") \in Op /\ Send(e) \in Op BY <1>1, <1>2, <1>10
  <2> QED BY <2>1, <1>9, KeptTwo
<1> QED BY <1>11, <1>12, <1>13, <1>14, <1>15, <1>16, <1>17

(* A client that has something else to do.                                 *)
LEMMA OneOwes ==
  ASSUME TypeOK, \A d \in Clients : Kept(todo[d]), NEW c \in Clients, NEW s \in Seq(Op),
         Kept(s), todo' = [todo EXCEPT ![c] = s]
  PROVE  /\ \A d \in Clients : Kept(todo'[d])
         /\ Owes(s) => Owing'
         /\ (Owes(todo[c]) => Owes(s)) /\ Owing => Owing'
<1>1. todo \in [Clients -> Seq(Op)] BY DEF TypeOK
<1>2. todo'[c] = s /\ \A d \in Clients \ {c} : todo'[d] = todo[d] BY <1>1
<1>3. \A d \in Clients : Kept(todo'[d]) BY <1>2
<1>4. Owes(s) => Owing' BY <1>2 DEF Owing
<1>5. ASSUME Owes(todo[c]) => Owes(s), Owing PROVE Owing'
  <2>1. PICK d \in Clients : Owes(todo[d]) BY <1>5 DEF Owing
  <2>2. CASE d = c BY <1>4, <1>5, <2>1, <2>2
  <2>3. CASE d # c BY <1>2, <2>1, <2>3 DEF Owing
  <2> QED BY <2>2, <2>3
<1> QED BY <1>3, <1>4, <1>5

(* A step that leaves the state and the decode thread alone and owes what  *)
(* was owed.                                                               *)
LEMMA OweStep ==
  ASSUME TypeOK, QuietInv, NEW c \in Clients, NEW s \in Seq(Op), Kept(s),
         todo' = [todo EXCEPT ![c] = s], Owes(todo[c]) => Owes(s),
         UNCHANGED <<m_CurrentState, queue, decPc>>
  PROVE  QuietInv'
<1>1. (\A d \in Clients : Kept(todo'[d])) /\ (Owing => Owing')
  BY OneOwes DEF QuietInv
<1>2. Quiet => Quiet' BY DEF Quiet, AtWork
<1> QED BY <1>1, <1>2 DEF QuietInv

LEMMA CallQuiet ==
  ASSUME TypeOK, QuietInv, NEW c \in Clients, NEW ops \in Seq(Op), Kept(ops), Call(c, ops), Rest
  PROVE  QuietInv'
<1>1. ~Owes(todo[c]) BY KeptEmpty DEF Call
<1>2. todo' = [todo EXCEPT ![c] = ops] BY DEF Call
<1>3. UNCHANGED <<m_CurrentState, queue, decPc>> BY DEF Rest, queueVars
<1> QED BY <1>1, <1>2, <1>3, OweStep

LEMMA CallsQuiet ==
  ASSUME TypeOK, QuietInv,
         (\E t \in Types : PlaySetStream(t)) \/ CallPause \/ CallStop \/ Suspend \/ Resume
  PROVE  QuietInv'
<1>0. Main \in Clients /\ Power \in Clients BY DEF Clients
<1>1. ASSUME NEW t \in Types, PlaySetStream(t) PROVE QuietInv'
  <2> DEFINE ops == IF m_CurrentState = "PAUSE" THEN <<Play>> ELSE <<SetURI(t), Play>>
  <2>1. ops \in Seq(Op) /\ Kept(ops) BY CallsAreKept
  <2>2. Call(Main, ops) /\ Rest BY <1>1 DEF PlaySetStream
  <2> HIDE DEF ops
  <2> QED BY <1>0, <2>1, <2>2, CallQuiet
<1>2. CASE CallPause BY <1>0, <1>2, CallsAreKept, CallQuiet DEF CallPause
<1>3. CASE CallStop BY <1>0, <1>3, CallsAreKept, CallQuiet DEF CallStop
<1>4. CASE Suspend
  <2> DEFINE ops == IF m_CurrentState = "PLAY" THEN Stop \o <<Recheck>> ELSE <<Recheck>>
  <2>1. Stop \o <<Recheck>> \in Seq(Op) BY CallsAreKept, ConcatProperties
  <2>2. ops \in Seq(Op) /\ Kept(ops) BY <2>1, CallsAreKept, KeptConcat
  <2>3. Call(Power, ops) /\ Rest BY <1>4 DEF Suspend
  <2> HIDE DEF ops
  <2> QED BY <1>0, <2>2, <2>3, CallQuiet
<1>5. CASE Resume
  <2> DEFINE seek == IF m_Type = "file" THEN Seek ELSE <<>>
             pause == IF resume = "pause" THEN Pause ELSE <<>>
             ops == <<Play>> \o seek \o pause
  <2>1. /\ seek \in Seq(Op) /\ Kept(seek)
        /\ pause \in Seq(Op) /\ Kept(pause)
    BY CallsAreKept, KeptEmpty
  <2>2. Call(Main, ops) /\ Rest BY <1>5 DEF Resume
  <2> HIDE DEF seek, pause
  <2>3. <<Play>> \o seek \in Seq(Op) /\ Kept(<<Play>> \o seek)
    BY <2>1, CallsAreKept, KeptConcat, ConcatProperties
  <2>4. ops \in Seq(Op) /\ Kept(ops) BY <2>1, <2>3, KeptConcat, ConcatProperties
  <2> HIDE DEF ops
  <2> QED BY <1>0, <2>2, <2>4, CallQuiet
<1> QED BY <1>1, <1>2, <1>3, <1>4, <1>5

(* The steps of a call.                                                    *)
LEMMA FirstStep ==
  ASSUME TypeOK, QuietInv, NEW c \in Clients, todo[c] # <<>>
  PROVE  /\ Head(todo[c]) \in Op
         /\ Tail(todo[c]) \in Seq(Op)
         /\ Kept(Tail(todo[c]))
         /\ Heralds(Head(todo[c])) => Owes(Tail(todo[c]))
         /\ Owes(todo[c]) => OwedOp(Head(todo[c])) \/ Owes(Tail(todo[c]))
<1>1. todo[c] \in Seq(Op) /\ Kept(todo[c]) BY DEF TypeOK, QuietInv
<1>2. Head(todo[c]) \in Op BY <1>1
<1> QED BY <1>1, <1>2, KeptTail

LEMMA DoSetURIQuiet ==
  ASSUME TypeOK, QuietInv, NEW c \in Clients, DoSetURI(c)
  PROVE  QuietInv'
<1>1. todo[c] # <<>> /\ ~OwedOp(Head(todo[c])) BY DEF DoSetURI, Next1, OwedOp
<1>2. todo' = [todo EXCEPT ![c] = Tail(todo[c])] BY DEF DoSetURI, Done
<1>3. UNCHANGED <<m_CurrentState, queue, decPc>> BY DEF DoSetURI, queueVars
<1> QED BY <1>1, <1>2, <1>3, FirstStep, OweStep

LEMMA DoPlayQuiet ==
  ASSUME TypeOK, QuietInv, NEW c \in Clients, DoPlay(c)
  PROVE  QuietInv'
<1> DEFINE ops == <<Send(IF m_CurrentState = "PAUSE" THEN "DECODE" ELSE "START"),
                    SetState("PLAY")>>
           s == ops \o Tail(todo[c])
<1>1. todo[c] # <<>> /\ ~OwedOp(Head(todo[c])) BY DEF DoPlay, Next1, OwedOp
<1>2. ops \in Seq(Op) /\ Kept(ops) BY CallsAreKept DEF Starts
<1>3. todo' = [todo EXCEPT ![c] = s] BY DEF DoPlay, Instead
<1>4. UNCHANGED <<m_CurrentState, queue, decPc>> BY DEF DoPlay, queueVars
<1> HIDE DEF ops
<1>5. /\ Tail(todo[c]) \in Seq(Op) /\ Kept(Tail(todo[c]))
      /\ Owes(todo[c]) => Owes(Tail(todo[c]))
  BY <1>1, FirstStep
<1>6. s \in Seq(Op) /\ Kept(s) /\ (Owes(todo[c]) => Owes(s))
  BY <1>2, <1>5, KeptConcat, ConcatProperties
<1> HIDE DEF s
<1> QED BY <1>3, <1>4, <1>6, OweStep

LEMMA DoRecheckQuiet ==
  ASSUME TypeOK, QuietInv, NEW c \in Clients, DoRecheck(c)
  PROVE  QuietInv'
<1> DEFINE s == Stop \o Tail(todo[c])
<1>1. todo[c] # <<>> /\ ~OwedOp(Head(todo[c])) BY DEF DoRecheck, Next1, OwedOp
<1>2. /\ Tail(todo[c]) \in Seq(Op) /\ Kept(Tail(todo[c]))
      /\ Owes(todo[c]) => Owes(Tail(todo[c]))
  BY <1>1, FirstStep
<1>3. s \in Seq(Op) /\ Kept(s) /\ (Owes(todo[c]) => Owes(s))
  BY <1>2, CallsAreKept, KeptConcat, ConcatProperties
<1>4. todo' = [todo EXCEPT ![c] = s] \/ todo' = [todo EXCEPT ![c] = Tail(todo[c])]
  BY DEF DoRecheck, Instead, Done
<1>5. UNCHANGED <<m_CurrentState, queue, decPc>> BY DEF DoRecheck, queueVars
<1> HIDE DEF s
<1> QED BY <1>2, <1>3, <1>4, <1>5, OweStep

(* Stop's STOP is still to be sent when the state is set to it.            *)
LEMMA DoSetStateQuiet ==
  ASSUME TypeOK, QuietInv, NEW c \in Clients, DoSetState(c)
  PROVE  QuietInv'
<1>1. todo[c] # <<>> /\ m_CurrentState' = Head(todo[c]).arg /\ Head(todo[c]).do = "state"
  BY DEF DoSetState, Next1, Arg
<1>2. todo' = [todo EXCEPT ![c] = Tail(todo[c])] BY DEF DoSetState, Done
<1>3. Tail(todo[c]) \in Seq(Op) /\ Kept(Tail(todo[c])) BY <1>1, FirstStep
<1>4. \A d \in Clients : Kept(todo'[d]) BY <1>2, <1>3, OneOwes DEF QuietInv
<1>5. ASSUME m_CurrentState' = "STOP" PROVE Owing'
  <2>1. Heralds(Head(todo[c])) BY <1>1, <1>5 DEF Heralds
  <2>2. Owes(Tail(todo[c])) BY <1>1, <2>1, FirstStep
  <2> QED BY <1>2, <1>3, <2>2, OneOwes DEF QuietInv
<1> QED BY <1>4, <1>5 DEF QuietInv

(* Play's state is still to be set when the decode thread is started.      *)
LEMMA DoSendQuiet ==
  ASSUME TypeOK, QuietInv, NEW c \in Clients, DoSend(c)
  PROVE  QuietInv'
<1>1. /\ todo[c] # <<>> /\ Head(todo[c]).do = "send"
      /\ queue' = Append(queue, Head(todo[c]).arg)
      /\ m_CurrentState' = m_CurrentState /\ decPc' = decPc
  BY DEF DoSend, Next1, Arg
<1>2. ~OwedOp(Head(todo[c])) BY <1>1 DEF OwedOp
<1>3. todo' = [todo EXCEPT ![c] = Tail(todo[c])] BY DEF DoSend, Done
<1>4. /\ Tail(todo[c]) \in Seq(Op) /\ Kept(Tail(todo[c]))
      /\ Owes(todo[c]) => Owes(Tail(todo[c]))
  BY <1>1, <1>2, FirstStep
<1>5. (\A d \in Clients : Kept(todo'[d])) /\ (Owing => Owing')
  BY <1>3, <1>4, OneOwes DEF QuietInv
<1>6. CASE Head(todo[c]).arg \in Starts
  <2>1. Heralds(Head(todo[c])) BY <1>1, <1>6 DEF Heralds
  <2>2. Owes(Tail(todo[c])) BY <1>1, <2>1, FirstStep
  <2>3. Owing' BY <1>3, <1>4, <2>2, OneOwes DEF QuietInv
  <2> QED BY <1>5, <2>3 DEF QuietInv
<1>7. CASE Head(todo[c]).arg \notin Starts
  <2>1. queue \in Seq(Events) BY DEF TypeOK
  <2>2. /\ Len(queue') = Len(queue) + 1 /\ Len(queue) \in Nat
        /\ queue'[Len(queue) + 1] = Head(todo[c]).arg
        /\ \A i \in 1..Len(queue) : queue'[i] = queue[i]
    BY <1>1, <2>1
  <2>3. \A i \in 1..Len(queue') : i \in 1..Len(queue) \/ i = Len(queue) + 1 BY <2>2
  <2>4. Quiet => Quiet' BY <1>1, <1>7, <2>2, <2>3 DEF Quiet, AtWork
  <2> QED BY <1>1, <1>5, <2>4 DEF QuietInv
<1> QED BY <1>6, <1>7

(* A STOP that is sent owes its answer, ...                                *)
LEMMA DoSendAndWaitQuiet ==
  ASSUME TypeOK, QuietInv, NEW c \in Clients, DoSendAndWait(c)
  PROVE  QuietInv'
<1> DEFINE s == <<WaitOK>> \o Tail(todo[c])
<1>1. todo[c] # <<>> BY DEF DoSendAndWait, Next1
<1>2. Tail(todo[c]) \in Seq(Op) /\ Kept(Tail(todo[c])) BY <1>1, FirstStep
<1>3. WaitOK \in Op /\ ~Heralds(WaitOK) /\ OwedOp(WaitOK)
  BY DEF WaitOK, Op, Events, Heralds, OwedOp
<1>4. <<WaitOK>> \in Seq(Op) /\ Kept(<<WaitOK>>) BY <1>3, KeptOne
<1>5. s \in Seq(Op) /\ Kept(s) BY <1>2, <1>4, KeptConcat, ConcatProperties
<1>6. Owes(s)
  <2>1. /\ Len(s) = 1 + Len(Tail(todo[c])) /\ Len(Tail(todo[c])) \in Nat
        /\ s[1] = WaitOK
    BY <1>2, <1>3
  <2>2. 1 \in 1..Len(s) BY <2>1
  <2> QED BY <1>3, <2>1, <2>2 DEF Owes
<1>7. todo' = [todo EXCEPT ![c] = s] BY DEF DoSendAndWait, Instead
<1> HIDE DEF s
<1>8. (\A d \in Clients : Kept(todo'[d])) /\ Owing' BY <1>5, <1>6, <1>7, OneOwes DEF QuietInv
<1> QED BY <1>8 DEF QuietInv

(* ... and with the answer all is quiet.                                   *)
LEMMA DoWaitOKQuiet ==
  ASSUME IInv, QuietInv, NEW c \in Clients, DoWaitOK(c)
  PROVE  QuietInv'
<1>0. TypeOK BY DEF IInv
<1>1. todo[c] # <<>> /\ okBlocker > 0 /\ queue' = queue /\ decPc' = decPc
  BY DEF DoWaitOK, Next1
<1>2. todo' = [todo EXCEPT ![c] = Tail(todo[c])] BY DEF DoWaitOK, Done
<1>3. Tail(todo[c]) \in Seq(Op) /\ Kept(Tail(todo[c])) BY <1>0, <1>1, FirstStep
<1>4. \A d \in Clients : Kept(todo'[d]) BY <1>0, <1>2, <1>3, OneOwes DEF QuietInv
<1>5. queue = <<>> /\ decPc = "receive" BY <1>1 DEF IInv, StopInv
<1>6. \A i \in 1..Len(queue') : FALSE BY <1>1, <1>5
<1>7. ~AtWork' BY <1>1, <1>5 DEF AtWork
<1> QED BY <1>4, <1>6, <1>7 DEF QuietInv, Quiet

LEMMA ClientStepQuiet ==
  ASSUME IInv, QuietInv, NEW c \in Clients, ClientStep(c)
  PROVE  QuietInv'
<1>1. TypeOK BY DEF IInv
<1> QED
  BY <1>1, DoSetURIQuiet, DoPlayQuiet, DoSetStateQuiet, DoSendQuiet, DoSendAndWaitQuiet,
     DoWaitOKQuiet, DoRecheckQuiet DEF ClientStep

(* The decode thread stays quiet until it is sent something to start with. *)
LEMMA DecodeQuiet ==
  ASSUME TypeOK, QuietInv, DecodeStep \/ StreamEnds
  PROVE  QuietInv'
<1>1. UNCHANGED <<m_CurrentState, todo>>
  BY DEF DecodeStep, StreamEnds, Receive, Start, OpenBegin, OpenEnd, NotOpened, CreateDecoder,
         NotSupported, ReadPlaylist, EmptyPlaylist, SendPlaylistStart, SendDecode, SendRetry,
         SendToSelf, BeginDecoding, RetryStart, LoopAgain, DecodeReturns, LeaveLoop,
         SeekDecoder, PauseDecoder, StopDecoder, ConnectionEnds, EndOfStream, clientVars
<1>2. ASSUME Quiet PROVE Quiet'
  <2>1. Receive \/ SeekDecoder \/ PauseDecoder \/ StopDecoder
    BY <1>2
    DEF Quiet, AtWork, DecodeStep, StreamEnds, Start, OpenBegin, OpenEnd, NotOpened,
        CreateDecoder, NotSupported, ReadPlaylist, EmptyPlaylist, SendPlaylistStart, SendDecode,
        SendRetry, SendToSelf, BeginDecoding, RetryStart, LoopAgain, DecodeReturns, LeaveLoop,
        ConnectionEnds, EndOfStream, DecGo
  <2>2. CASE Receive
    <3>1. queue \in Seq(Events) /\ queue # <<>> BY <2>2 DEF TypeOK, Receive
    <3>2. /\ Len(queue) \in Nat \ {0} /\ Head(queue) = queue[1] /\ Head(queue) \in Events
          /\ Len(Tail(queue)) = Len(queue) - 1
          /\ \A i \in 1..Len(Tail(queue)) : Tail(queue)[i] = queue[i + 1]
      BY <3>1
    <3>3. decPc' = Head(queue) /\ queue' = Tail(queue) BY <2>2 DEF Receive, DecGo
    <3>4. ~AtWork' BY <1>2, <3>2, <3>3 DEF Quiet, AtWork, Starts, Events
    <3>5. ASSUME NEW i \in 1..Len(queue') PROVE queue'[i] \notin Starts
      <4>1. i + 1 \in 1..Len(queue) /\ queue'[i] = queue[i + 1] BY <3>2, <3>3
      <4> QED BY <1>2, <4>1 DEF Quiet
    <3> QED BY <3>4, <3>5 DEF Quiet
  <2>3. CASE SeekDecoder \/ PauseDecoder \/ StopDecoder
    <3>1. decPc' \in {"receive", "crashed"} /\ queue' = queue
      BY <2>3 DEF SeekDecoder, PauseDecoder, StopDecoder, DecGo, queueVars
    <3> QED BY <1>2, <3>1 DEF Quiet, AtWork
  <2> QED BY <2>1, <2>2, <2>3
<1>3. Owing => Owing' BY <1>1 DEF Owing
<1> QED BY <1>1, <1>2, <1>3 DEF QuietInv

LEMMA NextQuiet ==
  ASSUME IInv, QuietInv, [Next]_vars
  PROVE  QuietInv'
<1>0. TypeOK BY DEF IInv
<1>1. CASE UNCHANGED vars
  <2>1. UNCHANGED <<m_CurrentState, todo, queue, decPc>> BY <1>1 DEF vars, clientVars, queueVars
  <2> QED BY <2>1 DEF QuietInv, Quiet, AtWork, Owing
<1> QED BY <1>0, <1>1, CallsQuiet, ClientStepQuiet, DecodeQuiet DEF Next

(* What the state says stopped is quiet when nothing more is under way,    *)
(* whichever of the two threads called Play and Stop in what order.        *)
THEOREM StoppedBecomesQuiet == Spec => []StoppedIsQuiet
<1>1. Init => QuietInv
  <2> SUFFICES ASSUME Init PROVE QuietInv OBVIOUS
  <2>1. \A c \in Clients : Kept(todo[c]) BY KeptEmpty DEF Init
  <2>2. \A i \in 1..Len(queue) : FALSE BY DEF Init
  <2>3. ~AtWork BY DEF Init, AtWork
  <2> QED BY <2>1, <2>2, <2>3 DEF QuietInv, Quiet
<1>2. IInv /\ QuietInv /\ [Next]_vars => QuietInv' BY NextQuiet
<1>3. QuietInv => StoppedIsQuiet
  BY KeptEmpty DEF QuietInv, StoppedIsQuiet, Settled, Quiet, Owing
<1> QED BY Invariance, <1>1, <1>2, <1>3, PTL DEF Spec

-----------------------------------------------------------------------------
(* The refinement of the sound object.                                     *)

(* The sound object's view of the queue, when an event is put into it ...  *)
LEMMA AskedWith ==
  ASSUME IInv, NEW e \in Events, queue' = Append(queue, e)
  PROVE  IsAsked' = (IsAsked \/ e \in Starts)
<1>1. /\ Len(queue') = Len(queue) + 1 /\ Len(queue) \in Nat
      /\ queue'[Len(queue) + 1] = e
      /\ \A i \in 1..Len(queue) : queue'[i] = queue[i]
  BY OneMoreQueued
<1>2. \A i \in 1..Len(queue') : i \in 1..Len(queue) \/ i = Len(queue) + 1 BY <1>1
<1>3. Len(queue) + 1 \in 1..Len(queue') /\ 1..Len(queue) \subseteq 1..Len(queue') BY <1>1
<1> QED BY <1>1, <1>2, <1>3 DEF IsAsked, Starts

(* ... and when the first is taken.                                        *)
LEMMA AskedWithout ==
  ASSUME IInv, queue # <<>>, queue' = Tail(queue)
  PROVE  IsAsked = (IsAsked' \/ Head(queue) \in Starts)
<1>1. queue \in Seq(Events) BY DEF IInv, TypeOK
<1>2. /\ Len(queue) \in Nat \ {0} /\ Head(queue) = queue[1]
      /\ Len(queue') = Len(queue) - 1
      /\ \A i \in 1..Len(queue') : queue'[i] = queue[i + 1]
  BY <1>1
<1>3. \A i \in 1..Len(queue) : i = 1 \/ (i - 1 \in 1..Len(queue') /\ (i - 1) + 1 = i) BY <1>2
<1>4. \A i \in 1..Len(queue') : i + 1 \in 1..Len(queue) BY <1>2
<1>5. 1 \in 1..Len(queue) BY <1>2
<1>6. IsAsked' \/ Head(queue) \in Starts => IsAsked BY <1>2, <1>4, <1>5 DEF IsAsked, Starts
<1>7. IsAsked => IsAsked' \/ Head(queue) \in Starts
  <2> SUFFICES ASSUME NEW i \in 1..Len(queue), queue[i] \in {"START", "DECODE"}, i # 1
               PROVE  IsAsked'
    BY <1>2 DEF IsAsked, Starts
  <2>1. i - 1 \in 1..Len(queue') /\ queue'[i - 1] = queue[i] BY <1>2, <1>3
  <2> QED BY <2>1 DEF IsAsked
<1> QED BY <1>6, <1>7 DEF IsAsked

(* A step that neither sends nor answers, nor begins or ends work.         *)
LEMMA ObjectStutters ==
  ASSUME UNCHANGED <<queue, lock, okBlocker>>, AtWork' = AtWork
  PROVE  UNCHANGED Object!vars
<1>1. IsAsked' = IsAsked BY DEF IsAsked
<1>2. IsAnswered' = IsAnswered BY DEF IsAnswered
<1> QED BY <1>1, <1>2 DEF Object!vars

LEMMA ClientImplements ==
  ASSUME IInv, NEW c \in Clients, ClientStep(c)
  PROVE  [Object!Next]_Object!vars
<1>1. AtWork' = AtWork
  BY DEF ClientStep, DoSetURI, DoPlay, DoSetState, DoSend, DoSendAndWait, DoWaitOK, DoRecheck, AtWork
<1>2. CASE DoSetURI(c) \/ DoPlay(c) \/ DoSetState(c) \/ DoRecheck(c)
  <2>1. UNCHANGED <<queue, lock, okBlocker>>
    BY <1>2 DEF DoSetURI, DoPlay, DoSetState, DoRecheck, queueVars
  <2> QED BY <1>1, <2>1, ObjectStutters
<1>3. CASE DoSend(c)
  <2>1. lock = "free" /\ lock' = lock /\ okBlocker' = okBlocker
        /\ queue' = Append(queue, Arg(c))
    BY <1>3 DEF DoSend
  <2>2. Arg(c) \in Events
    BY <1>3, HeadOfCall DEF DoSend, Next1, Arg, OpInv
  <2>3. IsAsked' = (IsAsked \/ Arg(c) \in Starts) BY <2>1, <2>2, AskedWith
  <2>4. IsAnswered' = IsAnswered BY <2>1 DEF IsAnswered
  <2>5. CASE Arg(c) \in Starts
    <3>1. IsAsked' = TRUE BY <2>3, <2>5
    <3>2. Object!Ask BY <1>1, <2>1, <2>4, <3>1 DEF Object!Ask
    <3> QED BY <3>2 DEF Object!Next
  <2>6. CASE Arg(c) \notin Starts
    <3>1. IsAsked' = IsAsked BY <2>3, <2>6 DEF IsAsked
    <3> QED BY <1>1, <2>1, <2>4, <3>1 DEF Object!vars
  <2> QED BY <2>5, <2>6
<1>4. CASE DoSendAndWait(c)
  <2>1. lock = "free" /\ lock' = c /\ okBlocker' = okBlocker
        /\ queue' = Append(queue, Arg(c))
    BY <1>4 DEF DoSendAndWait
  <2>2. Arg(c) = "STOP"
    BY <1>4, HeadOfCall DEF DoSendAndWait, Next1, Arg, OpInv
  <2>3. Arg(c) \in Events /\ Arg(c) \notin Starts BY <2>2 DEF Events, Starts
  <2>4. IsAsked' = (IsAsked \/ Arg(c) \in Starts) BY <2>1, <2>3, AskedWith
  <2>5. IsAsked' = IsAsked BY <2>3, <2>4 DEF IsAsked
  <2>6. IsAnswered' = IsAnswered BY <2>1 DEF IsAnswered
  <2>7. Object!Stop(c) BY <1>1, <2>1, <2>5, <2>6 DEF Object!Stop
  <2> QED BY <2>7 DEF Object!Next
<1>5. CASE DoWaitOK(c)
  <2>1. okBlocker > 0 /\ okBlocker' = okBlocker - 1 /\ lock' = "free" /\ queue' = queue
    BY <1>5 DEF DoWaitOK
  <2>2. okBlocker' = 0 BY <2>1 DEF IInv, TypeOK
  <2>3. IsAnswered /\ IsAnswered' = FALSE BY <2>1, <2>2 DEF IsAnswered
  <2>4. IsAsked' = IsAsked BY <2>1 DEF IsAsked
  <2>5. Object!Return BY <1>1, <2>1, <2>3, <2>4 DEF Object!Return
  <2> QED BY <2>5 DEF Object!Next
<1> QED BY <1>2, <1>3, <1>4, <1>5 DEF ClientStep

(* What is received is begun with if it is a request.                      *)
LEMMA ReceiveImplements ==
  ASSUME IInv, Receive
  PROVE  [Object!Next]_Object!vars
<1>1. /\ queue # <<>> /\ decPc = "receive" /\ decPc' = Head(queue) /\ queue' = Tail(queue)
      /\ UNCHANGED <<lock, okBlocker>>
  BY DEF Receive, DecGo
<1>2. Head(queue) \in Events BY <1>1 DEF IInv, TypeOK
<1>3. IsAsked = (IsAsked' \/ Head(queue) \in Starts) BY <1>1, AskedWithout
<1>4. ~AtWork BY <1>1 DEF AtWork
<1>5. AtWork' = (Head(queue) \in Starts) BY <1>1, <1>2 DEF AtWork, Starts, Events
<1>6. IsAnswered' = IsAnswered BY <1>1 DEF IsAnswered
<1>7. CASE Head(queue) \in Starts
  <2>1. AtWork' = TRUE BY <1>5, <1>7
  <2>2. IsAsked BY <1>3, <1>7
  <2>3. IsAsked' \in BOOLEAN BY DEF IsAsked
  <2>4. Object!Begin BY <1>1, <1>4, <1>6, <2>1, <2>2, <2>3 DEF Object!Begin
  <2> QED BY <2>4 DEF Object!Next
<1>8. CASE Head(queue) \notin Starts
  <2>1. IsAsked' = IsAsked BY <1>3, <1>8 DEF IsAsked
  <2>2. AtWork' = AtWork BY <1>4, <1>5, <1>8 DEF AtWork
  <2> QED BY <1>1, <1>6, <2>1, <2>2 DEF Object!vars
<1> QED BY <1>7, <1>8

(* The decode thread asks itself only while no Stop waits.                 *)
LEMMA SendToSelfImplements ==
  ASSUME IInv, NEW from \in {"senddecode", "sendplaylist", "sendretry"}, NEW e \in Starts,
         SendToSelf(from, e)
  PROVE  [Object!Next]_Object!vars
<1>1. /\ decPc = from /\ decPc' = "receive" /\ lock = "free"
      /\ queue' = Append(queue, e) /\ UNCHANGED <<lock, okBlocker>>
  BY DEF SendToSelf, DecGo
<1>2. IsAsked' = (IsAsked \/ e \in Starts) BY <1>1, AskedWith DEF Starts, Events
<1>3. IsAsked' = TRUE BY <1>2
<1>4. AtWork /\ AtWork' = FALSE BY <1>1 DEF AtWork
<1>5. IsAnswered' = IsAnswered BY <1>1 DEF IsAnswered
<1>6. Object!AskItself BY <1>1, <1>3, <1>4, <1>5 DEF Object!AskItself
<1> QED BY <1>6 DEF Object!Next

(* A STOP is answered when nothing is asked for any more.                  *)
LEMMA StopDecoderImplements ==
  ASSUME IInv, StopDecoder
  PROVE  [Object!Next]_Object!vars
<1>1. /\ decPc = "STOP" /\ decPc' = "receive" /\ okBlocker' = 1
      /\ UNCHANGED <<queue, lock>>
  BY DEF StopDecoder, DecGo
<1>2. lock # "free" /\ queue = <<>> /\ okBlocker = 0 BY <1>1 DEF IInv, StopInv
<1>3. ~IsAsked /\ IsAsked' = IsAsked BY <1>1, <1>2 DEF IsAsked
<1>4. ~AtWork /\ AtWork' = AtWork BY <1>1 DEF AtWork
<1>5. ~IsAnswered /\ IsAnswered' = TRUE BY <1>1, <1>2 DEF IsAnswered
<1>6. Object!Answer BY <1>1, <1>2, <1>3, <1>4, <1>5 DEF Object!Answer
<1> QED BY <1>6 DEF Object!Next

(* The other steps of the decode thread work on, or end the work.          *)
LEMMA WorkImplements ==
  ASSUME UNCHANGED <<queue, lock, okBlocker>>, AtWork' => AtWork
  PROVE  [Object!Next]_Object!vars
<1>1. IsAsked' = IsAsked BY DEF IsAsked
<1>2. IsAnswered' = IsAnswered BY DEF IsAnswered
<1>3. CASE AtWork' = AtWork BY <1>3, ObjectStutters
<1>4. CASE AtWork /\ ~AtWork'
  <2>1. Object!End BY <1>1, <1>2, <1>4 DEF Object!End
  <2> QED BY <2>1 DEF Object!Next
<1>5. AtWork' = AtWork \/ (AtWork /\ ~AtWork') BY DEF AtWork
<1> QED BY <1>3, <1>4, <1>5

LEMMA DecodeImplements ==
  ASSUME IInv, DecodeStep \/ StreamEnds
  PROVE  [Object!Next]_Object!vars
<1>1. CASE SendDecode \/ SendRetry \/ SendPlaylistStart
  BY <1>1, SendToSelfImplements DEF SendDecode, SendRetry, SendPlaylistStart, Starts
<1>2. CASE \/ Start \/ OpenBegin \/ (\E ok \in BOOLEAN, c \in Contents : OpenEnd(ok, c))
           \/ NotOpened \/ CreateDecoder \/ NotSupported
           \/ (\E t \in Types, short \in BOOLEAN : ReadPlaylist(t, short))
           \/ EmptyPlaylist \/ BeginDecoding \/ RetryStart \/ LoopAgain \/ DecodeReturns
           \/ LeaveLoop \/ SeekDecoder \/ PauseDecoder \/ ConnectionEnds \/ EndOfStream
  <2>1. UNCHANGED <<queue, lock, okBlocker>>
    BY <1>2 DEF Start, OpenBegin, OpenEnd, NotOpened, CreateDecoder, NotSupported, ReadPlaylist,
       EmptyPlaylist, BeginDecoding, RetryStart, LoopAgain, DecodeReturns, LeaveLoop,
       SeekDecoder, PauseDecoder, ConnectionEnds, EndOfStream, queueVars
  <2>2. AtWork' => AtWork
    BY <1>2 DEF Start, OpenBegin, OpenEnd, NotOpened, CreateDecoder, NotSupported, ReadPlaylist,
       EmptyPlaylist, BeginDecoding, RetryStart, LoopAgain, DecodeReturns, LeaveLoop,
       SeekDecoder, PauseDecoder, ConnectionEnds, EndOfStream, DecGo, AtWork
  <2> QED BY <2>1, <2>2, WorkImplements
<1>3. CASE Receive BY <1>3, ReceiveImplements
<1>4. CASE StopDecoder BY <1>4, StopDecoderImplements
<1> QED BY <1>1, <1>2, <1>3, <1>4 DEF DecodeStep, StreamEnds

LEMMA NextImplements ==
  ASSUME IInv, [Next]_vars
  PROVE  [Object!Next]_Object!vars
<1>1. CASE \/ UNCHANGED vars \/ (\E t \in Types : PlaySetStream(t))
           \/ CallPause \/ CallStop \/ Suspend \/ Resume
  <2>1. UNCHANGED <<queue, lock, okBlocker, decPc>>
    BY <1>1 DEF vars, queueVars, PlaySetStream, CallPause, CallStop, Suspend, Resume, Rest
  <2>2. AtWork' = AtWork BY <2>1 DEF AtWork
  <2> QED BY <2>1, <2>2, ObjectStutters
<1> QED BY <1>1, ClientImplements, DecodeImplements DEF Next

(* The calls of two threads and the decode thread, with its two flags and  *)
(* its sends to itself, do what is promised of the sound object: nothing   *)
(* works that was not asked for, and Stop is final when it returns.        *)
THEOREM SoundImplementsObject == Spec => ImplementsObject
<1>1. Init => Object!Init
  <2> SUFFICES ASSUME Init PROVE Object!Init OBVIOUS
  <2>1. IsAsked = FALSE BY DEF Init, IsAsked
  <2>2. AtWork = FALSE BY DEF Init, AtWork
  <2>3. lock = "free" /\ IsAnswered = FALSE BY DEF Init, IsAnswered
  <2> QED BY <2>1, <2>2, <2>3 DEF Object!Init
<1>2. IInv /\ [Next]_vars => [Object!Next]_Object!vars BY NextImplements
<1> QED BY Invariance, <1>1, <1>2, PTL DEF Spec, ImplementsObject, Object!Spec

=============================================================================
