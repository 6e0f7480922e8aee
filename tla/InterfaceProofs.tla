--------------------------- MODULE InterfaceProofs ---------------------------
(***************************************************************************)
(* Proofs about the two parts of the program that the user deals with.     *)
(*                                                                         *)
(* The key handler, for any buttons, intervals and times: KeysInv holds    *)
(* what PRESSED has stored against the buttons that are down.              *)
(*                                                                         *)
(* The text interface, for any screens, times and number of calls: WInv    *)
(* has the form of the events and what each thread has with it; Follows    *)
(* says that the window, led through the events that are in hand and in    *)
(* the message box, comes to what the main thread has asked for.           *)
(***************************************************************************)
EXTENDS Keys, WindowHandler, SequenceTheorems, FiniteSetTheorems, TLAPS

(* In PRESSED the buttons stored are those that are down or were let go    *)
(* since the latch was read, but for newer presses that wait in the latch. *)
StoredAreDown ==
    stm_var = "PRESSED" =>
        /\ m_stored_keystate \subseteq held \cup uiBreak
        /\ (held \cup uiBreak) \ uiMake \subseteq m_stored_keystate

(* The combination is in place while the flag is set and no call is half   *)
(* done; of two calls that are, one began within the other.                *)
ComboInPlace ==
    /\ {"stop", "start"} \subseteq half => crossed
    /\ "start" \in half /\ "stop" \notin half /\ ~crossed => ~m_StopKeyLatch
    /\ m_StopKeyLatch /\ "stop" \notin half /\ ~crossed
           => m_KeyComboToResumeKeyLatch = ResumeCombo

(* A pass that no call has met compares with the combination.              *)
ComboCompared ==
    /\ pass.pc = "compare" /\ ~pass.met => m_KeyComboToResumeKeyLatch = ResumeCombo
    /\ pass.pc \in {"resume", "send"} => ResumeCombo \subseteq pass.seen \/ pass.met

KeysInv == KeysTypeOK /\ StoredAreDown /\ ComboInPlace /\ ComboCompared

Passes == [pc : {"waits", "compare", "resume", "send"}, seen : SUBSET Buttons, met : BOOLEAN]

-----------------------------------------------------------------------------
LEMMA KeysInitInv == KeysInit => KeysInv
<1> SUFFICES ASSUME KeysInit PROVE KeysInv
  OBVIOUS
<1> USE KeysAssumption DEF KeysInit, Nothing, Waits
<1>1. KeysTypeOK
  <2>1. m_StopKeyLatch \in BOOLEAN /\ crossed \in BOOLEAN OBVIOUS
  <2>2. m_tick_trigger \in 0..Interval /\ m_long_press \in Nat /\ pressedFor \in 0..MaxTime
    OBVIOUS
  <2>3. event.id = "nothing" /\ event.keys = {} OBVIOUS
  <2>4. pass \in Passes BY DEF Passes
  <2> QED BY <2>1, <2>2, <2>3, <2>4 DEF KeysTypeOK, Passes
<1>2. StoredAreDown /\ ComboInPlace /\ ComboCompared
  BY DEF StoredAreDown, ComboInPlace, ComboCompared
<1> QED BY <1>1, <1>2 DEF KeysInv

(* The user, the latch and the clock.                                      *)
LEMMA PadInv ==
  ASSUME KeysInv,
         (\E b \in Buttons : Press(b) \/ LetGo(b)) \/ Tick
  PROVE  KeysInv'
<1> USE KeysAssumption DEF KeysInv, handler, latch, pad
<1>1. CASE \E b \in Buttons : Press(b)
  <2>1. PICK b \in Buttons : Press(b) BY <1>1
  <2>2. KeysTypeOK' BY <2>1 DEF Press, KeysTypeOK
  <2>3. StoredAreDown' BY <2>1 DEF Press, StoredAreDown
  <2>4. ComboInPlace' /\ ComboCompared' BY <2>1 DEF Press, ComboInPlace, ComboCompared
  <2> QED BY <2>2, <2>3, <2>4
<1>2. CASE \E b \in Buttons : LetGo(b)
  <2>1. PICK b \in Buttons : LetGo(b) BY <1>2
  <2>2. KeysTypeOK' BY <2>1 DEF LetGo, KeysTypeOK
  <2>3. StoredAreDown' BY <2>1 DEF LetGo, StoredAreDown
  <2>4. ComboInPlace' /\ ComboCompared' BY <2>1 DEF LetGo, ComboInPlace, ComboCompared
  <2> QED BY <2>2, <2>3, <2>4
<1>3. CASE Tick
  <2>1. KeysTypeOK' BY <1>3 DEF Tick, KeysTypeOK
  <2>2. StoredAreDown' BY <1>3 DEF Tick, StoredAreDown
  <2>3. ComboInPlace' /\ ComboCompared' BY <1>3 DEF Tick, ComboInPlace, ComboCompared
  <2> QED BY <2>1, <2>2, <2>3
<1> QED BY <1>1, <1>2, <1>3

(* A pass of Run that has not found the flag set.                          *)
LEMMA PassInv ==
  ASSUME KeysInv, KeyHandler
  PROVE  KeysInv'
<1> USE KeysAssumption DEF KeysInv, KeyHandler, ReadLatch, SendEvent
<1>1. ComboInPlace' /\ ComboCompared' BY DEF latch, ComboInPlace, ComboCompared
<1>2. CASE Pressed
  <2> USE <1>2 DEF Pressed, KeyHandlerStore, Store
  <2>1. KeysTypeOK' BY DEF latch, KeysTypeOK
  <2>2. StoredAreDown' BY DEF StoredAreDown
  <2> QED BY <2>1, <2>2, <1>1
<1>3. CASE Released
  <2> USE <1>3 DEF Released, Release
  <2>1. KeysTypeOK' BY DEF latch, KeysTypeOK
  <2>2. StoredAreDown' BY DEF StoredAreDown
  <2> QED BY <2>1, <2>2, <1>1
<1>4. CASE Repeat
  <2> USE <1>4 DEF Repeat
  <2>1. KeysTypeOK' BY DEF latch, KeysTypeOK
  <2>2. StoredAreDown' BY DEF StoredAreDown
  <2> QED BY <2>1, <2>2, <1>1
<1>5. CASE Quiet
  <2> USE <1>5 DEF Quiet, handler, Nothing
  <2>1. KeysTypeOK' BY DEF latch, KeysTypeOK
  <2>2. StoredAreDown' BY DEF StoredAreDown
  <2> QED BY <2>1, <2>2, <1>1
<1> QED BY <1>2, <1>3, <1>4, <1>5

(* A pass that looks for the combination.                                  *)
LEMMA ComboInv ==
  ASSUME KeysInv, LookForCombo \/ Compare \/ ResumeKeys \/ SendCombo
  PROVE  KeysInv'
<1> USE KeysAssumption DEF KeysInv, pad, handler, latch
<1>0. pass \in Passes BY DEF KeysTypeOK, Passes
<1>1. CASE LookForCombo
  <2> USE <1>1 DEF LookForCombo
  <2>1. pass' \in Passes
    <3>1. ("stop" \in half \/ crossed) \in BOOLEAN BY Zenon DEF KeysTypeOK
    <3>2. held \in SUBSET Buttons BY DEF KeysTypeOK
    <3> QED BY <3>1, <3>2 DEF Passes
  <2>2. event'.id = "nothing" /\ event'.keys = {} BY DEF Nothing
  <2>3. KeysTypeOK' BY <2>1, <2>2 DEF KeysTypeOK, Passes
  <2>4. StoredAreDown' BY DEF StoredAreDown
  <2>5. ComboInPlace' BY DEF ComboInPlace
  <2>6. ComboCompared'
    <3>1. pass'.pc = "compare" /\ (~pass'.met => "stop" \notin half /\ ~crossed) OBVIOUS
    <3> QED BY <3>1 DEF ComboInPlace, ComboCompared
  <2> QED BY <2>3, <2>4, <2>5, <2>6
<1>2. CASE Compare
  <2> USE <1>2 DEF Compare
  <2>1. CASE ComboDone
    <3>1. pass' = [pass EXCEPT !.pc = "resume"] BY <2>1
    <3>2. pass' \in Passes BY <1>0, <3>1 DEF Passes
    <3>3. KeysTypeOK' BY <3>2 DEF KeysTypeOK, Passes
    <3>4. StoredAreDown' /\ ComboInPlace' BY DEF StoredAreDown, ComboInPlace
    <3>5. pass'.pc = "resume" /\ pass'.seen = pass.seen /\ pass'.met = pass.met
      BY <1>0, <3>1 DEF Passes
    <3>6. ComboCompared' BY <2>1, <3>5 DEF ComboDone, ComboCompared
    <3> QED BY <3>3, <3>4, <3>6
  <2>2. CASE ~ComboDone
    <3>1. pass' = Waits BY <2>2
    <3>2. pass' \in Passes BY <3>1 DEF Passes, Waits
    <3>3. KeysTypeOK' BY <3>2 DEF KeysTypeOK, Passes
    <3>4. StoredAreDown' /\ ComboInPlace' BY DEF StoredAreDown, ComboInPlace
    <3>5. ComboCompared' BY <3>1 DEF Waits, ComboCompared
    <3> QED BY <3>3, <3>4, <3>5
  <2> QED BY <2>1, <2>2
<1>3. CASE ResumeKeys
  <2> USE <1>3 DEF ResumeKeys
  <2>1. pass' \in Passes BY <1>0 DEF Passes
  <2>2. KeysTypeOK' BY <2>1 DEF KeysTypeOK, Passes
  <2>3. StoredAreDown' /\ ComboInPlace' BY DEF StoredAreDown, ComboInPlace
  <2>4. pass'.pc = "send" /\ pass'.seen = pass.seen /\ pass'.met = pass.met
    BY <1>0 DEF Passes
  <2>5. ComboCompared' BY <2>4 DEF ComboCompared
  <2> QED BY <2>2, <2>3, <2>5
<1>4. CASE SendCombo
  <2> USE <1>4 DEF SendCombo, SendEvent, Waits
  <2>1. pass' \in Passes BY DEF Passes
  <2>2. event'.id = "COMBO" /\ event'.keys \subseteq Buttons BY <1>0 DEF Passes
  <2>3. KeysTypeOK' BY <2>1, <2>2 DEF KeysTypeOK, Passes
  <2>4. StoredAreDown' /\ ComboInPlace' BY DEF StoredAreDown, ComboInPlace
  <2>5. ComboCompared' BY DEF ComboCompared
  <2> QED BY <2>3, <2>4, <2>5
<1> QED BY <1>1, <1>2, <1>3, <1>4

(* A call meets the pass that is under way.                                *)
LEMMA MeetsPass ==
  ASSUME KeysInv, Meets
  PROVE  pass' \in Passes /\ ComboCompared'
<1>1. pass \in Passes BY DEF KeysInv, KeysTypeOK, Passes
<1>2. (pass # Waits) \in BOOLEAN OBVIOUS
<1>3. pass' = [pass EXCEPT !.met = (pass # Waits)] BY DEF Meets
<1>4. pass' \in Passes BY <1>1, <1>2, <1>3 DEF Passes
<1>5. pass'.pc = pass.pc /\ pass'.seen = pass.seen /\ pass'.met = (pass # Waits)
  BY <1>1, <1>3 DEF Passes
<1>6. pass.pc # "waits" => pass # Waits BY DEF Waits
<1> QED BY <1>4, <1>5, <1>6 DEF ComboCompared

(* The other threads.                                                      *)
LEMMA LatchInv ==
  ASSUME KeysInv, StopKeyLatch \/ StartKeyLatch
  PROVE  KeysInv'
<1> USE KeysAssumption DEF KeysInv, pad, handler
<1>0. pass' \in Passes /\ ComboCompared'
  BY MeetsPass DEF StopKeyLatch, StartKeyLatch, Assign, Complete
<1>1. CASE StopKeyLatch
  <2> USE <1>1 DEF StopKeyLatch, Assign, Complete
  <2>1. KeysTypeOK'
    <3>1. crossed' \in BOOLEAN /\ m_StopKeyLatch' \in BOOLEAN BY Zenon DEF KeysTypeOK
    <3>2. half' \subseteq {"stop", "start"} BY DEF KeysTypeOK
    <3>3. m_KeyComboToResumeKeyLatch' \in {{}, ResumeCombo} BY DEF KeysTypeOK
    <3>4. UNCHANGED <<held, uiMake, uiBreak, stm_var, m_stored_keystate, m_tick_trigger,
                      m_long_press, event, pressedFor>>
      OBVIOUS
    <3> QED BY Zenon, <1>0, <3>1, <3>2, <3>3, <3>4 DEF KeysTypeOK, Passes
  <2>2. StoredAreDown' BY DEF StoredAreDown
  <2>3. ComboInPlace' BY DEF ComboInPlace, KeysTypeOK
  <2> QED BY <1>0, <2>1, <2>2, <2>3
<1>2. CASE StartKeyLatch
  <2> USE <1>2 DEF StartKeyLatch, Assign, Complete
  <2>1. KeysTypeOK'
    <3>1. crossed' \in BOOLEAN /\ m_StopKeyLatch' \in BOOLEAN BY Zenon DEF KeysTypeOK
    <3>2. half' \subseteq {"stop", "start"} BY DEF KeysTypeOK
    <3>3. m_KeyComboToResumeKeyLatch' \in {{}, ResumeCombo} BY DEF KeysTypeOK
    <3>4. UNCHANGED <<held, uiMake, uiBreak, stm_var, m_stored_keystate, m_tick_trigger,
                      m_long_press, event, pressedFor>>
      OBVIOUS
    <3> QED BY Zenon, <1>0, <3>1, <3>2, <3>3, <3>4 DEF KeysTypeOK, Passes
  <2>2. StoredAreDown' BY DEF StoredAreDown
  <2>3. ComboInPlace'
    <3>1. CASE Assign("start", FALSE)
      <4>1. ~m_StopKeyLatch' /\ (half # {} <=> crossed') BY <3>1
      <4>2. half' = half \cup {"start"} BY <3>1
      <4> QED BY <4>1, <4>2 DEF ComboInPlace
    <3>2. CASE Complete("start", {})
      <4>1. half' = half \ {"start"} /\ "start" \in half BY <3>2
      <4>2. crossed' = crossed /\ m_StopKeyLatch' = m_StopKeyLatch BY <3>2
      <4> QED BY <4>1, <4>2 DEF ComboInPlace
    <3> QED BY <3>1, <3>2
  <2> QED BY <1>0, <2>1, <2>2, <2>3
<1> QED BY <1>1, <1>2

LEMMA KeysNextInv == KeysInv /\ [KeysNext]_keysVars => KeysInv'
<1> SUFFICES ASSUME KeysInv, [KeysNext]_keysVars PROVE KeysInv'
  OBVIOUS
<1>1. CASE UNCHANGED keysVars
  BY <1>1 DEF keysVars, pad, handler, latch, KeysInv, KeysTypeOK, StoredAreDown,
              ComboInPlace, ComboCompared
<1> QED BY <1>1, PadInv, PassInv, ComboInv, LatchInv DEF KeysNext

LEMMA KeysInvariant == KeysSpec => []KeysInv
BY KeysInitInv, KeysNextInv, PTL DEF KeysSpec

(* The state of the key handler has its types.                             *)
THEOREM KeysTypeCorrect == KeysSpec => []KeysTypeOK
<1>1. KeysInv => KeysTypeOK BY DEF KeysInv
<1> QED BY <1>1, KeysInvariant, PTL

(* A release names the buttons that are let go, whatever buttons come and  *)
(* go between two passes of Run.                                           *)
THEOREM ReleasesAreNamed == KeysSpec => []ReleaseNamesTheKeys
<1>1. KeysInv => ReleaseNamesTheKeys
  BY DEF KeysInv, StoredAreDown, ReleaseNamesTheKeys
<1> QED BY <1>1, KeysInvariant, PTL

(* The handler is left in PRESSED by nothing but a button that came and    *)
(* went between two passes.                                                *)
THEOREM OnlyTapsStick == KeysSpec => []StuckOnlyAfterTap
<1>1. KeysInv => StuckOnlyAfterTap
  BY DEF KeysInv, StoredAreDown, StuckOnlyAfterTap
<1> QED BY <1>1, KeysInvariant, PTL

(* The keys come back by the combination, but for a pass that a call of    *)
(* StopKeyLatch or StartKeyLatch has met.                                  *)
THEOREM KeysComeByCombo == KeysSpec => []ComboWasPressed
<1>1. KeysInv => ComboWasPressed BY DEF KeysInv, ComboCompared, ComboWasPressed
<1> QED BY <1>1, KeysInvariant, PTL

-----------------------------------------------------------------------------
(* The text interface.                                                     *)

(* A text is known by its call, or by the call of Initialize.              *)
Numbers == 0..(MaxCalls + MaxThreads)

(* Every event the main thread may dispatch.                               *)
Events ==
    {Event("screen", s, 0) : s \in Screens} \cup {Event("side", x, 0) : x \in Sides}
        \cup {Event("text", x, n) : x \in Sides \cup {"options"}, n \in Numbers}
        \cup {Event("box", b, 0) : b \in Boxes}

(* An event is for the screen that is shown when it is handled.            *)
Suits(screen, e) ==
    /\ e.id = "side" => screen \in ListScreens
    /\ e.id = "text" /\ e.arg = "options" => screen = "options"

(* What a call may dispatch when that screen was asked for.                *)
Batch(events, screen) ==
    /\ \A i \in DOMAIN events : i > 1 => events[i].id # "screen"
    /\ \A i \in DOMAIN events :
          Suits(IF events[1].id = "screen" THEN events[1].arg ELSE screen, events[i])
    /\ events[1].id = "screen" /\ events[1].arg \in ListScreens
          => events[Len(events)].id = "side"

-----------------------------------------------------------------------------
(* The paths that are cut off a path of one or two states.                 *)
LEMMA PathPrefix ==
  ASSUME NEW a, NEW b
  PROVE  /\ SubSeq(<<a>>, 1, 1) = <<a>>
         /\ SubSeq(<<a, b>>, 1, 1) = <<a>>
         /\ SubSeq(<<a, b>>, 1, 2) = <<a, b>>
<1> DEFINE S == {a, b}
<1>1. <<a>> \in Seq(S) /\ <<a, b>> \in Seq(S) OBVIOUS
<1>2. SubSeq(<<a>>, 1, 1) \in Seq(S) /\ Len(SubSeq(<<a>>, 1, 1)) = 1
      /\ SubSeq(<<a>>, 1, 1)[1] = a
  <2>1. \A i \in 1..1 : <<a>>[i] \in S OBVIOUS
  <2> HIDE DEF S
  <2> QED BY <2>1, SubSeqProperties
<1>3. SubSeq(<<a, b>>, 1, 1) \in Seq(S) /\ Len(SubSeq(<<a, b>>, 1, 1)) = 1
      /\ SubSeq(<<a, b>>, 1, 1)[1] = a
  <2>1. \A i \in 1..1 : <<a, b>>[i] \in S OBVIOUS
  <2> HIDE DEF S
  <2> QED BY <2>1, SubSeqProperties
<1>4. SubSeq(<<a, b>>, 1, 2) = <<a, b>>
  <2>1. Len(<<a, b>>) = 2 OBVIOUS
  <2> HIDE DEF S
  <2> QED BY <1>1, <2>1, SubSeqFull
<1>5. SubSeq(<<a>>, 1, 1) = <<a>>
  <2>1. Len(<<a>>) = 1 /\ <<a>>[1] = a OBVIOUS
  <2>2. \A i \in 1..Len(SubSeq(<<a>>, 1, 1)) : SubSeq(<<a>>, 1, 1)[i] = <<a>>[i]
    BY <1>2, <2>1
  <2> HIDE DEF S
  <2> QED BY <1>1, <1>2, <2>1, <2>2, SeqEqual
<1>6. SubSeq(<<a, b>>, 1, 1) = <<a>>
  <2>1. Len(<<a>>) = 1 /\ <<a>>[1] = a OBVIOUS
  <2>2. \A i \in 1..Len(SubSeq(<<a, b>>, 1, 1)) : SubSeq(<<a, b>>, 1, 1)[i] = <<a>>[i]
    BY <1>3, <2>1
  <2> HIDE DEF S
  <2> QED BY <1>1, <1>3, <2>1, <2>2, SeqEqual
<1> QED BY <1>4, <1>5, <1>6

(* The events that the calls make.                                         *)
LEMMA EventForms ==
  /\ \A s \in Screens : Event("screen", s, 0) \in Events
  /\ \A x \in Sides : Event("side", x, 0) \in Events
  /\ \A x \in Sides \cup {"options"}, n \in Numbers : Event("text", x, n) \in Events
  /\ \A b \in Boxes : Event("box", b, 0) \in Events
BY DEF Events

(* IScreen::Activate dispatches the screen first, then only what suits it, *)
(* and the side last if the screen has sides.                              *)
LEMMA ActivationForm ==
  ASSUME NEW s \in Screens, NEW x, s \in ListScreens => x \in Sides, NEW n \in Numbers,
         NEW e \in Activation(s, x, n)
  PROVE  /\ e \in Seq(Events) /\ e # << >>
         /\ e[1] = Event("screen", s, 0)
         /\ \A screen : Batch(e, screen)
<1> DEFINE a == Event("screen", s, 0)
           b == Event("text", "list", n)
           c == Event("text", "entries", n)
           d == Event("side", x, 0)
           o == Event("text", s, n)
<1>1. CASE s = "options"
  <2>1. e = <<a, o>> BY <1>1 DEF Activation, Text
  <2>2. a \in Events /\ o \in Events BY <1>1, EventForms
  <2>3. Suits(s, a) /\ Suits(s, o) /\ o.id # "screen" BY <1>1 DEF Suits, Event
  <2>4. s \notin ListScreens BY <1>1, WindowAssumption
  <2>5. a.id = "screen" /\ a.arg = s BY DEF Event
  <2> HIDE DEF a, o
  <2>6. e \in Seq(Events) /\ e # << >> /\ e[1] = a /\ e[2] = o /\ Len(e) = 2 BY <2>1, <2>2
  <2> QED BY <2>3, <2>4, <2>5, <2>6 DEF Batch, a
<1>2. CASE s # "options"
  <2>1. s \in ListScreens /\ x \in Sides BY <1>2 DEF Screens
  <2>2. e \in {<<a, d>>, <<a, b, d>>, <<a, b, c, d>>}
    <3> QED BY <1>2 DEF Activation, Text
  <2>3. a \in Events /\ b \in Events /\ c \in Events /\ d \in Events
    BY <2>1, EventForms DEF Sides
  <2>4. \A y \in {a, b, c, d} : Suits(s, y) BY <2>1, <1>2 DEF Suits, Event
  <2>5. \A y \in {b, c, d} : y.id # "screen" BY DEF Event
  <2>6. a.id = "screen" /\ a.arg = s /\ d.id = "side" BY DEF Event
  <2> HIDE DEF a, b, c, d
  <2>7. CASE e = <<a, d>>
    <3>1. e \in Seq(Events) /\ e # << >> /\ Len(e) = 2 /\ e[1] = a /\ e[2] = d
      BY <2>3, <2>7
    <3>2. \A i \in DOMAIN e : e[i] \in {a, b, c, d} /\ (i > 1 => e[i] \in {b, c, d})
      BY <3>1
    <3>3. \A screen : Batch(e, screen)
      BY <2>4, <2>5, <2>6, <3>1, <3>2 DEF Batch
    <3> QED BY <3>1, <3>3 DEF a
  <2>8. CASE e = <<a, b, d>>
    <3>1. e \in Seq(Events) /\ e # << >> /\ Len(e) = 3
          /\ e[1] = a /\ e[2] = b /\ e[3] = d
      BY <2>3, <2>8
    <3>2. \A i \in DOMAIN e : e[i] \in {a, b, c, d} /\ (i > 1 => e[i] \in {b, c, d})
      BY <3>1
    <3>3. \A screen : Batch(e, screen)
      BY <2>4, <2>5, <2>6, <3>1, <3>2 DEF Batch
    <3> QED BY <3>1, <3>3 DEF a
  <2>9. CASE e = <<a, b, c, d>>
    <3>1. e \in Seq(Events) /\ e # << >> /\ Len(e) = 4
          /\ e[1] = a /\ e[2] = b /\ e[3] = c /\ e[4] = d
      BY <2>3, <2>9
    <3>2. \A i \in DOMAIN e : e[i] \in {a, b, c, d} /\ (i > 1 => e[i] \in {b, c, d})
      BY <3>1
    <3>3. \A screen : Batch(e, screen)
      BY <2>4, <2>5, <2>6, <3>1, <3>2 DEF Batch
    <3> QED BY <3>1, <3>3 DEF a
  <2> QED BY <2>2, <2>7, <2>8, <2>9 DEF a
<1> QED BY <1>1, <1>2

(* What a message box may hold.                                            *)
Anything == Events \cup {VBlank}

Idle == {"none", "test", "receive", "ended"}

HsmStates ==
    {[pc |-> p, event |-> VBlank] : p \in Idle}
        \cup {[pc |-> "handle", event |-> e] : e \in Anything}
        \cup {[pc |-> "wait", event |-> Event("none", "", n)] : n \in 1..MaxThreads}

Views == [state : States, texts : [Panels -> Numbers]]

(* The paths of panels and of states.                                      *)
LEMMA Forms ==
  /\ \A p \in Panels : p = <<"options">> \/ \E s \in ListScreens, x \in Sides : p = <<s, x>>
  /\ \A s \in ListScreens, x \in Sides : <<s, x>> \in Panels /\ <<s, x>> \in States
  /\ \A s \in Screens : <<s>> \in States
  /\ <<"options">> \in Panels
  /\ Panels \subseteq States
BY DEF Panels, States, Screens

LEMMA StateForms ==
  ASSUME NEW a \in States
  PROVE  \/ a = << >>
         \/ \E s \in Screens : a = <<s>>
         \/ \E s \in ListScreens, x \in Sides : a = <<s, x>>
BY DEF States

(* An event says what it is by its id.                                     *)
LEMMA EventCases ==
  ASSUME NEW e \in Events
  PROVE  /\ \/ e.id = "screen" /\ e.arg \in Screens
            \/ e.id = "side" /\ e.arg \in Sides
            \/ e.id = "text" /\ e.arg \in Sides \cup {"options"} /\ e.n \in Numbers
            \/ e.id = "box" /\ e.arg \in Boxes
         /\ e # VBlank
<1>0. /\ VBlank.id = "vblank"
      /\ \A id, arg, n : Event(id, arg, n).id = id /\ Event(id, arg, n).arg = arg
                          /\ Event(id, arg, n).n = n
  BY DEF Event, VBlank
<1>1. CASE \E s \in Screens : e = Event("screen", s, 0)
  BY <1>0, <1>1
<1>2. CASE \E x \in Sides : e = Event("side", x, 0)
  BY <1>0, <1>2
<1>3. CASE \E x \in Sides \cup {"options"}, n \in Numbers : e = Event("text", x, n)
  BY <1>0, <1>3
<1>4. CASE \E b \in Boxes : e = Event("box", b, 0)
  BY <1>0, <1>4
<1> QED BY <1>1, <1>2, <1>3, <1>4 DEF Events

LEMMA OtherEvents ==
  /\ VBlank.id = "vblank" /\ \A n : Event("none", "", n).id = "none"
  /\ VBlank \in Anything
  /\ \A n : Event("none", "", n) # VBlank
BY DEF VBlank, Event, Anything

(* An event of another kind asks for nothing.                              *)
LEMMA AskedOfOthers ==
  ASSUME NEW a, NEW e, e.id \notin {"screen", "side", "text"}
  PROVE  Asked(a, e) = a
BY DEF Asked

(* What is asked for is a state and texts again, if the event suits the    *)
(* screen; a side completes the path and a screen begins it.               *)
LEMMA AskedTyped ==
  ASSUME NEW a \in Views, NEW e \in Events,
         e.id = "screen" \/ (a.state # << >> /\ Suits(a.state[1], e))
  PROVE  /\ Asked(a, e) \in Views
         /\ Asked(a, e).state[1] = IF e.id = "screen" THEN e.arg ELSE a.state[1]
         /\ e.id = "side" => Asked(a, e).state = <<a.state[1], e.arg>>
                             /\ Asked(a, e).state \in Panels
         /\ e.id = "screen" => Asked(a, e) = [state |-> <<e.arg>>, texts |-> NoText]
         /\ e.id \in {"text", "box"} => Asked(a, e).state = a.state
         /\ a.state # << >> \/ e.id # "box" => Asked(a, e).state # << >>
<1>1. CASE e.id = "screen"
  <2>1. e.arg \in Screens BY <1>1, EventCases
  <2>2. Asked(a, e) = [state |-> <<e.arg>>, texts |-> NoText] BY <1>1 DEF Asked
  <2>3. NoText \in [Panels -> Numbers] BY WindowAssumption DEF NoText, Numbers
  <2> QED BY <1>1, <2>1, <2>2, <2>3, Forms DEF Views
<1>2. CASE e.id = "side"
  <2>1. e.arg \in Sides /\ a.state # << >> /\ a.state[1] \in ListScreens
    BY <1>2, EventCases DEF Suits
  <2>2. Asked(a, e) = [a EXCEPT !.state = <<a.state[1], e.arg>>] BY <1>2 DEF Asked
  <2>3. <<a.state[1], e.arg>> \in Panels /\ <<a.state[1], e.arg>> \in States
    BY <2>1, Forms
  <2> QED BY <1>2, <2>1, <2>2, <2>3 DEF Views
<1>3. CASE e.id = "text"
  <2>1. e.n \in Numbers BY <1>3, EventCases
  <2>2. \/ Asked(a, e) = a
        \/ \E p \in Panels : Asked(a, e) = [a EXCEPT !.texts[p] = e.n]
    <3>1. CASE e.arg = "options"
      <4>0. "options" \notin Sides BY DEF Sides
      <4>1. Asked(a, e) = [a EXCEPT !.texts[<<"options">>] = e.n]
        BY <1>3, <3>1, <4>0 DEF Asked
      <4> QED BY <4>1, Forms
    <3>2. CASE e.arg \in Sides /\ a.state[1] \in ListScreens
      <4>1. "options" \notin Sides BY DEF Sides
      <4>2. Asked(a, e) = [a EXCEPT !.texts[<<a.state[1], e.arg>>] = e.n]
        BY <1>3, <3>2, <4>1 DEF Asked
      <4>3. <<a.state[1], e.arg>> \in Panels BY <3>2, Forms
      <4> QED BY <4>2, <4>3
    <3>3. CASE e.arg # "options" /\ ~(e.arg \in Sides /\ a.state[1] \in ListScreens)
      BY <1>3, <3>3 DEF Asked
    <3> QED BY <3>1, <3>2, <3>3
  <2> QED BY <1>3, <2>1, <2>2 DEF Views
<1>4. CASE e.id = "box"
  BY <1>4, AskedOfOthers DEF Views
<1> QED BY <1>1, <1>2, <1>3, <1>4, EventCases

(* When the first event is dispatched, the others suit the screen that is  *)
(* asked for by then.                                                      *)
LEMMA BatchTail ==
  ASSUME NEW events \in Seq(Events), events # << >>, NEW screen, Batch(events, screen),
         NEW next, next = IF events[1].id = "screen" THEN events[1].arg ELSE screen
  PROVE  /\ Suits(next, events[1]) /\ Tail(events) \in Seq(Events) /\ events[1] \in Events
         /\ Tail(events) # << >> =>
              /\ Batch(Tail(events), next)
              /\ Tail(events)[1].id # "screen"
              /\ Tail(events)[Len(Tail(events))] = events[Len(events)]
         /\ Tail(events) = << >> => Len(events) = 1
         /\ events[1].id = "screen" /\ events[1].arg \in ListScreens => 
               Tail(events) # << >> /\ events[Len(events)].id = "side"
<1>1. /\ Tail(events) \in Seq(Events) /\ Len(Tail(events)) = Len(events) - 1
      /\ \A i \in 1..Len(Tail(events)) : Tail(events)[i] = events[i + 1]
      /\ events[1] \in Events /\ Len(events) \in Nat \ {0}
      /\ (Tail(events) = << >> <=> Len(events) = 1)
  <2>1. Tail(events) \in Seq(Events) /\ Len(Tail(events)) = Len(events) - 1
    BY HeadTailProperties
  <2>2. \A i \in 1..Len(Tail(events)) : Tail(events)[i] = events[i + 1]
    BY HeadTailProperties
  <2>3. events[1] \in Events /\ Len(events) \in Nat \ {0}
    OBVIOUS
  <2>4. Tail(events) = << >> <=> Len(events) = 1
    <3>1. Tail(events) # << >> => Len(Tail(events)) \in Nat \ {0}
      BY <2>1, EmptySeq, Zenon
    <3>2. Len(<< >>) = 0 BY EmptySeq
    <3>3. Tail(events) = << >> => Len(Tail(events)) = 0 BY <3>2, Zenon
    <3>4. Len(events) = 1 => Len(Tail(events)) = 0 BY <2>1
    <3>5. Len(events) = 1 => Tail(events) = << >> BY <3>1, <3>4
    <3>6. Len(Tail(events)) = 0 => Len(events) = 1
      <4>1. \A m, k : k \in Nat /\ m = k - 1 /\ m = 0 => k = 1 OBVIOUS
      <4>2. Len(events) \in Nat BY <2>3
      <4> QED BY <2>1, <4>1, <4>2, Zenon
    <3> QED BY <3>3, <3>5, <3>6, Zenon
  <2> QED BY <2>1, <2>2, <2>3, <2>4
<1>2. \A i \in 1..Len(Tail(events)) : Tail(events)[i].id # "screen" /\ Suits(next, Tail(events)[i])
  BY <1>1 DEF Batch
<1>3. Suits(next, events[1]) BY <1>1 DEF Batch
<1>4. Tail(events) # << >> => Batch(Tail(events), next)
  <2>1. Tail(events) # << >> => 1 \in 1..Len(Tail(events)) BY <1>1
  <2>2. DOMAIN Tail(events) = 1..Len(Tail(events)) BY <1>1
  <2> QED BY <1>2, <2>1, <2>2 DEF Batch
<1>5. events[1].id = "screen" /\ events[1].arg \in ListScreens => events[Len(events)].id = "side"
  BY DEF Batch
<1> QED BY <1>1, <1>2, <1>3, <1>4, <1>5

(* What the main thread is to dispatch suits the screen it asks for.       *)
CallerOK ==
    /\ main \in {"initialize", "start", "run", "terminate", "cancel", "join", "gone"}
    /\ todo \in Seq(Events)
    /\ todo # << >> => main = "run" /\ Batch(todo, asked.state[1])
    /\ calls \in 0..MaxCalls
    /\ asked \in Views /\ asked.state # << >>
    /\ asked.state \in Panels \/ (todo # << >> /\ todo[Len(todo)].id = "side")
    /\ buffer \in [Boxes -> 0..MaxCalls]
    /\ m_state \in {"NOT_ACTIVE", "ACTIVE"}

(* A thread waits at a message box that has been made and, if it is the    *)
(* last, is empty.                                                         *)
MailOK ==
    /\ mbx \in Seq(Seq(Anything)) /\ Len(mbx) <= MaxThreads
    /\ hsm \in [Threads -> HsmStates]
    /\ \A t \in Threads :
          /\ t > Len(mbx) => hsm[t].pc = "none"
          /\ hsm[t].pc = "wait" =>
                /\ hsm[t].event.n <= Len(mbx)
                /\ hsm[t].event.n = Len(mbx) => mbx[Len(mbx)] = << >>

StageOK ==
    /\ render \in {"loop", "send", "ended"}
    /\ Len(mbx) = 0 => main = "initialize" /\ ~m_HSMInitialized /\ render # "send"
    /\ main = "initialize" => Len(mbx) < MaxThreads
    /\ main = "start" => hsm[Newest].pc = "none"
    /\ main = "gone" => hsm[Newest].pc = "ended"

BoxStates ==
    [state : {"HIDE", "SHOWING", "SHOW", "HIDING"}, opacity : 0..Fade, time : 0..Hold,
     text : 0..MaxCalls]

WindowOK ==
    /\ m_State \in States
    /\ panels \in [Panels -> {"max", "right", "bottom"}]
    /\ texts \in [Panels -> Numbers]
    /\ box \in [Boxes -> BoxStates]

WInv == CallerOK /\ MailOK /\ StageOK /\ WindowOK

-----------------------------------------------------------------------------
LEMMA HsmMakes ==
  /\ \A p \in Idle : [pc |-> p, event |-> VBlank] \in HsmStates
  /\ \A e \in Anything : [pc |-> "handle", event |-> e] \in HsmStates
  /\ \A n \in 1..MaxThreads : [pc |-> "wait", event |-> Event("none", "", n)] \in HsmStates
BY DEF HsmStates

(* What a thread has with it, by where it is.                              *)
LEMMA HsmForms ==
  ASSUME NEW h \in HsmStates
  PROVE  /\ h.pc \in Idle \cup {"handle", "wait"}
         /\ h.pc = "handle" => h.event \in Anything
         /\ h.pc = "wait" => /\ h = [pc |-> "wait", event |-> Event("none", "", h.event.n)]
                             /\ h.event = Event("none", "", h.event.n)
                             /\ h.event.n \in 1..MaxThreads
         /\ h.pc \in Idle => h = [pc |-> h.pc, event |-> VBlank] /\ h.event = VBlank
         /\ h.pc \in Idle => h.pc \notin {"handle", "wait"}
<1>0. "wait" \notin Idle /\ "handle" \notin Idle BY DEF Idle
<1>1. CASE \E p \in Idle : h = [pc |-> p, event |-> VBlank]
  <2>1. PICK p \in Idle : h = [pc |-> p, event |-> VBlank] BY <1>1
  <2>2. h.pc = p /\ h.event = VBlank BY <2>1
  <2>3. h.pc # "wait" /\ h.pc # "handle" BY <1>0, <2>2, Zenon
  <2> QED BY <2>1, <2>2, <2>3, Zenon
<1>2. CASE \E e \in Anything : h = [pc |-> "handle", event |-> e]
  BY <1>0, <1>2
<1>3. CASE \E n \in 1..MaxThreads : h = [pc |-> "wait", event |-> Event("none", "", n)]
  <2>1. PICK n \in 1..MaxThreads : h = [pc |-> "wait", event |-> Event("none", "", n)]
    BY <1>3
  <2>2. h.pc = "wait" /\ h.event = Event("none", "", n) BY <2>1
  <2>3. h.event.n = n
    <3>1. Event("none", "", n).n = n BY DEF Event
    <3> QED BY <2>2, <3>1, Zenon
  <2> QED BY <1>0, <2>1, <2>2, <2>3
<1> QED BY <1>1, <1>2, <1>3 DEF HsmStates

(* A thread that waits, by its place and its message box.                  *)
LEMMA WaitsForm ==
  ASSUME hsm \in [Threads -> HsmStates], NEW t \in Threads, NEW b
  PROVE  WaitsAt(t, b) <=> hsm[t].pc = "wait" /\ hsm[t].event.n = b
<1>1. hsm[t] \in HsmStates OBVIOUS
<1>2. WaitsAt(t, b) => hsm[t].pc = "wait" /\ hsm[t].event.n = b
  <2>1. Event("none", "", b).n = b BY DEF Event
  <2>2. [pc |-> "wait", event |-> Event("none", "", b)].pc = "wait"
        /\ [pc |-> "wait", event |-> Event("none", "", b)].event = Event("none", "", b)
    OBVIOUS
  <2> QED BY <2>1, <2>2 DEF WaitsAt
<1>3. hsm[t].pc = "wait" /\ hsm[t].event.n = b => WaitsAt(t, b)
  BY <1>1, HsmForms, Zenon DEF WaitsAt
<1> QED BY <1>2, <1>3

(* A message is handed to a thread that waits, or it is queued and none    *)
(* waits.                                                                  *)
LEMMA SendKeeps ==
  ASSUME MailOK, Len(mbx) # 0, NEW e \in Anything, SendMbx(e)
  PROVE  /\ MailOK' /\ Len(mbx') = Len(mbx)
         /\ \A t \in Threads : hsm'[t] = hsm[t] \/ (hsm[t].pc = "wait" /\ hsm[t].event.n = Newest)
<1> USE DEF HSMMessagebox, Newest
<1>0. Len(mbx) \in 1..Len(mbx) /\ Len(mbx) \in Nat BY DEF MailOK
<1>1. CASE \E t \in Threads : WaitsAt(t, Len(mbx))
  <2>1. mbx' = mbx BY <1>1 DEF SendMbx
  <2>2. PICK t \in Threads : /\ WaitsAt(t, Len(mbx))
                             /\ hsm' = [hsm EXCEPT ![t] = [pc |-> "handle", event |-> e]]
    BY <1>1 DEF SendMbx
  <2>3. hsm[t].pc = "wait" /\ hsm[t].event.n = Len(mbx) BY <2>2, WaitsForm DEF MailOK
  <2>4. hsm' \in [Threads -> HsmStates] BY <2>2, HsmMakes DEF MailOK
  <2>5. hsm'[t].pc = "handle" BY <2>2 DEF MailOK
  <2>6. \A u \in Threads : u # t => hsm'[u] = hsm[u] BY <2>2 DEF MailOK
  <2>7. t <= Len(mbx)
    <3>1. ~(t > Len(mbx)) BY <2>3 DEF MailOK
    <3>2. t \in Nat BY WindowAssumption DEF Threads
    <3> QED BY <1>0, <3>1, <3>2
  <2>8. MailOK' BY <2>1, <2>4, <2>5, <2>6, <2>7, <1>0 DEF MailOK, Threads
  <2> QED BY <2>1, <2>3, <2>6, <2>8
<1>2. CASE ~ \E t \in Threads : WaitsAt(t, Len(mbx))
  <2>1. hsm' = hsm /\ mbx' = [mbx EXCEPT ![Len(mbx)] = Append(@, e)]
    BY <1>2 DEF SendMbx
  <2>2. mbx[Len(mbx)] \in Seq(Anything) BY <1>0 DEF MailOK
  <2>3. Append(mbx[Len(mbx)], e) \in Seq(Anything) BY <2>2
  <2>4. mbx' \in Seq(Seq(Anything)) /\ Len(mbx') = Len(mbx)
    BY <1>0, <2>1, <2>3, ExceptSeq DEF MailOK
  <2>5. \A t \in Threads : ~(hsm[t].pc = "wait" /\ hsm[t].event.n = Len(mbx))
    BY <1>2, WaitsForm DEF MailOK
  <2>6. MailOK' BY <2>1, <2>4, <2>5 DEF MailOK
  <2> QED BY <2>1, <2>4, <2>6
<1> QED BY <1>1, <1>2

LEMMA CallerInit == Init => CallerOK
<1> SUFFICES ASSUME Init PROVE CallerOK OBVIOUS
<1>1. todo = << >> /\ << >> \in Seq(Events) BY EmptySeq DEF Init
<1>2. NoText \in [Panels -> Numbers] BY WindowAssumption DEF NoText, Numbers
<1>3. asked = [state |-> <<"options">>, texts |-> NoText] BY DEF Init
<1>4. asked \in Views /\ asked.state # << >> /\ asked.state \in Panels
  BY <1>2, <1>3, Forms DEF Views
<1>5. buffer \in [Boxes -> 0..MaxCalls] BY WindowAssumption DEF Init
<1>6. main = "initialize" /\ calls = 0 /\ m_state = "NOT_ACTIVE" BY DEF Init
<1> QED BY <1>1, <1>4, <1>5, <1>6, WindowAssumption DEF CallerOK

(* What a call leaves to be dispatched suits the screen asked for.         *)
LEMMA CallKeeps ==
  ASSUME CallerOK, NEW events \in Seq(Events), Call(events) \/ (todo' = events /\ GiveUpExclusiveAccess),
         events # << >>, Batch(events, asked.state[1]),
         buffer' \in [Boxes -> 0..MaxCalls]
  PROVE  CallerOK'
<1>1. main = "run" /\ main' = main /\ todo = << >> /\ asked' = asked /\ todo' = events
  BY DEF Call, GiveUpExclusiveAccess
<1>2. calls' \in 0..MaxCalls /\ m_state' \in {"NOT_ACTIVE", "ACTIVE"}
  BY WindowAssumption DEF Call, GiveUpExclusiveAccess, CallerOK
<1>3. asked.state \in Panels BY <1>1 DEF CallerOK
<1> QED BY <1>1, <1>2, <1>3 DEF CallerOK

(* The main thread's own state: each call leaves events that suit the      *)
(* screen, and each dispatch leaves the others so.                         *)
LEMMA CallerStep == WInv /\ [Next]_vars => CallerOK'
<1> SUFFICES ASSUME WInv, [Next]_vars PROVE CallerOK' OBVIOUS
<1> USE DEF WInv
<1>1. CASE UNCHANGED caller
  <2>1. UNCHANGED <<main, todo, calls, asked, buffer, m_state>> BY <1>1 DEF caller
  <2> QED BY <2>1 DEF CallerOK
<1>2. CASE Activate
  <2>0. PICK s \in Screens, x \in Sides : \E e \in Activation(s, x, calls + 1) : Call(e)
    BY <1>2 DEF Activate
  <2>1. PICK e \in Activation(s, x, calls + 1) : Call(e) BY <2>0
  <2>2. calls + 1 \in Numbers BY <2>1, WindowAssumption DEF Call, CallerOK, Numbers
  <2>3. e \in Seq(Events) /\ e # << >> /\ Batch(e, asked.state[1])
    BY <2>2, ActivationForm
  <2> QED BY <1>2, <2>1, <2>3, CallKeeps DEF Activate, CallerOK
<1>3. CASE OnCurrentContainerSideChange
  <2>1. PICK x \in Sides : Call(<<Event("side", x, 0)>>) /\ asked.state[1] \in ListScreens
    BY <1>3 DEF OnCurrentContainerSideChange
  <2> DEFINE e == Event("side", x, 0)
  <2>2. e \in Events /\ e.id = "side" BY EventForms DEF Event
  <2>3. Suits(asked.state[1], e) BY <2>1, <2>2 DEF Suits
  <2> HIDE DEF e
  <2>4. <<e>> \in Seq(Events) /\ <<e>> # << >> /\ Len(<<e>>) = 1 /\ <<e>>[1] = e BY <2>2
  <2>5. Batch(<<e>>, asked.state[1]) BY <2>2, <2>3, <2>4 DEF Batch
  <2>6. Call(<<e>>) BY <2>1 DEF e
  <2> QED BY <1>3, <2>4, <2>5, <2>6, CallKeeps DEF OnCurrentContainerSideChange, CallerOK
<1>4. CASE DisplayContainersAndElements
  <2> DEFINE a == Event("text", "list", calls + 1)
             b == Event("text", "entries", calls + 1)
  <2>0. calls + 1 \in Numbers
    BY <1>4, WindowAssumption DEF DisplayContainersAndElements, Call, CallerOK, Numbers
  <2>1. a \in Events /\ b \in Events BY <2>0, EventForms DEF Sides
  <2>2. a.id = "text" /\ b.id = "text" /\ a.arg # "options" /\ b.arg # "options"
    BY DEF Event
  <2>3. Call(<<a, b>>) BY <1>4 DEF DisplayContainersAndElements, Text
  <2> HIDE DEF a, b
  <2>4. <<a, b>> \in Seq(Events) /\ <<a, b>> # << >> /\ Len(<<a, b>>) = 2
        /\ <<a, b>>[1] = a /\ <<a, b>>[2] = b BY <2>1
  <2>5. \A i \in 1..2 : <<a, b>>[i] \in {a, b} BY <2>4
  <2>6. \A y \in {a, b} : Suits(asked.state[1], y) /\ y.id # "screen" BY <2>2 DEF Suits
  <2>7. Batch(<<a, b>>, asked.state[1]) BY <2>2, <2>4, <2>5, <2>6 DEF Batch
  <2> QED BY <1>4, <2>3, <2>4, <2>7, CallKeeps DEF DisplayContainersAndElements, CallerOK
<1>5. CASE \E b \in Boxes : DisplayMessage(b)
  <2>1. PICK b \in Boxes : DisplayMessage(b) BY <1>5
  <2> DEFINE e == Event("box", b, 0)
  <2>2. e \in Events /\ e.id = "box" BY EventForms DEF Event
  <2>3. Suits(asked.state[1], e) BY <2>2 DEF Suits
  <2>4. Call(<<e>>) BY <2>1 DEF DisplayMessage
  <2> HIDE DEF e
  <2>5. <<e>> \in Seq(Events) /\ <<e>> # << >> /\ Len(<<e>>) = 1 /\ <<e>>[1] = e BY <2>2
  <2>6. Batch(<<e>>, asked.state[1]) BY <2>2, <2>3, <2>5 DEF Batch
  <2>7. calls + 1 \in 0..MaxCalls BY <2>4, WindowAssumption DEF Call, CallerOK
  <2>8. buffer' \in [Boxes -> 0..MaxCalls] BY <2>1, <2>7 DEF DisplayMessage, CallerOK
  <2> QED BY <2>4, <2>5, <2>6, <2>8, CallKeeps
<1>6. CASE GiveUpExclusiveAccess
  <2> DEFINE s == asked.state[1]
             x == Innermost(asked.state)
  <2>1. todo' \in Activation(s, x, calls + 1) BY <1>6 DEF GiveUpExclusiveAccess
  <2>2. asked.state \in Panels BY <1>6 DEF GiveUpExclusiveAccess, CallerOK
  <2>3. s \in Screens /\ (s \in ListScreens => x \in Sides)
    <3>1. CASE asked.state = <<"options">> 
      BY <3>1, WindowAssumption DEF Screens
    <3>2. CASE \E a \in ListScreens, y \in Sides : asked.state = <<a, y>>
      BY <3>2 DEF Screens, Innermost
    <3> QED BY <2>2, <3>1, <3>2, Forms
  <2>4. calls + 1 \in Numbers
    BY <1>6, WindowAssumption DEF GiveUpExclusiveAccess, CallerOK, Numbers
  <2>5. todo' \in Seq(Events) /\ todo' # << >> /\ Batch(todo', asked.state[1])
    BY <2>1, <2>3, <2>4, ActivationForm
  <2>6. buffer' \in [Boxes -> 0..MaxCalls] BY <1>6 DEF GiveUpExclusiveAccess, CallerOK
  <2> QED BY <1>6, <2>5, <2>6, CallKeeps
<1>7. CASE ChangeSkin \/ Terminate
  <2>1. UNCHANGED <<todo, asked, buffer>> /\ todo = << >> BY <1>7 DEF ChangeSkin, Terminate
  <2>2. main' \in {"initialize", "terminate"} /\ m_state' \in {"NOT_ACTIVE", "ACTIVE"}
    BY <1>7 DEF ChangeSkin, Terminate, CallerOK
  <2>3. calls' \in 0..MaxCalls BY <1>7, WindowAssumption DEF ChangeSkin, Terminate, CallerOK
  <2> QED BY <2>1, <2>2, <2>3 DEF CallerOK
<1>8. CASE Dispatch
  <2> DEFINE e == todo[1]
             s == asked.state[1]
             next == IF e.id = "screen" THEN e.arg ELSE s
  <2>1. /\ todo # << >> /\ todo' = Tail(todo) /\ asked' = Asked(asked, e)
        /\ UNCHANGED <<main, calls, buffer, m_state>> /\ main = "run"
    BY <1>8 DEF Dispatch
  <2>2. todo \in Seq(Events) /\ Batch(todo, s) BY <2>1 DEF CallerOK
  <2>3. e \in Events /\ todo' \in Seq(Events) BY <2>1, <2>2, BatchTail
  <2>4. todo' # << >> => Batch(todo', next) /\ todo'[Len(todo')] = todo[Len(todo)]
    BY <2>1, <2>2, BatchTail
  <2>5. todo' = << >> => Len(todo) = 1 BY <2>1, <2>2, BatchTail
  <2>6. e.id = "screen" \/ (asked.state # << >> /\ Suits(s, e))
    BY <2>1, <2>2, BatchTail DEF CallerOK
  <2>7. /\ asked' \in Views /\ asked'.state[1] = next /\ asked'.state # << >>
        /\ e.id = "side" => asked'.state \in Panels
        /\ e.id \in {"text", "box"} => asked'.state = asked.state
        /\ e.id = "screen" => asked'.state = <<e.arg>>
    <3>1. asked \in Views /\ asked.state # << >> BY DEF CallerOK
    <3> QED BY <2>1, <2>3, <2>6, <3>1, AskedTyped
  <2>8. asked'.state \in Panels \/ (todo' # << >> /\ todo'[Len(todo')].id = "side")
    <3>1. CASE e.id = "side" BY <2>7, <3>1
    <3>2. CASE e.id \in {"text", "box"}
      <4>1. asked.state \in Panels \/ todo[Len(todo)].id = "side" BY DEF CallerOK
      <4>2. todo[Len(todo)].id = "side" => Len(todo) # 1 BY <3>2
      <4> QED BY <2>4, <2>5, <2>7, <3>2, <4>1, <4>2
    <3>3. CASE e.id = "screen"
      <4>1. e.arg \in Screens BY <2>3, <3>3, EventCases
      <4>2. e.arg = "options" \/ e.arg \in ListScreens BY <4>1 DEF Screens
      <4>3. e.arg \in ListScreens => todo' # << >> /\ todo[Len(todo)].id = "side"
        BY <2>1, <2>2, <3>3, BatchTail
      <4> QED BY <2>4, <2>7, <3>3, <4>2, <4>3, Forms
    <3> QED BY <2>3, <3>1, <3>2, <3>3, EventCases
  <2> QED BY <2>1, <2>3, <2>4, <2>7, <2>8 DEF CallerOK
<1>9. CASE Initialize
  <2>1. UNCHANGED <<todo, calls, asked, buffer, m_state>> /\ main' = "start" /\ main = "initialize"
    BY <1>9 DEF Initialize
  <2> QED BY <2>1 DEF CallerOK
<1>10. CASE StartThread
  <2>1. UNCHANGED <<calls, asked, buffer, m_state>> /\ main' = "run" /\ main = "start"
    BY <1>10 DEF StartThread
  <2>2. Newest \in 1..MaxThreads BY <2>1 DEF MailOK, StageOK, Newest
  <2>3. PICK s \in Screens : todo' \in Activation(s, "list", MaxCalls + Newest)
    BY <1>10 DEF StartThread, Screens
  <2>4. MaxCalls + Newest \in Numbers BY <2>2, WindowAssumption DEF Numbers
  <2>5. todo' \in Seq(Events) /\ todo' # << >> /\ Batch(todo', asked.state[1])
    BY <2>3, <2>4, ActivationForm DEF Sides
  <2>6. asked.state \in Panels BY <2>1 DEF CallerOK
  <2> QED BY <2>1, <2>5, <2>6 DEF CallerOK
<1>11. CASE Deactivate \/ CancelReceive \/ WaitThreadEnd
  <2>1. UNCHANGED <<todo, calls, asked, buffer, m_state>> /\ main' \in {"cancel", "join", "gone"}
        /\ main \in {"terminate", "cancel", "join"}
    BY <1>11 DEF Deactivate, CancelReceive, WaitThreadEnd
  <2> QED BY <2>1 DEF CallerOK
<1>12. CASE RenderStep
  BY <1>1, <1>12 DEF RenderStep, RenderExits, RenderTests, RenderSends, RenderGo
<1>13. CASE \E t \in Threads : HsmStep(t)
  BY <1>1, <1>13 DEF HsmStep, TestActive, ReceiveMbx, Handle, RenderNormal, RenderNothing, HsmGo
<1>14. CASE UNCHANGED vars BY <1>1, <1>14 DEF vars
<1> QED BY <1>2, <1>3, <1>4, <1>5, <1>6, <1>7, <1>8, <1>9, <1>10, <1>11, <1>12, <1>13, <1>14
        DEF Next, MainCalls, MainSteps

LEMMA MailInit == Init => MailOK /\ StageOK
<1> SUFFICES ASSUME Init PROVE MailOK /\ StageOK OBVIOUS
<1>1. mbx = << >> /\ << >> \in Seq(Seq(Anything)) /\ Len(mbx) = 0 BY EmptySeq DEF Init
<1>2. hsm = [t \in Threads |-> [pc |-> "none", event |-> VBlank]] BY DEF Init, Nowhere
<1>3. hsm \in [Threads -> HsmStates] BY <1>2, HsmMakes DEF Idle
<1>4. \A t \in Threads : hsm[t].pc = "none" BY <1>2
<1>5. MailOK BY <1>1, <1>3, <1>4, WindowAssumption DEF MailOK
<1> QED BY <1>1, <1>5, WindowAssumption DEF StageOK, Init

(* A thread that goes from one idle place to another.                      *)
LEMMA IdleKeeps ==
  ASSUME MailOK, NEW t \in Threads, NEW p \in Idle, t <= Len(mbx), UNCHANGED mbx,
         hsm' = [hsm EXCEPT ![t] = [pc |-> p, event |-> VBlank]]
  PROVE  MailOK'
<1>1. hsm' \in [Threads -> HsmStates] BY HsmMakes DEF MailOK
<1>2. hsm'[t].pc = p /\ p # "wait" BY DEF MailOK, Idle
<1>3. \A u \in Threads : u # t => hsm'[u] = hsm[u] BY DEF MailOK
<1>4. t \in Nat /\ Len(mbx) \in Nat BY DEF MailOK, Threads
<1> QED BY <1>1, <1>2, <1>3, <1>4 DEF MailOK, Threads

(* A thread that is at work has been started, and takes its step.          *)
LEMMA HsmGoKeeps ==
  ASSUME MailOK, NEW t \in Threads, NEW from \in {"test", "handle"}, NEW to \in Idle,
         HsmGo(t, from, to)
  PROVE  MailOK'
<1>1. t <= Len(mbx) BY DEF HsmGo, MailOK, Threads
<1> QED BY <1>1, IdleKeeps DEF HsmGo

(* A thread takes the first message of the newest box, or waits there      *)
(* since it is empty.                                                      *)
LEMMA ReceiveKeeps ==
  ASSUME MailOK, NEW t \in Threads, ReceiveMbx(t)
  PROVE  MailOK' /\ Len(mbx') = Len(mbx) /\ Len(mbx) # 0
<1> USE DEF HSMMessagebox
<1>0. hsm[t].pc = "receive" BY DEF ReceiveMbx
<1>1. t <= Len(mbx) /\ t \in 1..MaxThreads BY <1>0 DEF MailOK, Threads
<1>2. Len(mbx) \in 1..Len(mbx) /\ Len(mbx) \in Nat /\ Len(mbx) \in 1..MaxThreads
      /\ Len(mbx) # 0
  BY <1>1, WindowAssumption DEF MailOK
<1>3. mbx[Len(mbx)] \in Seq(Anything) BY <1>2 DEF MailOK
<1>4. CASE mbx[Len(mbx)] # << >>
  <2>1. /\ hsm' = [hsm EXCEPT ![t] = [pc |-> "handle", event |-> Head(mbx[Len(mbx)])]]
        /\ mbx' = [mbx EXCEPT ![Len(mbx)] = Tail(@)]
    BY <1>4 DEF ReceiveMbx
  <2>2. Head(mbx[Len(mbx)]) \in Anything /\ Tail(mbx[Len(mbx)]) \in Seq(Anything)
    BY <1>3, <1>4
  <2>3. mbx' \in Seq(Seq(Anything)) /\ Len(mbx') = Len(mbx)
    BY <1>2, <2>1, <2>2, ExceptSeq DEF MailOK
  <2>4. hsm' \in [Threads -> HsmStates] BY <2>1, <2>2, HsmMakes DEF MailOK
  <2>5. hsm'[t].pc = "handle" /\ \A u \in Threads : u # t => hsm'[u] = hsm[u]
    BY <2>1 DEF MailOK
  <2>6. \A u \in Threads : hsm[u].pc = "wait" => hsm[u].event.n # Len(mbx)
    BY <1>4 DEF MailOK
  <2>7. ASSUME NEW u \in Threads
        PROVE  /\ u > Len(mbx) => hsm'[u].pc = "none"
               /\ hsm'[u].pc = "wait" => /\ hsm'[u].event.n <= Len(mbx)
                                         /\ hsm'[u].event.n # Len(mbx)
    <3>1. CASE u = t BY <1>1, <1>2, <2>5, <3>1 DEF Threads
    <3>2. CASE u # t
      <4>1. hsm'[u] = hsm[u] BY <2>5, <3>2
      <4> QED BY <2>6, <4>1 DEF MailOK
    <3> QED BY <3>1, <3>2
  <2>8. MailOK' BY <2>3, <2>4, <2>7 DEF MailOK
  <2> QED BY <1>2, <2>3, <2>8
<1>5. CASE mbx[Len(mbx)] = << >>
  <2>1. /\ hsm' = [hsm EXCEPT ![t] = [pc |-> "wait", event |-> Event("none", "", Len(mbx))]]
        /\ mbx' = mbx
    BY <1>5 DEF ReceiveMbx
  <2>2. hsm' \in [Threads -> HsmStates] BY <1>2, <2>1, HsmMakes DEF MailOK
  <2>3. hsm'[t].pc = "wait" /\ hsm'[t].event = Event("none", "", Len(mbx))
        /\ \A u \in Threads : u # t => hsm'[u] = hsm[u]
    BY <2>1 DEF MailOK
  <2>4. hsm'[t].event.n = Len(mbx)
    <3>1. Event("none", "", Len(mbx)).n = Len(mbx) BY DEF Event
    <3> QED BY <2>3, <3>1
  <2>5. ASSUME NEW u \in Threads
        PROVE  /\ u > Len(mbx) => hsm'[u].pc = "none"
               /\ hsm'[u].pc = "wait" => hsm'[u].event.n <= Len(mbx)
    <3>1. CASE u = t
      <4>1. hsm'[u].event.n = Len(mbx) BY <2>4, <3>1, Zenon
      <4>2. ~(u > Len(mbx)) BY <1>1, <1>2, <3>1
      <4>3. Len(mbx) <= Len(mbx) BY <1>2
      <4> QED BY <4>1, <4>2, <4>3, Zenon
    <3>2. CASE u # t
      <4>1. hsm'[u] = hsm[u] BY <2>3, <3>2
      <4> QED BY <4>1 DEF MailOK
    <3> QED BY <3>1, <3>2
  <2>6. MailOK' BY <1>5, <2>1, <2>2, <2>5 DEF MailOK
  <2> QED BY <1>2, <2>1, <2>6
<1> QED BY <1>4, <1>5

(* The message boxes and the threads stay as MailOK has them.              *)
LEMMA MailStep == WInv /\ [Next]_vars => MailOK'
<1> SUFFICES ASSUME WInv, [Next]_vars PROVE MailOK' OBVIOUS
<1> USE DEF WInv
<1>1. CASE UNCHANGED <<mbx, hsm>> BY <1>1 DEF MailOK
<1>2. CASE MainCalls
  BY <1>1, <1>2 DEF MainCalls, Activate, OnCurrentContainerSideChange,
     DisplayContainersAndElements, DisplayMessage, Call, GiveUpExclusiveAccess,
     ChangeSkin, Terminate, thread
<1>3. CASE Deactivate \/ WaitThreadEnd
  BY <1>1, <1>3 DEF Deactivate, WaitThreadEnd, thread
<1>4. CASE Dispatch
  <2>1. todo # << >> /\ SendMbx(Head(todo)) BY <1>4 DEF Dispatch
  <2>2. Head(todo) \in Anything BY <2>1 DEF CallerOK, Anything
  <2>3. Len(mbx) # 0 BY <1>4 DEF Dispatch, StageOK
  <2> QED BY <2>1, <2>2, <2>3, SendKeeps
<1>5. CASE Initialize
  <2>1. mbx' = Append(mbx, << >>) /\ hsm' = hsm /\ main = "initialize" BY <1>5 DEF Initialize
  <2>2. << >> \in Seq(Anything) BY EmptySeq
  <2>3. mbx' \in Seq(Seq(Anything)) /\ Len(mbx') = Len(mbx) + 1
    BY <2>1, <2>2, AppendProperties DEF MailOK
  <2>4. Len(mbx') <= MaxThreads /\ Len(mbx) \in Nat
    BY <2>1, <2>3, WindowAssumption DEF StageOK, MailOK
  <2>5. \A t \in Threads : hsm[t].pc = "wait" => hsm[t].event.n < Len(mbx')
    <3> SUFFICES ASSUME NEW t \in Threads, hsm[t].pc = "wait"
                 PROVE  hsm[t].event.n < Len(mbx')
      OBVIOUS
    <3>1. hsm[t] \in HsmStates BY DEF MailOK
    <3>2. hsm[t].event.n \in 1..MaxThreads BY <3>1, HsmForms
    <3>3. hsm[t].event.n <= Len(mbx) BY DEF MailOK
    <3> QED BY <2>3, <2>4, <3>2, <3>3, WindowAssumption
  <2>6. \A t \in Threads : hsm[t].pc = "wait" => hsm[t].event.n <= Len(mbx') /\ hsm[t].event.n # Len(mbx')
    <3> SUFFICES ASSUME NEW t \in Threads, hsm[t].pc = "wait"
                 PROVE  hsm[t].event.n <= Len(mbx') /\ hsm[t].event.n # Len(mbx')
      OBVIOUS
    <3>1. hsm[t] \in HsmStates BY DEF MailOK
    <3>2. hsm[t].event.n \in 1..MaxThreads BY <3>1, HsmForms
    <3> QED BY <2>3, <2>4, <2>5, <3>2, WindowAssumption
  <2>7. \A t \in Threads : t > Len(mbx') => hsm[t].pc = "none"
    BY <2>3, <2>4 DEF MailOK, Threads
  <2> QED BY <2>1, <2>3, <2>4, <2>6, <2>7 DEF MailOK
<1>6. CASE StartThread
  <2>1. hsm' = [hsm EXCEPT ![Newest] = [pc |-> "test", event |-> VBlank]] /\ mbx' = mbx
        /\ main = "start"
    BY <1>6 DEF StartThread
  <2>2. Newest \in Threads /\ Newest <= Len(mbx)
    BY <2>1, WindowAssumption DEF StageOK, MailOK, Newest, Threads
  <2> QED BY <2>1, <2>2, IdleKeeps DEF Idle
<1>7. CASE CancelReceive
  <2>1. mbx' = mbx /\ hsm' = [t \in Threads |-> IF t \in Woken THEN [Nowhere EXCEPT !.pc = "ended"]
                                 ELSE hsm[t]]
    BY <1>7 DEF CancelReceive
  <2>2. [Nowhere EXCEPT !.pc = "ended"] = [pc |-> "ended", event |-> VBlank]
    BY DEF Nowhere
  <2>3. [pc |-> "ended", event |-> VBlank] \in HsmStates BY HsmMakes DEF Idle
  <2>4. \A t \in Threads : hsm'[t] = hsm[t] \/ (hsm[t].pc = "wait"
                               /\ hsm'[t] = [pc |-> "ended", event |-> VBlank])
    <3>1. \A t \in Woken : t \in Threads /\ hsm[t].pc = "wait"
      BY WaitsForm DEF Woken, MailOK
    <3> QED BY <2>1, <2>2, <3>1
  <2>5. hsm' \in [Threads -> HsmStates] 
    <3>1. \A t \in Threads : hsm'[t] \in HsmStates BY <2>3, <2>4 DEF MailOK
    <3> QED BY <2>1, <3>1
  <2>6. \A t \in Threads : hsm'[t] = hsm[t] \/ (hsm[t].pc = "wait" /\ hsm'[t].pc = "ended")
    BY <2>4
  <2> QED BY <2>1, <2>5, <2>6 DEF MailOK
<1>8. CASE RenderStep
  <2>1. CASE RenderExits \/ RenderTests BY <1>1, <2>1 DEF RenderExits, RenderTests
  <2>2. CASE RenderSends
    <3>1. Len(mbx) # 0 /\ SendMbx(VBlank) BY <2>2 DEF RenderSends, RenderGo, StageOK
    <3> QED BY <3>1, SendKeeps, OtherEvents
  <2> QED BY <1>8, <2>1, <2>2 DEF RenderStep
<1>9. CASE \E t \in Threads : HsmStep(t)
  <2>1. PICK t \in Threads : HsmStep(t) BY <1>9
  <2>2. CASE TestActive(t) 
    <3>1. PICK p \in {"receive", "ended"} : HsmGo(t, "test", p) BY <2>2 DEF TestActive
    <3> QED BY <3>1, HsmGoKeeps DEF Idle
  <2>3. CASE Handle(t) \/ RenderNormal(t) \/ RenderNothing(t)
    BY <2>3, HsmGoKeeps DEF Idle, Handle, RenderNormal, RenderNothing
  <2>4. CASE ReceiveMbx(t) BY <2>4, ReceiveKeeps
  <2> QED BY <2>1, <2>2, <2>3, <2>4 DEF HsmStep
<1>10. CASE UNCHANGED vars BY <1>1, <1>10 DEF vars, thread
<1> QED BY <1>2, <1>3, <1>4, <1>5, <1>6, <1>7, <1>8, <1>9, <1>10 DEF Next, MainSteps

(* What the other threads do while the main thread is at a place.          *)
LEMMA StageKeeps ==
  ASSUME StageOK, MailOK, UNCHANGED <<main, m_HSMInitialized>>, Len(mbx') = Len(mbx),
         render' \in {"loop", "send", "ended"},
         render' = "send" => render = "send" \/ Len(mbx) # 0,
         Len(mbx) # 0 /\ hsm[Newest].pc \in {"none", "ended"} => hsm'[Newest] = hsm[Newest]
  PROVE  StageOK'
<1>1. Newest' = Newest BY DEF Newest
<1>2. main \in {"start", "gone"} => Len(mbx) # 0 BY DEF StageOK
<1>3. main = "start" => hsm'[Newest].pc = "none" BY <1>2 DEF StageOK
<1>4. main = "gone" => hsm'[Newest].pc = "ended" BY <1>2 DEF StageOK
<1> QED BY <1>1, <1>3, <1>4 DEF StageOK

(* There is a message box before anything is sent, and the newest thread   *)
(* is not yet started in StartThread and has ended when it was waited for. *)
LEMMA StageStep == WInv /\ [Next]_vars => StageOK'
<1> SUFFICES ASSUME WInv, [Next]_vars PROVE StageOK' OBVIOUS
<1> USE DEF WInv
<1>0. Len(mbx) \in Nat /\ Len(mbx) <= MaxThreads /\ (Len(mbx) # 0 => Newest \in Threads)
  BY WindowAssumption DEF MailOK, Newest, Threads
<1>1. CASE UNCHANGED <<main, render, mbx, hsm, m_HSMInitialized>>
  BY <1>1 DEF StageOK, Newest
<1>2. CASE Activate \/ OnCurrentContainerSideChange \/ DisplayContainersAndElements
             \/ (\E b \in Boxes : DisplayMessage(b)) \/ GiveUpExclusiveAccess
  BY <1>1, <1>2 DEF Activate, OnCurrentContainerSideChange,
     DisplayContainersAndElements, DisplayMessage, Call, GiveUpExclusiveAccess, thread
<1>3. CASE ChangeSkin \/ Terminate
  <2>1. main = "run" /\ main' \in {"initialize", "terminate"}
        /\ (main' = "initialize" => Len(mbx) < MaxThreads)
        /\ UNCHANGED <<render, mbx, hsm>>
    BY <1>3 DEF ChangeSkin, Terminate, thread, HSMMessagebox
  <2> QED BY <1>0, <2>1 DEF StageOK
<1>4. CASE Dispatch
  <2>1. todo # << >> /\ SendMbx(Head(todo)) /\ main = "run" BY <1>4 DEF Dispatch
  <2>2. Head(todo) \in Anything BY <2>1 DEF CallerOK, Anything
  <2>3. Len(mbx) # 0 BY <2>1 DEF StageOK
  <2>4. Len(mbx') = Len(mbx) BY <2>1, <2>2, <2>3, SendKeeps
  <2>5. UNCHANGED <<main, render, m_HSMInitialized>> BY <1>4 DEF Dispatch
  <2>6. main' \notin {"initialize", "start", "gone"} BY <2>1, <2>5
  <2> QED BY <2>3, <2>4, <2>5, <2>6 DEF StageOK
<1>5. CASE Initialize
  <2>1. /\ mbx' = Append(mbx, << >>) /\ hsm' = hsm /\ main = "initialize" /\ main' = "start"
        /\ UNCHANGED render
    BY <1>5 DEF Initialize
  <2>2. Len(mbx') = Len(mbx) + 1 /\ Len(mbx) < MaxThreads
    <3>1. << >> \in Seq(Anything) BY EmptySeq
    <3> QED BY <2>1, <3>1, AppendProperties DEF MailOK, StageOK
  <2>3. Newest' \in Threads /\ Newest' > Len(mbx)
    BY <1>0, <2>2, WindowAssumption DEF Newest, Threads
  <2>4. hsm'[Newest'].pc = "none" BY <2>1, <2>3 DEF MailOK
  <2> QED BY <1>0, <2>1, <2>2, <2>4 DEF StageOK
<1>6. CASE StartThread
  <2>1. mbx' = mbx /\ main = "start" /\ main' = "run" /\ UNCHANGED render
    BY <1>6 DEF StartThread
  <2> QED BY <2>1 DEF StageOK
<1>7. CASE Deactivate \/ CancelReceive
  <2>1. mbx' = mbx /\ main \in {"terminate", "cancel"} /\ main' \in {"cancel", "join"}
        /\ UNCHANGED render
    BY <1>7 DEF Deactivate, CancelReceive
  <2> QED BY <2>1 DEF StageOK
<1>8. CASE WaitThreadEnd
  <2>1. /\ mbx' = mbx /\ hsm' = hsm /\ main = "join" /\ main' = "gone" /\ UNCHANGED render
        /\ hsm[Newest].pc = "ended"
    BY <1>8 DEF WaitThreadEnd, thread, Joined
  <2> QED BY <2>1 DEF StageOK, Newest
<1>9. CASE RenderStep
  <2>1. CASE RenderExits
    <3>1. UNCHANGED <<main, mbx, hsm, m_HSMInitialized>> /\ render' = "ended"
      BY <2>1 DEF RenderExits, RenderGo, caller
    <3> QED BY <3>1 DEF StageOK, Newest
  <2>2. CASE RenderTests
    <3>1. UNCHANGED <<main, mbx, hsm, m_HSMInitialized>> /\ render' = "send" /\ m_HSMInitialized
      BY <2>2 DEF RenderTests, RenderGo, caller
    <3> QED BY <3>1 DEF StageOK, Newest
  <2>3. CASE RenderSends
    <3>1. /\ UNCHANGED <<main, m_HSMInitialized>> /\ render = "send" /\ render' = "loop"
          /\ SendMbx(VBlank)
      BY <2>3 DEF RenderSends, RenderGo, caller
    <3>2. Len(mbx) # 0 BY <3>1 DEF StageOK
    <3>3. Len(mbx') = Len(mbx)
          /\ \A t \in Threads : hsm'[t] = hsm[t] \/ (hsm[t].pc = "wait" /\ hsm[t].event.n = Newest)
      BY <3>1, <3>2, SendKeeps, OtherEvents
    <3>4. hsm[Newest].pc \in {"none", "ended"} => hsm'[Newest] = hsm[Newest]
      BY <1>0, <3>2, <3>3
    <3> QED BY <3>1, <3>3, <3>4, StageKeeps
  <2> QED BY <1>9, <2>1, <2>2, <2>3 DEF RenderStep
<1>10. CASE \E t \in Threads : HsmStep(t)
  <2>1. PICK t \in Threads : HsmStep(t) BY <1>10
  <2>2. /\ UNCHANGED <<main, render, m_HSMInitialized>> /\ hsm[t].pc \in {"test", "receive", "handle"}
        /\ \A u \in Threads : u # t => hsm'[u] = hsm[u]
    <3>1. UNCHANGED <<main, render, m_HSMInitialized>> /\ hsm[t].pc \in {"test", "receive", "handle"}
      BY <2>1 DEF HsmStep, TestActive, ReceiveMbx, Handle, RenderNormal, RenderNothing, HsmGo, caller
    <3>2. \E h : hsm' = [hsm EXCEPT ![t] = h]
      BY <2>1, Zenon DEF HsmStep, TestActive, ReceiveMbx, Handle, RenderNormal, RenderNothing, HsmGo
    <3> QED BY <3>1, <3>2 DEF MailOK
  <2>3. Len(mbx') = Len(mbx)
    <3>1. CASE ReceiveMbx(t) BY <3>1, ReceiveKeeps
    <3>2. CASE ~ReceiveMbx(t)
      BY <2>1, <3>2 DEF HsmStep, TestActive, Handle, RenderNormal, RenderNothing, HsmGo
    <3> QED BY <3>1, <3>2
  <2>4. Len(mbx) # 0 /\ hsm[Newest].pc \in {"none", "ended"} => hsm'[Newest] = hsm[Newest]
    BY <1>0, <2>2
  <2>5. render' \in {"loop", "send", "ended"} /\ (render' = "send" => render = "send")
    BY <2>2 DEF StageOK
  <2> QED BY <2>2, <2>3, <2>4, <2>5, StageKeeps
<1>11. CASE UNCHANGED vars BY <1>1, <1>11 DEF vars, thread, caller
<1> QED BY <1>2, <1>3, <1>4, <1>5, <1>6, <1>7, <1>8, <1>9, <1>10, <1>11
        DEF Next, MainCalls, MainSteps

LEMMA WindowInit == Init => WindowOK
<1> SUFFICES ASSUME Init PROVE WindowOK OBVIOUS
<1>1. m_State \in States BY DEF Init, States
<1>2. panels \in [Panels -> {"max", "right", "bottom"}] BY DEF Init, HiddenPanels
<1>3. texts \in [Panels -> Numbers] BY WindowAssumption DEF Init, NoText, Numbers
<1>4. [state |-> "HIDE", opacity |-> 0, time |-> 0, text |-> 0] \in BoxStates
  BY WindowAssumption DEF BoxStates
<1>5. box \in [Boxes -> BoxStates] BY <1>4 DEF Init
<1> QED BY <1>1, <1>2, <1>3, <1>5 DEF WindowOK

(* A transition leads to its target and keeps the panels' places.          *)
LEMMA TransTyped ==
  ASSUME WindowOK, NEW target \in States, Trans(target)
  PROVE  m_State' = target /\ panels' \in [Panels -> {"max", "right", "bottom"}]
<1>1. \A ps \in [Panels -> {"max", "right", "bottom"}] : \A a :
         /\ Enter(ps, a) \in [Panels -> {"max", "right", "bottom"}]
         /\ Exit(ps, a) \in [Panels -> {"max", "right", "bottom"}]
  BY DEF Enter, Exit
<1> QED BY <1>1 DEF Trans, WindowOK

(* What each event and each picture does to a box: its text changes with a *)
(* new one only, and it vanishes from HIDING to HIDE.                      *)
LEMMA BoxMoves ==
  ASSUME NEW x \in BoxStates
  PROVE  /\ Hide(x) \in BoxStates /\ Hide(x).text = x.text
         /\ Picture(x) \in BoxStates /\ Picture(x).text = x.text
         /\ \A n \in 0..MaxCalls : /\ [Show(x) EXCEPT !.text = n] \in BoxStates
                                   /\ [Show(x) EXCEPT !.text = n].text = n
         /\ Vanishes(x) => x.state = "HIDING" /\ Picture(x).state = "HIDE"
<1>1. Hide(x) \in BoxStates /\ Hide(x).text = x.text BY DEF BoxStates, Hide
<1>2. \A n \in 0..MaxCalls : /\ [Show(x) EXCEPT !.text = n] \in BoxStates
                             /\ [Show(x) EXCEPT !.text = n].text = n
  BY DEF BoxStates, Show
<1>3. x.opacity \in 0..Fade /\ x.time \in 0..Hold
      /\ x.state \in {"HIDE", "SHOWING", "SHOW", "HIDING"}
  BY DEF BoxStates
<1>4. Vanishes(x) => Picture(x) = [x EXCEPT !.state = "HIDE"] /\ x.state = "HIDING"
  BY <1>3 DEF Vanishes, Picture
<1>5. \/ Picture(x) = x
      \/ \E s \in {"HIDE", "SHOW", "HIDING"} : Picture(x) = [x EXCEPT !.state = s]
      \/ Picture(x) = [x EXCEPT !.state = "SHOW", !.time = 0]
      \/ x.opacity < Fade /\ Picture(x) = [x EXCEPT !.opacity = x.opacity + 1]
      \/ x.time < Hold /\ Picture(x) = [x EXCEPT !.time = x.time + 1]
      \/ x.opacity > 0 /\ Picture(x) = [x EXCEPT !.opacity = x.opacity - 1]
  <2>1. CASE x.state = "SHOWING" /\ x.opacity = Fade
    <3>1. Picture(x) = [x EXCEPT !.state = "SHOW", !.time = 0] 
      BY <2>1, WindowAssumption DEF Picture, Vanishes
    <3> QED BY <3>1
  <2>2. CASE x.state = "SHOWING" /\ x.opacity # Fade
    <3>1. x.opacity < Fade BY <1>3, <2>2, WindowAssumption
    <3>2. Picture(x) = [x EXCEPT !.opacity = x.opacity + 1]
      BY <2>2, <3>1 DEF Picture, Vanishes
    <3> QED BY <3>1, <3>2
  <2>3. CASE x.state = "SHOW" /\ x.time = Hold
    <3>1. Picture(x) = [x EXCEPT !.state = "HIDING"] 
      BY <2>3, WindowAssumption DEF Picture, Vanishes
    <3> QED BY <3>1
  <2>4. CASE x.state = "SHOW" /\ x.time # Hold
    <3>1. x.time < Hold BY <1>3, <2>4, WindowAssumption
    <3>2. Picture(x) = [x EXCEPT !.time = x.time + 1] BY <2>4, <3>1 DEF Picture, Vanishes
    <3> QED BY <3>1, <3>2
  <2>5. CASE x.state = "HIDING" /\ x.opacity = 0
    <3>1. Picture(x) = [x EXCEPT !.state = "HIDE"] BY <1>4, <2>5 DEF Vanishes
    <3> QED BY <3>1
  <2>6. CASE x.state = "HIDING" /\ x.opacity # 0
    <3>1. x.opacity > 0 BY <1>3, <2>6, WindowAssumption
    <3>2. Picture(x) = [x EXCEPT !.opacity = x.opacity - 1]
      BY <2>6, <3>1 DEF Picture, Vanishes
    <3> QED BY <3>1, <3>2
  <2>7. CASE x.state = "HIDE" BY <2>7 DEF Picture, Vanishes
  <2> QED BY <1>3, <2>1, <2>2, <2>3, <2>4, <2>5, <2>6, <2>7
<1>6. Picture(x) \in BoxStates /\ Picture(x).text = x.text
  <2> DEFINE y == Picture(x)
  <2> HIDE DEF y
  <2>1. CASE y = x BY <2>1 DEF y
  <2>2. CASE \E s \in {"HIDE", "SHOW", "HIDING"} : y = [x EXCEPT !.state = s]
    <3>1. \A s \in {"HIDE", "SHOWING", "SHOW", "HIDING"} :
             [x EXCEPT !.state = s] \in BoxStates /\ [x EXCEPT !.state = s].text = x.text
      BY DEF BoxStates
    <3> QED BY <2>2, <3>1 DEF y
  <2>3. CASE y = [x EXCEPT !.state = "SHOW", !.time = 0]
    <3>1. 0 \in 0..Hold BY WindowAssumption
    <3>2. y = [state |-> "SHOW", opacity |-> x.opacity, time |-> 0, text |-> x.text]
      BY <2>3 DEF BoxStates
    <3>3. y \in BoxStates /\ y.text = x.text BY <3>1, <3>2 DEF BoxStates
    <3> QED BY <3>3 DEF y
  <2>4. CASE x.opacity < Fade /\ y = [x EXCEPT !.opacity = x.opacity + 1]
    <3>1. x.opacity + 1 \in 0..Fade BY <1>3, <2>4, WindowAssumption
    <3>2. y \in BoxStates /\ y.text = x.text BY <2>4, <3>1 DEF BoxStates
    <3> QED BY <3>2 DEF y
  <2>5. CASE x.time < Hold /\ y = [x EXCEPT !.time = x.time + 1]
    <3>1. x.time + 1 \in 0..Hold BY <1>3, <2>5, WindowAssumption
    <3>2. y \in BoxStates /\ y.text = x.text BY <2>5, <3>1 DEF BoxStates
    <3> QED BY <3>2 DEF y
  <2>6. CASE x.opacity > 0 /\ y = [x EXCEPT !.opacity = x.opacity - 1]
    <3>1. x.opacity - 1 \in 0..Fade BY <1>3, <2>6, WindowAssumption
    <3>2. y \in BoxStates /\ y.text = x.text BY <2>6, <3>1 DEF BoxStates
    <3> QED BY <3>2 DEF y
  <2> QED BY <1>5, <2>1, <2>2, <2>3, <2>4, <2>5, <2>6 DEF y
<1>7. Vanishes(x) => Picture(x).state = "HIDE" BY <1>4 DEF BoxStates
<1> QED BY <1>1, <1>2, <1>4, <1>6, <1>7

(* The window's state: each handler leads to a state of the machine.       *)
LEMMA WindowStep == WInv /\ [Next]_vars => WindowOK'
<1> SUFFICES ASSUME WInv, [Next]_vars PROVE WindowOK' OBVIOUS
<1> USE DEF WInv
<1>1. CASE UNCHANGED <<m_State, panels, texts, box>> BY <1>1 DEF WindowOK
<1>2. CASE MainCalls
  BY <1>1, <1>2 DEF MainCalls, Activate, OnCurrentContainerSideChange,
     DisplayContainersAndElements, DisplayMessage, Call, GiveUpExclusiveAccess,
     ChangeSkin, Terminate, window
<1>3. CASE Dispatch \/ StartThread \/ Deactivate \/ CancelReceive \/ WaitThreadEnd
  BY <1>1, <1>3 DEF Dispatch, StartThread, Deactivate, CancelReceive, WaitThreadEnd, window
<1>4. CASE Initialize
  <2>1. panels' = HiddenPanels /\ UNCHANGED <<m_State, texts, box>> BY <1>4 DEF Initialize
  <2>2. HiddenPanels \in [Panels -> {"max", "right", "bottom"}] BY DEF HiddenPanels
  <2> QED BY <2>1, <2>2 DEF WindowOK
<1>5. CASE RenderStep
  BY <1>1, <1>5 DEF RenderStep, RenderExits, RenderTests, RenderSends, RenderGo, window
<1>6. CASE \E t \in Threads : TestActive(t) \/ ReceiveMbx(t) \/ RenderNothing(t)
  BY <1>1, <1>6 DEF TestActive, ReceiveMbx, RenderNothing, window
<1>7. CASE \E t \in Threads : RenderNormal(t)
  <2>1. /\ box' = [b \in Boxes |-> Picture(box[b])]
        /\ UNCHANGED <<m_State, panels, texts>>
    BY <1>7 DEF RenderNormal
  <2>2. \A b \in Boxes : Picture(box[b]) \in BoxStates BY BoxMoves DEF WindowOK
  <2> QED BY <2>1, <2>2 DEF WindowOK
<1>8. CASE \E t \in Threads : Handle(t)
  <2>1. PICK t \in Threads : Handle(t) BY <1>8
  <2> DEFINE e == hsm[t].event
  <2>2. e \in Events /\ HandleEvent(e)
    <3>1. hsm[t].pc = "handle" /\ e # VBlank /\ HandleEvent(e) BY <2>1 DEF Handle, HsmGo
    <3> QED BY <3>1, HsmForms DEF MailOK, Anything
  <2> HIDE DEF e
  <2>3. CASE e.id = "screen"
    <3>1. ToScreen(e.arg) BY <2>2, <2>3 DEF HandleEvent
    <3>2. <<e.arg>> \in States BY <2>2, <2>3, EventCases, Forms
    <3>3. m_State' \in States /\ panels' \in [Panels -> {"max", "right", "bottom"}]
      BY <3>1, <3>2, TransTyped DEF ToScreen
    <3>4. \A b \in Boxes : Hide(box[b]) \in BoxStates BY BoxMoves DEF WindowOK
    <3>5. box' \in [Boxes -> BoxStates] BY <3>1, <3>4 DEF ToScreen
    <3> QED BY <3>1, <3>3, <3>5 DEF ToScreen, WindowOK
  <2>4. CASE e.id = "side"
    <3>1. ToSide(e.arg) BY <2>2, <2>4 DEF HandleEvent
    <3>2. e.arg \in Sides BY <2>2, <2>4, EventCases
    <3>3. m_State' \in States /\ panels' \in [Panels -> {"max", "right", "bottom"}]
      <4>1. CASE m_State # << >> /\ m_State[1] \in ListScreens /\ m_State # <<m_State[1], e.arg>>
        <5>1. Trans(<<m_State[1], e.arg>>) BY <3>1, <4>1 DEF ToSide
        <5>2. <<m_State[1], e.arg>> \in States BY <3>2, <4>1, Forms
        <5> QED BY <5>1, <5>2, TransTyped
      <4>2. CASE ~(m_State # << >> /\ m_State[1] \in ListScreens /\ m_State # <<m_State[1], e.arg>>)
        BY <3>1, <4>2 DEF ToSide, WindowOK
      <4> QED BY <4>1, <4>2
    <3> QED BY <3>1, <3>3 DEF ToSide, WindowOK
  <2>5. CASE e.id = "text"
    <3>1. NewText(e.arg, e.n) BY <2>2, <2>5 DEF HandleEvent
    <3>2. e.n \in Numbers BY <2>2, <2>5, EventCases
    <3> QED BY <3>1, <3>2 DEF NewText, WindowOK
  <2>6. CASE e.id = "box"
    <3>1. ShowBox(e.arg) BY <2>2, <2>6 DEF HandleEvent
    <3>2. e.arg \in Boxes BY <2>2, <2>6, EventCases
    <3>3. [Show(box[e.arg]) EXCEPT !.text = buffer[e.arg]] \in BoxStates
      BY <3>2, BoxMoves DEF WindowOK, CallerOK
    <3> QED BY <3>1, <3>3 DEF ShowBox, WindowOK
  <2> QED BY <2>2, <2>3, <2>4, <2>5, <2>6, EventCases
<1>9. CASE UNCHANGED vars BY <1>1, <1>9 DEF vars, window
<1> QED BY <1>2, <1>3, <1>4, <1>5, <1>6, <1>7, <1>8, <1>9 DEF Next, MainSteps, HsmStep

(* WInv holds in every state, for any screens, times and numbers of calls: *)
(* it is what the theorems below rest on.                                  *)
THEOREM WindowInvariant == Spec => []WInv
<1>1. Init => WInv BY CallerInit, MailInit, WindowInit DEF WInv
<1>2. WInv /\ [Next]_vars => WInv' BY CallerStep, MailStep, StageStep, WindowStep DEF WInv
<1> QED BY <1>1, <1>2, PTL DEF Spec

(* The values of every variable of the interface, among them the paths of  *)
(* m_State, the opacity and time of a box, and the texts of the panels.    *)
THEOREM WindowTypeCorrect == Spec => []TypeOK
<1>1. WInv => TypeOK
  <2> SUFFICES ASSUME WInv PROVE TypeOK OBVIOUS
  <2> USE DEF WInv
  <2>1. \A t \in Threads : hsm[t].pc \in {"none", "test", "receive", "wait", "handle", "ended"}
    <3>1. \A t \in Threads : hsm[t] \in HsmStates BY DEF MailOK
    <3> QED BY <3>1, HsmForms DEF Idle
  <2>2. asked.state \in States \ {<< >>} BY DEF CallerOK, Views
  <2>3. \A b \in Boxes :
           /\ box[b].state \in {"HIDE", "SHOWING", "SHOW", "HIDING"}
           /\ box[b].opacity \in 0..Fade /\ box[b].time \in 0..Hold
           /\ box[b].text \in 0..MaxCalls
    BY DEF WindowOK, BoxStates
  <2> QED BY <2>1, <2>2, <2>3 DEF TypeOK, CallerOK, MailOK, StageOK, WindowOK, Numbers
<1> QED BY <1>1, WindowInvariant, PTL

(* The other threads have not been started, or wait at an older box.       *)
OnlyNewest ==
    \A t \in Threads : t # Newest =>
        \/ hsm[t].pc = "none"
        \/ hsm[t].pc = "wait" /\ hsm[t].event.n < Newest

(* Who is waiting at the newest box then is the newest thread.             *)
LEMMA NewestWaits ==
  ASSUME WInv, OnlyNewest, NEW t \in Threads
  PROVE  /\ WaitsAt(t, Newest) => t = Newest
         /\ hsm[t].pc \notin {"none", "wait"} => t = Newest
<1>1. hsm[t] \in HsmStates BY DEF WInv, MailOK
<1>2. hsm[t].pc = "wait" => hsm[t].event.n \in 1..MaxThreads BY <1>1, HsmForms
<1>3. Newest \in Nat BY DEF WInv, MailOK, Newest
<1>4. WaitsAt(t, Newest) <=> hsm[t].pc = "wait" /\ hsm[t].event.n = Newest
  BY WaitsForm DEF WInv, MailOK
<1> QED BY <1>2, <1>3, <1>4, WindowAssumption DEF OnlyNewest

(* A message goes to the newest thread or to none.                         *)
LEMMA OnlyNewestSends ==
  ASSUME WInv, OnlyNewest, Len(mbx) # 0, NEW e \in Anything, SendMbx(e)
  PROVE  OnlyNewest' /\ \A t \in Threads : t # Newest => hsm'[t] = hsm[t]
<1>1. Len(mbx') = Len(mbx) BY SendKeeps DEF WInv
<1>2. \A t \in Threads : t # Newest => hsm'[t] = hsm[t]
  <2>1. CASE \E t \in Threads : WaitsAt(t, HSMMessagebox)
    <3>1. PICK t \in Threads : WaitsAt(t, HSMMessagebox)
                               /\ hsm' = [hsm EXCEPT ![t] = [pc |-> "handle", event |-> e]]
      BY <2>1 DEF SendMbx
    <3>2. t = Newest BY <3>1, NewestWaits DEF Newest, HSMMessagebox
    <3> QED BY <3>1, <3>2 DEF WInv, MailOK
  <2>2. CASE ~ \E t \in Threads : WaitsAt(t, HSMMessagebox)
    BY <2>2 DEF SendMbx
  <2> QED BY <2>1, <2>2
<1> QED BY <1>1, <1>2 DEF OnlyNewest, Newest

(* The history variable remembers.                                         *)
LEMMA OverlapStays == [Next]_vars /\ overlap => overlap'
<1> SUFFICES ASSUME [Next]_vars, overlap PROVE overlap' OBVIOUS
<1>1. CASE Initialize BY <1>1 DEF Initialize
<1>2. CASE UNCHANGED overlap BY <1>2
<1>3. CASE MainCalls
  BY <1>2, <1>3 DEF MainCalls, Activate, OnCurrentContainerSideChange,
     DisplayContainersAndElements, DisplayMessage, Call, GiveUpExclusiveAccess,
     ChangeSkin, Terminate, thread
<1>4. CASE Dispatch \/ StartThread \/ Deactivate \/ CancelReceive \/ WaitThreadEnd
  BY <1>2, <1>4 DEF Dispatch, StartThread, Deactivate, CancelReceive, WaitThreadEnd, thread
<1>5. CASE RenderStep
  BY <1>2, <1>5 DEF RenderStep, RenderExits, RenderTests, RenderSends, RenderGo
<1>6. CASE \E t \in Threads : HsmStep(t)
  BY <1>2, <1>6 DEF HsmStep, TestActive, ReceiveMbx, Handle, RenderNormal, RenderNothing, HsmGo
<1>7. CASE UNCHANGED vars BY <1>2, <1>7 DEF vars, thread
<1> QED BY <1>1, <1>3, <1>4, <1>5, <1>6, <1>7 DEF Next, MainSteps

(* Unless a thread was at work when the machine was initialised again.     *)
LEMMA OnlyNewestStep == WInv /\ (overlap \/ OnlyNewest) /\ [Next]_vars => (overlap \/ OnlyNewest)'
<1> SUFFICES ASSUME WInv, overlap \/ OnlyNewest, [Next]_vars, ~overlap'
             PROVE  OnlyNewest'
  OBVIOUS
<1>0. ~overlap /\ OnlyNewest BY OverlapStays
<1>1. CASE UNCHANGED <<mbx, hsm>> BY <1>0, <1>1 DEF OnlyNewest, Newest
<1>2. CASE MainCalls
  BY <1>1, <1>2 DEF MainCalls, Activate, OnCurrentContainerSideChange,
     DisplayContainersAndElements, DisplayMessage, Call, GiveUpExclusiveAccess,
     ChangeSkin, Terminate, thread
<1>3. CASE Deactivate \/ WaitThreadEnd
  BY <1>1, <1>3 DEF Deactivate, WaitThreadEnd, thread
<1>4. CASE Dispatch
  <2>1. todo # << >> /\ SendMbx(Head(todo)) BY <1>4 DEF Dispatch
  <2>2. Head(todo) \in Anything BY <2>1 DEF WInv, CallerOK, Anything
  <2>3. Len(mbx) # 0 BY <1>4 DEF Dispatch, WInv, StageOK
  <2> QED BY <1>0, <2>1, <2>2, <2>3, OnlyNewestSends
<1>5. CASE Initialize
  <2>1. \A t \in Threads : hsm[t].pc \in {"none", "wait"}
    BY <1>5 DEF Initialize
  <2>2. hsm' = hsm /\ mbx' = Append(mbx, << >>) BY <1>5 DEF Initialize
  <2>3. Len(mbx') = Len(mbx) + 1
    <3>1. << >> \in Seq(Anything) BY EmptySeq
    <3> QED BY <2>2, <3>1, AppendProperties DEF WInv, MailOK
  <2>4. ASSUME NEW t \in Threads, hsm[t].pc = "wait"
        PROVE  hsm[t].event.n < Len(mbx')
    <3>1. hsm[t] \in HsmStates BY DEF WInv, MailOK
    <3>2. hsm[t].event.n \in 1..MaxThreads BY <2>4, <3>1, HsmForms
    <3>3. hsm[t].event.n <= Len(mbx) /\ Len(mbx) \in Nat BY <2>4 DEF WInv, MailOK
    <3> QED BY <2>3, <3>2, <3>3, WindowAssumption
  <2> QED BY <2>1, <2>2, <2>4 DEF OnlyNewest, Newest
<1>6. CASE StartThread
  <2>1. hsm' = [hsm EXCEPT ![Newest] = [pc |-> "test", event |-> VBlank]] /\ mbx' = mbx
    BY <1>6 DEF StartThread
  <2>2. \A t \in Threads : t # Newest => hsm'[t] = hsm[t] BY <2>1 DEF WInv, MailOK
  <2> QED BY <1>0, <2>1, <2>2 DEF OnlyNewest, Newest
<1>7. CASE CancelReceive
  <2>1. mbx' = mbx BY <1>7 DEF CancelReceive
  <2>2. \A t \in Threads : t # Newest => hsm'[t] = hsm[t]
    BY <1>0, <1>7, NewestWaits DEF CancelReceive, Woken, Newest, HSMMessagebox
  <2> QED BY <1>0, <2>1, <2>2 DEF OnlyNewest, Newest
<1>8. CASE RenderStep
  <2>1. CASE RenderExits \/ RenderTests BY <1>1, <2>1 DEF RenderExits, RenderTests
  <2>2. CASE RenderSends
    <3>1. Len(mbx) # 0 /\ SendMbx(VBlank) BY <2>2 DEF RenderSends, RenderGo, WInv, StageOK
    <3> QED BY <1>0, <3>1, OnlyNewestSends, OtherEvents
  <2> QED BY <1>8, <2>1, <2>2 DEF RenderStep
<1>9. CASE \E t \in Threads : HsmStep(t)
  <2>1. PICK t \in Threads : HsmStep(t) BY <1>9
  <2>2. hsm[t].pc \in {"test", "receive", "handle"}
    BY <2>1 DEF HsmStep, TestActive, ReceiveMbx, Handle, RenderNormal, RenderNothing, HsmGo
  <2>3. t = Newest BY <1>0, <2>2, NewestWaits
  <2>4. \E h : hsm' = [hsm EXCEPT ![t] = h]
    BY <2>1, Zenon DEF HsmStep, TestActive, ReceiveMbx, Handle, RenderNormal, RenderNothing, HsmGo
  <2>5. \A u \in Threads : u # Newest => hsm'[u] = hsm[u] BY <2>3, <2>4 DEF WInv, MailOK
  <2>6. Len(mbx') = Len(mbx)
    <3>1. CASE ReceiveMbx(t) BY <3>1, ReceiveKeeps DEF WInv
    <3>2. CASE ~ReceiveMbx(t)
      BY <2>1, <3>2 DEF HsmStep, TestActive, Handle, RenderNormal, RenderNothing, HsmGo
    <3> QED BY <3>1, <3>2
  <2> QED BY <1>0, <2>5, <2>6 DEF OnlyNewest, Newest
<1>10. CASE UNCHANGED vars BY <1>1, <1>10 DEF vars, thread
<1> QED BY <1>2, <1>3, <1>4, <1>5, <1>6, <1>7, <1>8, <1>9, <1>10 DEF Next, MainSteps

LEMMA OnlyNewestAlways == Spec => [](overlap \/ OnlyNewest)
<1>1. Init => overlap \/ OnlyNewest
  <2> SUFFICES ASSUME Init PROVE OnlyNewest OBVIOUS
  <2>1. \A t \in Threads : hsm[t].pc = "none" BY DEF Init, Nowhere
  <2> QED BY <2>1 DEF OnlyNewest
<1>2. WInv /\ (overlap \/ OnlyNewest) /\ [Next]_vars => (overlap \/ OnlyNewest)'
  BY OnlyNewestStep
<1> QED BY <1>1, <1>2, WindowInvariant, PTL DEF Spec

(* One thread at a time is at work in the state machine, which has no      *)
(* lock, and none when CTextUI3D deletes it; unless Initialize was called  *)
(* while a thread was at work, and then its message box was replaced.      *)
THEOREM OneThreadAtWork == Spec => []OneAtWork
<1>1. WInv /\ (overlap \/ OnlyNewest) => OneAtWork
  <2> SUFFICES ASSUME WInv, OnlyNewest PROVE Cardinality(AtWork) <= 1 /\ (main = "gone" => AtWork = {})
    BY DEF OneAtWork
  <2>1. AtWork \subseteq {Newest} BY DEF AtWork, OnlyNewest
  <2>2. Cardinality(AtWork) <= 1
    <3>1. IsFiniteSet({Newest}) /\ Cardinality({Newest}) = 1 BY FS_Singleton
    <3> QED BY <2>1, <3>1, FS_Subset
  <2>3. main = "gone" => AtWork = {}
    <3>1. main = "gone" => hsm[Newest].pc = "ended" BY DEF WInv, StageOK
    <3> QED BY <2>1, <3>1 DEF AtWork
  <2> QED BY <2>2, <2>3
<1> QED BY <1>1, WindowInvariant, OnlyNewestAlways, PTL

(* What the newest thread has, and what waits for it.                      *)
Hand == IF Newest = 0 THEN VBlank ELSE hsm[Newest].event
Queue == IF Newest = 0 THEN << >> ELSE mbx[Newest]

Silent(e) == e.id \notin {"screen", "side", "text", "box"}

(* The screen is yet to be shown, by a call that has not begun.            *)
Fresh == main \in {"initialize", "start"} \/ (todo # << >> /\ todo[1].id = "screen")

BoxEvent(b) == Event("box", b, 0)
BoxToDo(b) == \E i \in DOMAIN todo : todo[i] = BoxEvent(b)

SameWindow ==
    UNCHANGED <<m_State, panels, texts>> /\ \A b \in Boxes : box'[b].text = box[b].text

(* The four ways in which a step moves the mail, but for Initialize.       *)
Stays ==
    /\ Queue' = Queue /\ (Hand' = Hand \/ (Silent(Hand) /\ Silent(Hand)'))
    /\ SameWindow
    /\ asked' = asked /\ (Fresh => Fresh')
    /\ todo = << >> \/ todo' = todo
    /\ \A b \in Boxes : buffer'[b] = buffer[b] \/ BoxToDo(b)'

Posted(e) ==
    /\ \/ Queue' = Append(Queue, e) /\ Hand' = Hand
       \/ Queue = << >> /\ Queue' = << >> /\ Silent(Hand) /\ Hand' = e
    /\ SameWindow /\ UNCHANGED buffer

Received ==
    /\ Queue # << >> /\ Silent(Hand)
    /\ Hand' = Head(Queue) /\ Queue' = Tail(Queue)
    /\ SameWindow /\ UNCHANGED caller

Handled ==
    /\ Hand \in Events /\ Hand' = VBlank /\ Queue' = Queue
    /\ HandleEvent(Hand) /\ UNCHANGED caller

(* VBLANK and a wait ask for nothing of the window.                        *)
LEMMA QuietOnes ==
  /\ Silent(VBlank) /\ \A n : Silent(Event("none", "", n))
  /\ \A e \in Events : ~Silent(e)
<1>1. Silent(VBlank) /\ \A n : Silent(Event("none", "", n)) BY DEF VBlank, Event, Silent
<1>2. \A e \in Events : ~Silent(e) BY EventCases DEF Silent
<1> QED BY <1>1, <1>2

(* What is in hand and in the queue.                                       *)
LEMMA HandTyped ==
  ASSUME WInv
  PROVE  /\ Queue \in Seq(Anything)
         /\ Hand \in Events \/ Silent(Hand)
         /\ Newest # 0 => Newest \in Threads
         /\ Newest # 0 /\ hsm[Newest].pc # "handle" => Silent(Hand)
         /\ Newest # 0 => Hand = hsm[Newest].event /\ Queue = mbx[Newest]
<1>1. Newest # 0 => Newest \in Threads /\ mbx[Newest] \in Seq(Anything)
  BY WindowAssumption DEF WInv, MailOK, Newest, Threads
<1>2. CASE Newest = 0
  BY <1>2, EmptySeq, QuietOnes DEF Hand, Queue
<1>3. CASE Newest # 0
  <2>1. hsm[Newest] \in HsmStates BY <1>1, <1>3 DEF WInv, MailOK
  <2>2. hsm[Newest].pc = "handle" => Hand \in Anything BY <1>3, <2>1, HsmForms DEF Hand
  <2>3. hsm[Newest].pc # "handle" => Silent(Hand)
    BY <1>3, <2>1, HsmForms, QuietOnes DEF Hand
  <2> QED BY <1>1, <1>3, <2>2, <2>3, QuietOnes DEF Hand, Queue, Anything
<1> QED BY <1>2, <1>3

(* A message that is sent goes to the end of the queue, or to the hand if  *)
(* both were empty.                                                        *)
LEMMA MailMoved ==
  ASSUME WInv, OnlyNewest, Len(mbx) # 0, NEW e \in Anything, SendMbx(e)
  PROVE  \/ Queue' = Append(Queue, e) /\ Hand' = Hand
         \/ Queue = << >> /\ Queue' = << >> /\ Silent(Hand) /\ Hand' = e
<1>1. Len(mbx') = Len(mbx) BY SendKeeps DEF WInv
<1>2. Newest # 0 /\ Newest' = Newest /\ Newest \in Threads /\ Newest \in 1..Len(mbx)
  BY <1>1, HandTyped DEF Newest, WInv, MailOK
<1>3. Hand = hsm[Newest].event /\ Queue = mbx[Newest]
      /\ Hand' = hsm'[Newest].event /\ Queue' = mbx'[Newest]
  BY <1>2 DEF Hand, Queue
<1>4. CASE \E t \in Threads : WaitsAt(t, HSMMessagebox)
  <2>1. PICK t \in Threads : WaitsAt(t, HSMMessagebox)
                             /\ hsm' = [hsm EXCEPT ![t] = [pc |-> "handle", event |-> e]]
    BY <1>4 DEF SendMbx
  <2>2. t = Newest BY <2>1, NewestWaits DEF Newest, HSMMessagebox
  <2>3. mbx' = mbx BY <1>4 DEF SendMbx
  <2>4. hsm'[Newest].event = e BY <1>2, <2>1, <2>2 DEF WInv, MailOK
  <2>5. hsm[Newest].pc = "wait" /\ hsm[Newest].event.n = Newest
    BY <2>1, <2>2, WaitsForm DEF WInv, MailOK, Newest, HSMMessagebox
  <2>6. mbx[Newest] = << >> BY <1>2, <2>5 DEF WInv, MailOK, Newest
  <2>7. Silent(Hand) BY <1>2, <2>5, HandTyped
  <2> QED BY <1>3, <2>3, <2>4, <2>6, <2>7
<1>5. CASE ~ \E t \in Threads : WaitsAt(t, HSMMessagebox)
  <2>1. hsm' = hsm /\ mbx' = [mbx EXCEPT ![Newest] = Append(@, e)]
    BY <1>5 DEF SendMbx, Newest, HSMMessagebox
  <2>2. mbx'[Newest] = Append(mbx[Newest], e) BY <1>2, <2>1 DEF WInv, MailOK
  <2> QED BY <1>3, <2>1, <2>2
<1> QED BY <1>4, <1>5

(* Neither moves while boxes and threads stay.                             *)
LEMMA UnmovedMail ==
  ASSUME UNCHANGED <<mbx, hsm>>
  PROVE  Queue' = Queue /\ Hand' = Hand /\ Newest' = Newest
BY DEF Queue, Hand, Newest

(* Every step of the program moves the mail in one of these ways.          *)
LEMMA Moves ==
  ASSUME WInv, OnlyNewest, [Next]_vars
  PROVE  \/ Initialize
         \/ Stays
         \/ Posted(VBlank) /\ UNCHANGED caller
         \/ Dispatch /\ Posted(todo[1]) /\ Len(mbx) # 0
         \/ Received
         \/ Handled
<1> USE DEF WInv
<1>0. UNCHANGED <<m_State, panels, texts, box>> => SameWindow BY DEF SameWindow
<1>1. CASE UNCHANGED <<mbx, hsm, caller, window>>
  BY <1>0, <1>1, UnmovedMail DEF caller, window, Stays, Fresh
<1>2. CASE \/ Activate \/ OnCurrentContainerSideChange \/ DisplayContainersAndElements
           \/ (\E b \in Boxes : DisplayMessage(b)) \/ GiveUpExclusiveAccess
  <2>1. UNCHANGED <<mbx, hsm, window, asked, main>> /\ main = "run" /\ todo = << >>
    BY <1>2 DEF Activate, OnCurrentContainerSideChange,
       DisplayContainersAndElements, DisplayMessage, Call, GiveUpExclusiveAccess, thread
  <2>2. ~Fresh BY <2>1 DEF Fresh
  <2>3. \A b \in Boxes : buffer'[b] = buffer[b] \/ BoxToDo(b)'
    <3>1. CASE \E b \in Boxes : DisplayMessage(b)
      <4>1. PICK b \in Boxes : DisplayMessage(b) BY <3>1
      <4>2. todo' = <<BoxEvent(b)>> /\ buffer' = [buffer EXCEPT ![b] = calls + 1]
        BY <4>1 DEF DisplayMessage, Call, BoxEvent
      <4>3. 1 \in DOMAIN todo' /\ todo'[1] = BoxEvent(b) BY <4>2
      <4>4. BoxToDo(b)' BY <4>3 DEF BoxToDo, BoxEvent, Event
      <4>5. \A c \in Boxes : c # b => buffer'[c] = buffer[c] BY <4>2 DEF CallerOK
      <4> QED BY <4>4, <4>5
    <3>2. CASE UNCHANGED buffer BY <3>2
    <3> QED BY <1>2, <3>1, <3>2 DEF Activate, OnCurrentContainerSideChange,
       DisplayContainersAndElements, GiveUpExclusiveAccess
  <2> QED BY <1>0, <2>1, <2>2, <2>3, UnmovedMail DEF Stays, window
<1>3. CASE ChangeSkin \/ Terminate \/ Deactivate \/ WaitThreadEnd
  <2>1. /\ UNCHANGED <<mbx, hsm, window, asked, buffer, todo>>
        /\ main \in {"run", "terminate", "cancel", "join"}
        /\ main = "run" => todo = << >>
    BY <1>3 DEF ChangeSkin, Terminate, Deactivate, WaitThreadEnd, thread
  <2>2. ~Fresh
    <3>1. todo # << >> => main = "run" BY DEF CallerOK
    <3> QED BY <2>1, <3>1 DEF Fresh
  <2> QED BY <1>0, <2>1, <2>2, UnmovedMail DEF Stays, window
<1>4. CASE CancelReceive
  <2>1. /\ UNCHANGED <<mbx, window, asked, buffer, todo>> /\ main = "cancel"
        /\ \A t \in Threads : hsm'[t] = hsm[t] \/ (hsm[t].pc = "wait" /\ hsm'[t].event = VBlank)
    <3>1. UNCHANGED <<mbx, window, asked, buffer, todo>> /\ main = "cancel"
      BY <1>4 DEF CancelReceive
    <3>2. \A t \in Woken : t \in Threads /\ hsm[t].pc = "wait"
      BY WaitsForm DEF Woken, MailOK
    <3>3. [Nowhere EXCEPT !.pc = "ended"].event = VBlank BY DEF Nowhere
    <3> QED BY <1>4, <3>1, <3>2, <3>3 DEF CancelReceive
  <2>2. ~Fresh
    <3>1. todo # << >> => main = "run" BY DEF CallerOK
    <3> QED BY <2>1, <3>1 DEF Fresh
  <2>3. Newest # 0 /\ Newest' = Newest BY <2>1 DEF StageOK, Newest
  <2>4. Newest \in Threads BY <2>3, HandTyped
  <2>5. Queue' = Queue /\ Hand' = hsm'[Newest].event /\ Hand = hsm[Newest].event
    BY <2>1, <2>3 DEF Queue, Hand
  <2>6. Hand' = Hand \/ (Silent(Hand) /\ Silent(Hand)')
    <3>1. CASE hsm'[Newest] = hsm[Newest] BY <2>5, <3>1
    <3>2. CASE hsm[Newest].pc = "wait" /\ hsm'[Newest].event = VBlank
      <4>1. Silent(Hand) BY <2>3, <3>2, HandTyped
      <4>2. Hand' = VBlank /\ Silent(VBlank) BY <2>5, <3>2, QuietOnes
      <4>3. Silent(Hand)' BY <4>2 DEF Silent, VBlank, Event
      <4> QED BY <4>1, <4>3
    <3> QED BY <2>1, <2>4, <3>1, <3>2
  <2> QED BY <1>0, <2>1, <2>2, <2>5, <2>6 DEF Stays, window
<1>5. CASE StartThread
  <2>1. /\ UNCHANGED <<mbx, window, asked, buffer>> /\ main = "start"
        /\ hsm' = [hsm EXCEPT ![Newest] = [pc |-> "test", event |-> VBlank]]
        /\ \E s \in Screens : todo' \in Activation(s, "list", MaxCalls + Newest)
    BY <1>5 DEF StartThread, Screens
  <2>2. Newest # 0 /\ Newest' = Newest BY <2>1 DEF StageOK, Newest
  <2>3. Newest \in Threads BY <2>2, HandTyped
  <2>4. Queue' = Queue /\ Hand' = hsm'[Newest].event /\ Hand = hsm[Newest].event
    BY <2>1, <2>2 DEF Queue, Hand
  <2>5. hsm[Newest].pc = "none" BY <2>1 DEF StageOK
  <2>6. Hand' = VBlank BY <2>1, <2>3, <2>4 DEF MailOK
  <2>7. Hand = VBlank
    <3>1. hsm[Newest] \in HsmStates BY <2>3 DEF MailOK
    <3> QED BY <2>4, <2>5, <3>1, HsmForms DEF Idle
  <2>8. todo = << >> BY <2>1 DEF CallerOK
  <2>9. Fresh'
    <3>1. PICK s \in Screens : todo' \in Activation(s, "list", MaxCalls + Newest) BY <2>1
    <3>2. MaxCalls + Newest \in Numbers BY <2>3, WindowAssumption DEF Numbers, Threads
    <3>3. todo' # << >> /\ todo'[1] = Event("screen", s, 0)
      BY <3>1, <3>2, ActivationForm DEF Sides
    <3>4. todo'[1].id = "screen" BY <3>3 DEF Event
    <3> QED BY <3>3, <3>4 DEF Fresh
  <2> QED BY <1>0, <2>1, <2>4, <2>6, <2>7, <2>8, <2>9 DEF Stays, window
<1>6. CASE Dispatch
  <2>1. main = "run" /\ todo # << >> /\ SendMbx(Head(todo)) /\ UNCHANGED <<buffer, window>>
    BY <1>6 DEF Dispatch
  <2>2. Head(todo) \in Anything /\ Head(todo) = todo[1] BY <2>1 DEF CallerOK, Anything
  <2>3. Len(mbx) # 0 BY <2>1 DEF StageOK
  <2>4. \/ Queue' = Append(Queue, todo[1]) /\ Hand' = Hand
        \/ Queue = << >> /\ Queue' = << >> /\ Silent(Hand) /\ Hand' = todo[1]
    BY <2>1, <2>2, <2>3, MailMoved
  <2> QED BY <1>0, <1>6, <2>1, <2>3, <2>4 DEF Posted, window
<1>7. CASE RenderStep
  <2>1. CASE RenderExits \/ RenderTests
    BY <1>1, <2>1 DEF RenderExits, RenderTests, RenderGo
  <2>2. CASE RenderSends
    <3>1. Len(mbx) # 0 /\ SendMbx(VBlank) /\ UNCHANGED <<caller, window>>
      BY <2>2 DEF RenderSends, RenderGo, StageOK
    <3>2. \/ Queue' = Append(Queue, VBlank) /\ Hand' = Hand
          \/ Queue = << >> /\ Queue' = << >> /\ Silent(Hand) /\ Hand' = VBlank
      BY <3>1, MailMoved, OtherEvents
    <3> QED BY <1>0, <3>1, <3>2 DEF Posted, window, caller
  <2> QED BY <1>7, <2>1, <2>2 DEF RenderStep
<1>8. CASE \E t \in Threads : HsmStep(t)
  <2>1. PICK t \in Threads : HsmStep(t) BY <1>8
  <2>2. hsm[t].pc \in {"test", "receive", "handle"} /\ UNCHANGED caller
    BY <2>1 DEF HsmStep, TestActive, ReceiveMbx, Handle, RenderNormal, RenderNothing, HsmGo
  <2>3. t = Newest /\ t <= Len(mbx) BY <2>2, NewestWaits DEF MailOK, Threads
  <2>4. Newest # 0 /\ Newest \in Threads BY <2>3 DEF Threads
  <2>5. hsm[t] \in HsmStates BY DEF MailOK
  <2>6. Hand = hsm[Newest].event /\ Queue = mbx[Newest] BY <2>4, HandTyped
  <2>7. Fresh => Fresh' BY <2>2 DEF Fresh, caller
  <2>8. CASE TestActive(t) \/ RenderNormal(t) \/ RenderNothing(t)
    <3>1. /\ mbx' = mbx /\ hsm'[Newest].event = VBlank /\ hsm[Newest].event = VBlank
      <4>1. mbx' = mbx /\ hsm'[t].event = VBlank 
        <5>1. mbx' = mbx /\ \E p : hsm' = [hsm EXCEPT ![t] = [pc |-> p, event |-> VBlank]]
          BY <2>8, Zenon DEF TestActive, RenderNormal, RenderNothing, HsmGo
        <5> QED BY <5>1 DEF MailOK
      <4>2. hsm[t].event = VBlank
        <5>1. CASE TestActive(t) 
          <6>1. hsm[t].pc = "test" BY <5>1 DEF TestActive, HsmGo
          <6> QED BY <2>5, <6>1, HsmForms DEF Idle
        <5>2. CASE RenderNormal(t) \/ RenderNothing(t)
          BY <5>2 DEF RenderNormal, RenderNothing
        <5> QED BY <2>8, <5>1, <5>2
      <4> QED BY <2>3, <4>1, <4>2
    <3>2. Newest' = Newest BY <3>1 DEF Newest
    <3>3. Queue' = Queue /\ Hand' = Hand BY <2>4, <3>1, <3>2 DEF Queue, Hand
    <3>4. SameWindow
      <4>1. CASE TestActive(t) \/ RenderNothing(t)
        BY <1>0, <4>1 DEF TestActive, RenderNothing, window
      <4>2. CASE RenderNormal(t)
        <5>1. /\ box' = [b \in Boxes |-> Picture(box[b])]
              /\ UNCHANGED <<m_State, panels, texts>>
          BY <4>2 DEF RenderNormal
        <5>2. \A b \in Boxes : Picture(box[b]).text = box[b].text BY BoxMoves DEF WindowOK
        <5> QED BY <5>1, <5>2 DEF SameWindow
      <4> QED BY <2>8, <4>1, <4>2
    <3> QED BY <2>2, <2>7, <3>3, <3>4 DEF Stays, caller
  <2>9. CASE Handle(t)
    <3>1. /\ mbx' = mbx /\ hsm' = [hsm EXCEPT ![t] = [pc |-> "test", event |-> VBlank]]
          /\ hsm[t].pc = "handle" /\ hsm[t].event # VBlank /\ HandleEvent(hsm[t].event)
      BY <2>9 DEF Handle, HsmGo
    <3>2. hsm'[t].event = VBlank BY <3>1 DEF MailOK
    <3>3. Newest' = Newest BY <3>1 DEF Newest
    <3>4. Queue' = Queue /\ Hand' = VBlank BY <2>3, <2>4, <3>1, <3>2, <3>3 DEF Queue, Hand
    <3>5. Hand \in Events BY <2>3, <2>5, <2>6, <3>1, HsmForms DEF Anything
    <3>6. HandleEvent(Hand) BY <2>3, <2>6, <3>1
    <3> QED BY <2>2, <3>4, <3>5, <3>6 DEF Handled
  <2>10. CASE ReceiveMbx(t)
    <3>1. Len(mbx') = Len(mbx) /\ hsm[t].pc = "receive" /\ UNCHANGED window
      BY <2>10, ReceiveKeeps DEF ReceiveMbx
    <3>2. Newest' = Newest /\ Newest \in 1..Len(mbx) BY <2>3, <3>1 DEF Newest, Threads, MailOK
    <3>3. Hand' = hsm'[Newest].event /\ Queue' = mbx'[Newest] BY <2>4, <3>2 DEF Hand, Queue
    <3>4. Silent(Hand) BY <2>3, <2>4, <3>1, HandTyped
    <3>5. CASE mbx[Newest] # << >>
      <4>1. /\ hsm' = [hsm EXCEPT ![t] = [pc |-> "handle", event |-> Head(mbx[Newest])]]
            /\ mbx' = [mbx EXCEPT ![Newest] = Tail(@)]
        BY <2>10, <3>5 DEF ReceiveMbx, Newest, HSMMessagebox
      <4>2. hsm'[Newest].event = Head(mbx[Newest]) BY <2>3, <4>1 DEF MailOK
      <4>3. mbx'[Newest] = Tail(mbx[Newest]) BY <3>2, <4>1 DEF MailOK
      <4> QED BY <1>0, <2>2, <2>6, <3>1, <3>3, <3>4, <3>5, <4>2, <4>3 DEF Received, window
    <3>6. CASE mbx[Newest] = << >>
      <4>1. /\ hsm' = [hsm EXCEPT ![t] = [pc |-> "wait", event |-> Event("none", "", Newest)]]
            /\ mbx' = mbx
        BY <2>10, <3>6 DEF ReceiveMbx, Newest, HSMMessagebox
      <4>2. Hand' = Event("none", "", Newest) BY <2>3, <3>3, <4>1 DEF MailOK
      <4>3. Silent(Hand)' BY <4>2 DEF Silent, Event
      <4> QED BY <1>0, <2>2, <2>6, <2>7, <3>1, <3>3, <3>4, <4>1, <4>3 DEF Stays, window, caller
    <3> QED BY <3>5, <3>6
  <2> QED BY <2>1, <2>8, <2>9, <2>10 DEF HsmStep
<1>9. CASE UNCHANGED vars BY <1>1, <1>9 DEF vars, thread
<1> QED BY <1>2, <1>3, <1>4, <1>5, <1>6, <1>7, <1>8, <1>9
        DEF Next, MainCalls, MainSteps

Awaited(e) == Hand = e \/ \E i \in DOMAIN Queue : Queue[i] = e

ScreenAwaited == \E s \in Screens : Awaited(Event("screen", s, 0))

PanelsShow ==
    /\ \A p \in Panels : panels[p] = "max" => p = m_State
    /\ Fresh \/ ScreenAwaited \/ \A p \in Panels : p = m_State => panels[p] = "max"

BoxesShow ==
    Len(mbx) <= 1 =>
        \A b \in Boxes : box[b].text = buffer[b] \/ Awaited(BoxEvent(b)) \/ BoxToDo(b)

-----------------------------------------------------------------------------
(* What is awaited stays so until it is handled.                           *)
LEMMA AwaitedStays ==
  ASSUME WInv, Stays, NEW e \in Events, Awaited(e)
  PROVE  Awaited(e)'
BY QuietOnes DEF Awaited, Stays

(* What is sent is awaited, and so is what was.                            *)
LEMMA AwaitedPosted ==
  ASSUME WInv, NEW e \in Anything, Posted(e)
  PROVE  /\ Awaited(e)'
         /\ \A f \in Events : Awaited(f) => Awaited(f)'
<1>1. CASE Queue' = Append(Queue, e) /\ Hand' = Hand
  <2>1. Queue \in Seq(Anything) BY HandTyped
  <2>2. /\ DOMAIN Queue' = 1..(Len(Queue) + 1) /\ Len(Queue) \in Nat
        /\ Queue'[Len(Queue) + 1] = e
        /\ \A i \in 1..Len(Queue) : Queue'[i] = Queue[i]
    BY <1>1, <2>1, AppendProperties
  <2>3. DOMAIN Queue = 1..Len(Queue) BY <2>1
  <2>4. Len(Queue) + 1 \in DOMAIN Queue' /\ DOMAIN Queue \subseteq DOMAIN Queue'
    BY <2>2, <2>3
  <2> QED BY <1>1, <2>2, <2>3, <2>4 DEF Awaited
<1>2. CASE Queue = << >> /\ Queue' = << >> /\ Silent(Hand) /\ Hand' = e
  BY <1>2, QuietOnes DEF Awaited
<1> QED BY <1>1, <1>2 DEF Posted

(* What is received is in hand, the rest in the queue.                     *)
LEMMA AwaitedReceived ==
  ASSUME WInv, Received, NEW e \in Events, Awaited(e)
  PROVE  Awaited(e)'
<1>1. Queue \in Seq(Anything) /\ Queue # << >> /\ Hand' = Head(Queue) /\ Queue' = Tail(Queue)
  BY HandTyped DEF Received
<1>2. Hand # e BY QuietOnes DEF Received
<1>3. PICK i \in DOMAIN Queue : Queue[i] = e BY <1>2 DEF Awaited
<1>4. /\ Queue' \in Seq(Anything) /\ Len(Queue') = Len(Queue) - 1 /\ Len(Queue) \in Nat
      /\ \A j \in 1..Len(Queue') : Queue'[j] = Queue[j + 1]
      /\ Head(Queue) = Queue[1]
  BY <1>1, HeadTailProperties
<1>5. CASE i = 1 BY <1>1, <1>3, <1>4, <1>5 DEF Awaited
<1>6. CASE i # 1
  <2>1. i \in 1..Len(Queue) BY <1>1, <1>3
  <2>2. i - 1 \in 1..Len(Queue') /\ (i - 1) + 1 = i BY <1>4, <1>6, <2>1
  <2>3. Queue'[i - 1] = e BY <1>3, <1>4, <2>2
  <2>4. i - 1 \in DOMAIN Queue' BY <1>4, <2>2
  <2> QED BY <2>3, <2>4 DEF Awaited
<1> QED BY <1>5, <1>6

(* What is handled is no longer in hand.                                   *)
LEMMA AwaitedHandled ==
  ASSUME Handled, NEW e \in Events, Awaited(e), Hand # e
  PROVE  Awaited(e)'
BY DEF Awaited, Handled

-----------------------------------------------------------------------------
(* A transition takes the panel of the old state away and shows that of    *)
(* the new one: the exits reach every panel that can be shown.             *)
LEMMA TransShows ==
  ASSUME WInv, \A p \in Panels : panels[p] = "max" => p = m_State,
         NEW target,
         \/ \E s \in Screens : target = <<s>>
         \/ \E x \in Sides : m_State # << >> /\ m_State[1] \in ListScreens /\ target = <<m_State[1], x>>,
         Trans(target)
  PROVE  \A p \in Panels : panels'[p] = "max" <=> p = target
<1>0. panels \in [Panels -> {"max", "right", "bottom"}] /\ m_State \in States
  BY DEF WInv, WindowOK
<1>1. target \in States /\ Len(target) \in {1, 2}
  BY Forms
<1> DEFINE before == IF Exits(target) THEN Exit(panels, Left(target)) ELSE panels
<1>2. before \in [Panels -> {"max", "right", "bottom"}] BY <1>0 DEF Exit
<1>3. \A p \in Panels : before[p] # "max"
  <2>1. CASE Exits(target)
    <3>1. Left(target) = m_State \/ Inside(m_State, Left(target))
      <4>1. CASE m_State = << >> BY <1>1, <2>1, <4>1 DEF Exits
      <4>2. CASE \E a \in Screens : m_State = <<a>>
        <5>1. PICK a \in Screens : m_State = <<a>> BY <4>2
        <5>2. Len(target) = 1 BY <1>1, <2>1, <5>1 DEF Exits
        <5> QED BY <5>1, <5>2, PathPrefix DEF Left
      <4>3. CASE \E a \in ListScreens, y \in Sides : m_State = <<a, y>>
        <5>1. PICK a \in ListScreens, y \in Sides : m_State = <<a, y>> BY <4>3
        <5>2. CASE Len(target) = 2 BY <5>1, <5>2, PathPrefix DEF Left
        <5>3. CASE Len(target) = 1
          <6>1. Left(target) = <<a>> BY <5>1, <5>3, PathPrefix DEF Left
          <6>2. Inside(<<a, y>>, <<a>>) BY DEF Inside
          <6> QED BY <5>1, <6>1, <6>2
        <5> QED BY <1>1, <5>2, <5>3
      <4> QED BY <1>0, <4>1, <4>2, <4>3, StateForms
    <3>2. before = Exit(panels, Left(target)) BY <2>1
    <3> SUFFICES ASSUME NEW p \in Panels PROVE before[p] # "max" OBVIOUS
    <3>3. CASE p = Left(target)
      <4>1. before[p] = IF p = <<"options">> THEN "bottom" ELSE "right"
        BY <3>2, <3>3 DEF Exit, Inside
      <4> QED BY <4>1
    <3>4. CASE Inside(p, Left(target))
      <4>1. before[p] = "bottom" BY <3>2, <3>4 DEF Exit, Inside
      <4> QED BY <4>1
    <3>5. CASE p # Left(target) /\ ~Inside(p, Left(target))
      <4>1. before[p] = panels[p] BY <3>2, <3>5 DEF Exit
      <4> QED BY <3>1, <3>5, <4>1
    <3> QED BY <3>3, <3>4, <3>5
  <2>2. CASE ~Exits(target)
    <3>1. m_State \notin Panels
      <4>1. CASE \E s \in Screens : target = <<s>>
        <5>1. Len(target) = 1 BY <4>1
        <5>2. \A a \in Screens : Len(<<a>>) = 1 OBVIOUS
        <5>3. \A a, b : Len(<<a, b>>) = 2 OBVIOUS
        <5>4. m_State = << >> BY <1>0, <2>2, <5>1, <5>2, <5>3, StateForms DEF Exits
        <5> QED BY <5>4, Forms
      <4>2. CASE \E x \in Sides : m_State # << >> /\ m_State[1] \in ListScreens
                                  /\ target = <<m_State[1], x>>
        <5>1. Len(target) = 2 BY <4>2
        <5>2. \A a, b : Len(<<a, b>>) = 2 OBVIOUS
        <5>3. PICK a \in Screens : m_State = <<a>>
          BY <1>0, <2>2, <4>2, <5>1, <5>2, StateForms DEF Exits
        <5>4. a \in ListScreens BY <4>2, <5>3
        <5> QED BY <5>3, <5>4, Forms, WindowAssumption
      <4> QED BY <4>1, <4>2
    <3>2. before = panels BY <2>2
    <3> QED BY <3>1, <3>2
  <2> QED BY <2>1, <2>2
<1>4. panels' = Enter(before, target) BY DEF Trans
<1> HIDE DEF before
<1> SUFFICES ASSUME NEW p \in Panels PROVE panels'[p] = "max" <=> p = target OBVIOUS
<1>5. CASE p = target
  <2>1. panels'[p] = "max" BY <1>4, <1>5 DEF Enter, Inside
  <2> QED BY <1>5, <2>1
<1>6. CASE Inside(p, target)
  <2>1. panels'[p] = "right" /\ p # target BY <1>4, <1>6 DEF Enter, Inside
  <2> QED BY <2>1
<1>7. CASE p # target /\ ~Inside(p, target)
  <2>1. panels'[p] = before[p] BY <1>4, <1>7 DEF Enter
  <2> QED BY <1>3, <1>7, <2>1
<1> QED BY <1>5, <1>6, <1>7

(* Each event when it is handled.                                          *)
LEMMA HandledForms ==
  ASSUME NEW e \in Events, HandleEvent(e)
  PROVE  \/ e.id = "screen" /\ e.arg \in Screens /\ e = Event("screen", e.arg, 0) /\ ToScreen(e.arg)
         \/ e.id = "side" /\ e.arg \in Sides /\ ToSide(e.arg)
         \/ e.id = "text" /\ e.arg \in Sides \cup {"options"} /\ NewText(e.arg, e.n)
         \/ e.id = "box" /\ e.arg \in Boxes /\ e = BoxEvent(e.arg) /\ ShowBox(e.arg)
<1>1. e.id = "screen" => e = Event("screen", e.arg, 0)
  <2>0. \A id, arg, n : Event(id, arg, n).id = id /\ Event(id, arg, n).arg = arg BY DEF Event
  <2> QED BY <2>0 DEF Events
<1>2. e.id = "box" => e = BoxEvent(e.arg)
  <2>0. \A id, arg, n : Event(id, arg, n).id = id /\ Event(id, arg, n).arg = arg BY DEF Event
  <2> QED BY <2>0 DEF Events, BoxEvent
<1>3. CASE e.id = "screen" BY <1>1, <1>3, EventCases DEF HandleEvent
<1>4. CASE e.id = "side" BY <1>4, EventCases DEF HandleEvent
<1>5. CASE e.id = "text" BY <1>5, EventCases DEF HandleEvent
<1>6. CASE e.id = "box" BY <1>2, <1>6, EventCases DEF HandleEvent
<1> QED BY <1>3, <1>4, <1>5, <1>6, EventCases

(* The panel shown is that of m_State, step by step.                       *)
LEMMA PanelsStep ==
  ASSUME WInv, OnlyNewest, [Next]_vars, PanelsShow
  PROVE  PanelsShow'
<1>0. \A s \in Screens : Event("screen", s, 0) \in Events BY EventForms
<1>1. CASE Initialize
  <2>1. panels' = HiddenPanels /\ main' = "start" BY <1>1 DEF Initialize
  <2>2. \A p \in Panels : panels'[p] # "max" BY <2>1 DEF HiddenPanels
  <2> QED BY <2>1, <2>2 DEF PanelsShow, Fresh
<1>2. CASE Stays
  <2>1. ScreenAwaited => ScreenAwaited' BY <1>0, <1>2, AwaitedStays DEF ScreenAwaited
  <2>2. UNCHANGED <<panels, m_State>> /\ (Fresh => Fresh') BY <1>2 DEF Stays, SameWindow
  <2> QED BY <2>1, <2>2 DEF PanelsShow
<1>3. CASE Posted(VBlank) /\ UNCHANGED caller
  <2>1. ScreenAwaited => ScreenAwaited' 
    BY <1>0, <1>3, AwaitedPosted, OtherEvents DEF ScreenAwaited
  <2>2. UNCHANGED <<panels, m_State>> /\ (Fresh => Fresh')
    BY <1>3 DEF Posted, SameWindow, caller, Fresh
  <2> QED BY <2>1, <2>2 DEF PanelsShow
<1>4. CASE Dispatch /\ Posted(todo[1])
  <2>1. UNCHANGED <<panels, m_State>> /\ main = "run" /\ todo # << >>
    BY <1>4 DEF Posted, SameWindow, Dispatch
  <2>2. todo[1] \in Events BY <2>1 DEF WInv, CallerOK
  <2>3. ScreenAwaited => ScreenAwaited'
    BY <1>0, <1>4, <2>2, AwaitedPosted DEF ScreenAwaited, Anything
  <2>4. Fresh => ScreenAwaited'
    <3>1. Fresh => todo[1].id = "screen" BY <2>1 DEF Fresh
    <3>2. todo[1].id = "screen" => \E s \in Screens : todo[1] = Event("screen", s, 0)
      <4>0. \A id, arg, n : Event(id, arg, n).id = id BY DEF Event
      <4> QED BY <2>2, <4>0 DEF Events
    <3>3. Fresh => \E s \in Screens : todo[1] = Event("screen", s, 0) BY <3>1, <3>2
    <3> SUFFICES ASSUME Fresh PROVE ScreenAwaited' OBVIOUS
    <3>4. PICK s \in Screens : todo[1] = Event("screen", s, 0) BY <3>3
    <3>5. Posted(Event("screen", s, 0)) /\ Event("screen", s, 0) \in Anything
      BY <1>4, <2>2, <3>4 DEF Anything
    <3>6. Awaited(Event("screen", s, 0))' BY <3>5, AwaitedPosted
    <3> QED BY <3>6 DEF ScreenAwaited
  <2> QED BY <2>1, <2>3, <2>4 DEF PanelsShow
<1>5. CASE Received
  <2>1. ScreenAwaited => ScreenAwaited' BY <1>0, <1>5, AwaitedReceived DEF ScreenAwaited
  <2>2. UNCHANGED <<panels, m_State>> /\ (Fresh => Fresh')
    BY <1>5 DEF Received, SameWindow, caller, Fresh
  <2> QED BY <2>1, <2>2 DEF PanelsShow
<1>6. CASE Handled
  <2>0. HandleEvent(Hand) /\ Hand \in Events /\ (Fresh => Fresh')
    BY <1>6 DEF Handled, Fresh, caller
  <2>1. \A p \in Panels : panels[p] = "max" => p = m_State BY DEF PanelsShow
  <2>2. CASE Hand.id = "screen" /\ Hand.arg \in Screens /\ ToScreen(Hand.arg)
    <3>1. Trans(<<Hand.arg>>) BY <2>2 DEF ToScreen
    <3>2. m_State' = <<Hand.arg>> BY <3>1 DEF Trans
    <3>3. \A p \in Panels : panels'[p] = "max" <=> p = <<Hand.arg>>
      BY <2>1, <2>2, <3>1, TransShows
    <3> QED BY <3>2, <3>3 DEF PanelsShow
  <2>3. CASE Hand.id = "side" /\ Hand.arg \in Sides /\ ToSide(Hand.arg)
    <3>1. CASE m_State # << >> /\ m_State[1] \in ListScreens /\ m_State # <<m_State[1], Hand.arg>>
      <4>1. Trans(<<m_State[1], Hand.arg>>) BY <2>3, <3>1 DEF ToSide
      <4>2. m_State' = <<m_State[1], Hand.arg>> BY <4>1 DEF Trans
      <4>3. \A p \in Panels : panels'[p] = "max" <=> p = <<m_State[1], Hand.arg>>
        BY <2>1, <2>3, <3>1, <4>1, TransShows
      <4> QED BY <4>2, <4>3 DEF PanelsShow
    <3>2. CASE ~(m_State # << >> /\ m_State[1] \in ListScreens /\ m_State # <<m_State[1], Hand.arg>>)
      <4>1. UNCHANGED <<m_State, panels>> BY <2>3, <3>2 DEF ToSide
      <4>2. ScreenAwaited => ScreenAwaited'
        <5>1. \A s \in Screens : Hand # Event("screen", s, 0) BY <2>3 DEF Event
        <5> QED BY <1>0, <1>6, <5>1, AwaitedHandled DEF ScreenAwaited
      <4> QED BY <2>0, <4>1, <4>2 DEF PanelsShow
    <3> QED BY <3>1, <3>2
  <2>4. CASE \/ Hand.id = "text" /\ NewText(Hand.arg, Hand.n)
             \/ Hand.id = "box" /\ ShowBox(Hand.arg)
    <3>1. UNCHANGED <<m_State, panels>> BY <2>4 DEF NewText, ShowBox
    <3>2. ScreenAwaited => ScreenAwaited'
      <4>1. \A s \in Screens : Hand # Event("screen", s, 0) BY <2>4 DEF Event
      <4> QED BY <1>0, <1>6, <4>1, AwaitedHandled DEF ScreenAwaited
    <3> QED BY <2>0, <3>1, <3>2 DEF PanelsShow
  <2> QED BY <2>0, <2>2, <2>3, <2>4, HandledForms
<1> QED BY <1>1, <1>2, <1>3, <1>4, <1>5, <1>6, Moves

(* A box has the text of its buffer, step by step, until the message box   *)
(* is replaced.                                                            *)
LEMMA BoxesStep ==
  ASSUME WInv, OnlyNewest, [Next]_vars, BoxesShow
  PROVE  BoxesShow'
<1> SUFFICES ASSUME Len(mbx') <= 1, NEW b \in Boxes
             PROVE  box'[b].text = buffer'[b] \/ Awaited(BoxEvent(b))' \/ BoxToDo(b)'
  BY DEF BoxesShow
<1>0. BoxEvent(b) \in Events /\ BoxEvent(b)' = BoxEvent(b) BY EventForms DEF BoxEvent, Event
<1>1. CASE Initialize
  <2>1. mbx' = Append(mbx, << >>) /\ UNCHANGED <<box, buffer, todo>> BY <1>1 DEF Initialize
  <2>2. Len(mbx') = Len(mbx) + 1 /\ Len(mbx) \in Nat
    <3>1. << >> \in Seq(Anything) BY EmptySeq
    <3> QED BY <2>1, <3>1, AppendProperties DEF WInv, MailOK
  <2>3. Len(mbx) = 0 BY <2>2
  <2>4. Hand = VBlank /\ Queue = << >> BY <2>3 DEF Hand, Queue, Newest
  <2>5. ~Awaited(BoxEvent(b))
    <3>1. Hand # BoxEvent(b) BY <1>0, <2>4, QuietOnes
    <3>2. ~ \E i \in DOMAIN Queue : Queue[i] = BoxEvent(b) BY <2>4
    <3> QED BY <3>1, <3>2 DEF Awaited
  <2>6. BoxToDo(b) => BoxToDo(b)' BY <2>1 DEF BoxToDo, BoxEvent
  <2> QED BY <2>1, <2>3, <2>5, <2>6 DEF BoxesShow
<1>2. CASE ~Initialize
  <2>1. Len(mbx') = Len(mbx)
    <3>1. WInv' BY CallerStep, MailStep, StageStep, WindowStep DEF WInv
    <3>2. CASE UNCHANGED mbx BY <3>2
    <3>3. CASE MainCalls
      BY <3>2, <3>3 DEF MainCalls, Activate, OnCurrentContainerSideChange,
         DisplayContainersAndElements, DisplayMessage, Call, GiveUpExclusiveAccess,
         ChangeSkin, Terminate
    <3>4. CASE StartThread \/ Deactivate \/ CancelReceive \/ WaitThreadEnd
      BY <3>2, <3>4 DEF StartThread, Deactivate, CancelReceive, WaitThreadEnd
    <3>5. CASE Dispatch
      <4>1. todo # << >> /\ SendMbx(Head(todo)) /\ Len(mbx) # 0
        BY <3>5 DEF Dispatch, WInv, StageOK
      <4>2. Head(todo) \in Anything BY <4>1 DEF WInv, CallerOK, Anything
      <4> QED BY <4>1, <4>2, SendKeeps DEF WInv
    <3>6. CASE RenderStep
      <4>1. CASE RenderExits \/ RenderTests BY <3>2, <4>1 DEF RenderExits, RenderTests
      <4>2. CASE RenderSends
        <5>1. SendMbx(VBlank) /\ Len(mbx) # 0
          BY <4>2 DEF RenderSends, RenderGo, WInv, StageOK
        <5> QED BY <5>1, SendKeeps, OtherEvents DEF WInv
      <4> QED BY <3>6, <4>1, <4>2 DEF RenderStep
    <3>7. CASE \E t \in Threads : HsmStep(t)
      <4>1. CASE \E t \in Threads : ReceiveMbx(t) BY <4>1, ReceiveKeeps DEF WInv
      <4>2. CASE ~ \E t \in Threads : ReceiveMbx(t)
        BY <3>7, <4>2 DEF HsmStep, TestActive, Handle, RenderNormal, RenderNothing, HsmGo
      <4> QED BY <4>1, <4>2
    <3>8. CASE UNCHANGED vars BY <3>2, <3>8 DEF vars
    <3> QED BY <1>2, <3>3, <3>4, <3>5, <3>6, <3>7, <3>8 DEF Next, MainSteps
  <2>2. box[b].text = buffer[b] \/ Awaited(BoxEvent(b)) \/ BoxToDo(b) BY <2>1 DEF BoxesShow
  <2>3. CASE Stays
    <3>1. box'[b].text = box[b].text /\ (buffer'[b] = buffer[b] \/ BoxToDo(b)')
      BY <2>3 DEF Stays, SameWindow
    <3>2. Awaited(BoxEvent(b)) => Awaited(BoxEvent(b))' BY <1>0, <2>3, AwaitedStays
    <3>3. BoxToDo(b) => BoxToDo(b)'
      <4>1. BoxToDo(b) => todo # << >> BY DEF BoxToDo
      <4>2. BoxToDo(b) => todo' = todo BY <2>3, <4>1 DEF Stays
      <4> QED BY <1>0, <4>2 DEF BoxToDo
    <3> QED BY <2>2, <3>1, <3>2, <3>3
  <2>4. CASE Posted(VBlank) /\ UNCHANGED caller
    <3>1. box'[b].text = box[b].text /\ buffer' = buffer /\ todo' = todo
      BY <2>4 DEF Posted, SameWindow, caller
    <3>2. Awaited(BoxEvent(b)) => Awaited(BoxEvent(b))'
      BY <1>0, <2>4, AwaitedPosted, OtherEvents
    <3>3. BoxToDo(b) => BoxToDo(b)' BY <1>0, <3>1 DEF BoxToDo
    <3> QED BY <2>2, <3>1, <3>2, <3>3
  <2>5. CASE Dispatch /\ Posted(todo[1])
    <3>1. box'[b].text = box[b].text /\ buffer' = buffer /\ todo' = Tail(todo)
          /\ todo # << >> /\ todo \in Seq(Events)
      BY <2>5 DEF Posted, SameWindow, Dispatch, WInv, CallerOK
    <3>2. todo[1] \in Anything BY <3>1 DEF Anything
    <3>3. Awaited(BoxEvent(b)) => Awaited(BoxEvent(b))'
      BY <1>0, <2>5, <3>2, AwaitedPosted
    <3>5. BoxToDo(b) => Awaited(BoxEvent(b))' \/ BoxToDo(b)'
      <4> SUFFICES ASSUME BoxToDo(b) PROVE Awaited(BoxEvent(b))' \/ BoxToDo(b)' OBVIOUS
      <4>1. PICK i \in DOMAIN todo : todo[i] = BoxEvent(b) BY DEF BoxToDo
      <4>2. i \in 1..Len(todo) /\ Len(todo) \in Nat BY <3>1, <4>1
      <4>3. CASE i = 1
        <5>1. Posted(BoxEvent(b)) /\ BoxEvent(b) \in Anything BY <2>5, <3>2, <4>1, <4>3
        <5> QED BY <5>1, <1>0, AwaitedPosted
      <4>4. CASE i # 1
        <5>1. /\ todo' \in Seq(Events) /\ Len(todo') = Len(todo) - 1
              /\ \A j \in 1..Len(todo') : todo'[j] = todo[j + 1]
          BY <3>1, HeadTailProperties
        <5>2. i - 1 \in 1..Len(todo') /\ (i - 1) + 1 = i BY <4>2, <4>4, <5>1
        <5>3. i - 1 \in DOMAIN todo' /\ todo'[i - 1] = BoxEvent(b) BY <4>1, <5>1, <5>2
        <5> QED BY <1>0, <5>3 DEF BoxToDo
      <4> QED BY <4>3, <4>4
    <3> QED BY <2>2, <3>1, <3>3, <3>5
  <2>6. CASE Received
    <3>1. box'[b].text = box[b].text /\ buffer' = buffer /\ todo' = todo
      BY <2>6 DEF Received, SameWindow, caller
    <3>2. Awaited(BoxEvent(b)) => Awaited(BoxEvent(b))' BY <1>0, <2>6, AwaitedReceived
    <3>3. BoxToDo(b) => BoxToDo(b)' BY <1>0, <3>1 DEF BoxToDo
    <3> QED BY <2>2, <3>1, <3>2, <3>3
  <2>7. CASE Handled
    <3>1. buffer' = buffer /\ todo' = todo /\ Hand \in Events /\ HandleEvent(Hand)
      BY <2>7 DEF Handled, caller
    <3>2. BoxToDo(b) => BoxToDo(b)' BY <1>0, <3>1 DEF BoxToDo
    <3>3. CASE Hand = BoxEvent(b)
      <4>1. Hand.id = "box" /\ Hand.arg = b BY <3>3 DEF BoxEvent, Event
      <4>2. ShowBox(b) BY <3>1, <4>1, HandledForms
      <4>3. box'[b] = [Show(box[b]) EXCEPT !.text = buffer[b]]
        BY <4>2 DEF ShowBox, WInv, WindowOK
      <4>4. box'[b].text = buffer[b]
        BY <4>3, BoxMoves DEF WInv, WindowOK, CallerOK
      <4> QED BY <3>1, <4>4
    <3>4. CASE Hand # BoxEvent(b)
      <4>1. Awaited(BoxEvent(b)) => Awaited(BoxEvent(b))' BY <1>0, <2>7, <3>4, AwaitedHandled
      <4>2. box'[b].text = box[b].text
        <5>1. CASE ToScreen(Hand.arg)
          BY <5>1, BoxMoves DEF ToScreen, WInv, WindowOK
        <5>2. CASE ToSide(Hand.arg) \/ NewText(Hand.arg, Hand.n)
          BY <5>2 DEF ToSide, NewText
        <5>3. CASE Hand.arg \in Boxes /\ Hand = BoxEvent(Hand.arg) /\ ShowBox(Hand.arg)
          <6>1. Hand.arg # b BY <3>4, <5>3
          <6> QED BY <5>3, <6>1 DEF ShowBox, WInv, WindowOK
        <5> QED BY <3>1, <5>1, <5>2, <5>3, HandledForms
      <4> QED BY <2>2, <3>1, <3>2, <4>1, <4>2
    <3> QED BY <3>3, <3>4
  <2> QED BY <1>2, <2>3, <2>4, <2>5, <2>6, <2>7, Moves
<1> QED BY <1>1, <1>2

Fits(a, e) == Silent(e) \/ e.id = "screen" \/ (a.state # << >> /\ Suits(a.state[1], e))

(* What the window shows of a view: its texts, but for those not sent.     *)
Shown(v) == v.state = m_State /\ \A p \in Panels : v.texts[p] # 0 => texts[p] = v.texts[p]

(* The views that the window comes to, event by event.                     *)
Leads(v, S) ==
    /\ Fits(v, Hand) /\ S[0] = Asked(v, Hand)
    /\ \A i \in 1..Len(Queue) : Fits(S[i - 1], Queue[i]) /\ S[i] = Asked(S[i - 1], Queue[i])

Chain ==
    \E v \in Views, S \in [0..Len(Queue) -> Views] :
        Shown(v) /\ Leads(v, S) /\ (Fresh \/ S[Len(Queue)] = asked)

-----------------------------------------------------------------------------
(* An event that fits leads from a view to a view.                         *)
LEMMA FitsTyped ==
  ASSUME NEW v \in Views, NEW e, e \in Events \/ Silent(e), Fits(v, e)
  PROVE  Asked(v, e) \in Views
<1>1. CASE Silent(e)
  <2>1. Asked(v, e) = v BY <1>1, AskedOfOthers DEF Silent
  <2> QED BY <2>1
<1>2. CASE e \in Events /\ ~Silent(e)
  <2>1. e.id = "screen" \/ (v.state # << >> /\ Suits(v.state[1], e)) BY <1>2 DEF Fits
  <2> QED BY <1>2, <2>1, AskedTyped
<1> QED BY <1>1, <1>2

(* A quiet event leaves the view.                                          *)
LEMMA AskedQuiet ==
  ASSUME NEW v, NEW e, Silent(e)
  PROVE  Asked(v, e) = v
BY AskedOfOthers DEF Silent

(* A view that is shown leads to one that is shown when the event is       *)
(* handled.                                                                *)
LEMMA HandlingShows ==
  ASSUME WInv, NEW v \in Views, Shown(v), NEW e \in Events, Fits(v, e), HandleEvent(e)
  PROVE  Shown(Asked(v, e))'
<1>0. v.state = m_State /\ v.texts \in [Panels -> Numbers] /\ v.state \in States
      /\ v = [state |-> v.state, texts |-> v.texts]
      /\ \A p \in Panels : v.texts[p] # 0 => texts[p] = v.texts[p]
  BY DEF Shown, Views
<1> DEFINE w == Asked(v, e)
<1> SUFFICES w.state = m_State' /\ \A p \in Panels : w.texts[p] # 0 => texts'[p] = w.texts[p]
  BY DEF Shown
<1>1. CASE e.id = "screen" /\ ToScreen(e.arg)
  <2>1. w = [state |-> <<e.arg>>, texts |-> NoText] BY <1>1 DEF Asked
  <2>2. m_State' = <<e.arg>> BY <1>1 DEF ToScreen, Trans
  <2>3. \A p \in Panels : w.texts[p] = 0 BY <2>1 DEF NoText
  <2> HIDE DEF w
  <2>4. w.state = <<e.arg>> BY <2>1
  <2> QED BY <2>2, <2>3, <2>4
<1>2. CASE e.id = "side" /\ e.arg \in Sides /\ ToSide(e.arg)
  <2>1. v.state # << >> /\ v.state[1] \in ListScreens BY <1>2 DEF Fits, Silent, Suits
  <2>2. w = [v EXCEPT !.state = <<v.state[1], e.arg>>] BY <1>2 DEF Asked
  <2> HIDE DEF w
  <2>3. w.state = <<v.state[1], e.arg>> /\ w.texts = v.texts BY <1>0, <2>2
  <2>4. m_State' = <<m_State[1], e.arg>>
    BY <1>0, <1>2, <2>1 DEF ToSide, Trans
  <2>5. texts' = texts BY <1>2 DEF ToSide
  <2> QED BY <1>0, <2>3, <2>4, <2>5
<1>3. CASE e.id = "text" /\ e.arg \in Sides \cup {"options"} /\ NewText(e.arg, e.n)
  <2>1. v.state # << >> /\ Suits(v.state[1], e) BY <1>3 DEF Fits, Silent
  <2>2. m_State' = m_State /\ texts' = [p \in Panels |-> IF Takes(p, e.arg) THEN e.n ELSE texts[p]]
    BY <1>3 DEF NewText
  <2>3. "options" \notin Sides BY DEF Sides
  <2>4. CASE e.arg = "options"
    <3>1. w = [v EXCEPT !.texts[<<"options">>] = e.n] BY <1>3, <2>3, <2>4 DEF Asked
    <3> HIDE DEF w
    <3>2. w.state = v.state /\ w.texts = [v.texts EXCEPT ![<<"options">>] = e.n]
      BY <1>0, <3>1
    <3>3. v.state[1] = "options" BY <1>3, <2>1, <2>4 DEF Suits
    <3>4. Takes(<<"options">>, e.arg) BY <1>0, <2>1, <2>4, <3>3 DEF Takes, Innermost
    <3>5. \A p \in Panels : p # <<"options">> => ~Takes(p, e.arg)
      BY <2>3, <2>4, Forms DEF Takes, Innermost
    <3>6. <<"options">> \in Panels BY Forms
    <3> QED BY <1>0, <2>2, <3>2, <3>4, <3>5, <3>6
  <2>5. CASE e.arg \in Sides /\ v.state[1] \in ListScreens
    <3> DEFINE q == <<v.state[1], e.arg>>
    <3>1. w = [v EXCEPT !.texts[q] = e.n] BY <1>3, <2>3, <2>5 DEF Asked
    <3> HIDE DEF w
    <3>2. w.state = v.state /\ w.texts = [v.texts EXCEPT ![q] = e.n]
      BY <1>0, <3>1
    <3>3. q \in Panels BY <2>5, Forms
    <3>4. Takes(q, e.arg) BY <1>0, <2>1 DEF Takes, Innermost
    <3>5. \A p \in Panels : Takes(p, e.arg) => p = q
      <4> SUFFICES ASSUME NEW p \in Panels, Takes(p, e.arg) PROVE p = q OBVIOUS
      <4>1. CASE p = <<"options">>
        BY <2>3, <2>5, <4>1 DEF Takes, Innermost
      <4>2. CASE \E s \in ListScreens, x \in Sides : p = <<s, x>>
        BY <1>0, <4>2 DEF Takes, Innermost
      <4> QED BY <4>1, <4>2, Forms
    <3> HIDE DEF q
    <3> QED BY <1>0, <2>2, <3>2, <3>3, <3>4, <3>5
  <2>6. CASE e.arg \in Sides /\ v.state[1] \notin ListScreens
    <3>1. w = v BY <1>3, <2>3, <2>6 DEF Asked
    <3> HIDE DEF w
    <3>2. \A p \in Panels : ~Takes(p, e.arg)
      BY <1>0, <2>3, <2>6, Forms DEF Takes, Innermost
    <3> QED BY <1>0, <2>2, <3>1, <3>2
  <2> QED BY <1>3, <2>4, <2>5, <2>6
<1>4. CASE e.id = "box" /\ ShowBox(e.arg)
  <2>1. w = v BY <1>4, AskedOfOthers
  <2> HIDE DEF w
  <2> QED BY <1>0, <1>4, <2>1 DEF ShowBox
<1> HIDE DEF w
<1> QED BY <1>1, <1>2, <1>3, <1>4, HandledForms

-----------------------------------------------------------------------------
(* The chain where the mail stays.                                         *)
LEMMA ChainStays ==
  ASSUME WInv, Stays, Chain
  PROVE  Chain'
<1>1. PICK v \in Views, S \in [0..Len(Queue) -> Views] :
         Shown(v) /\ Leads(v, S) /\ (Fresh \/ S[Len(Queue)] = asked)
  BY DEF Chain
<1>2. Queue' = Queue /\ UNCHANGED <<m_State, texts, asked>> /\ (Fresh => Fresh')
  BY DEF Stays, SameWindow
<1>3. Fits(v, Hand') /\ Asked(v, Hand') = Asked(v, Hand)
  <2>1. CASE Hand' = Hand BY <1>1, <2>1 DEF Leads
  <2>2. CASE Silent(Hand) /\ Silent(Hand)'
    <3>1. Silent(Hand') BY <2>2 DEF Silent
    <3> QED BY <2>2, <3>1, AskedQuiet DEF Fits
  <2> QED BY <2>1, <2>2 DEF Stays
<1>4. Shown(v)' BY <1>1, <1>2 DEF Shown
<1>5. Leads(v, S)' BY <1>1, <1>2, <1>3 DEF Leads
<1>6. Fresh' \/ S[Len(Queue')] = asked' BY <1>1, <1>2
<1>7. S \in [0..Len(Queue') -> Views] BY <1>2
<1> QED BY <1>4, <1>5, <1>6, <1>7 DEF Chain

(* An event that suits the last view goes to the end.                      *)
LEMMA ChainPosted ==
  ASSUME WInv, NEW e \in Anything, Posted(e),
         NEW v \in Views, NEW S \in [0..Len(Queue) -> Views],
         Shown(v), Leads(v, S), Fits(S[Len(Queue)], e)
  PROVE  \E T \in [0..Len(Queue') -> Views] :
             Shown(v)' /\ Leads(v, T)' /\ T[Len(Queue')] = Asked(S[Len(Queue)], e)
<1>0. Queue \in Seq(Anything) /\ Len(Queue) \in Nat /\ S[Len(Queue)] \in Views
  <2>1. Queue \in Seq(Anything) BY HandTyped
  <2>2. Len(Queue) \in Nat BY <2>1
  <2> QED BY <2>1, <2>2
<1>1. Shown(v)' BY DEF Posted, SameWindow, Shown
<1>2. CASE Queue' = Append(Queue, e) /\ Hand' = Hand
  <2> DEFINE n == Len(Queue)
             a == Asked(S[n], e)
             T == [i \in 0..(n + 1) |-> IF i = n + 1 THEN a ELSE S[i]]
  <2>1. /\ Len(Queue') = n + 1 /\ Queue'[n + 1] = e
        /\ \A i \in 1..n : Queue'[i] = Queue[i]
    BY <1>0, <1>2, AppendProperties
  <2>2. a \in Views
    <3>1. e \in Events \/ Silent(e) BY QuietOnes DEF Anything
    <3> QED BY <1>0, <3>1, FitsTyped
  <2>3. n \in Nat BY <1>0
  <2>4. \A i \in 0..n : S[i] \in Views OBVIOUS
  <2> HIDE DEF n, a
  <2>5. T \in [0..(n + 1) -> Views] BY <2>2, <2>3, <2>4
  <2>6. T[n + 1] = a /\ \A i \in 0..n : T[i] = S[i] BY <2>3
  <2>7. /\ Fits(v, Hand) /\ S[0] = Asked(v, Hand)
        /\ \A i \in 1..n : Fits(S[i - 1], Queue[i]) /\ S[i] = Asked(S[i - 1], Queue[i])
    BY DEF Leads, n
  <2> HIDE DEF T
  <2>8. Fits(T[n], e) /\ a = Asked(T[n], e) BY <2>3, <2>6 DEF n, a
  <2>9. PICK R \in [0..(n + 1) -> Views] : R = T BY <2>5
  <2>10. Leads(v, R)'
    <3>1. Fits(v, Hand') /\ R[0] = Asked(v, Hand') BY <1>2, <2>3, <2>6, <2>7, <2>9
    <3>2. ASSUME NEW i \in 1..(n + 1)
          PROVE  Fits(R[i - 1], Queue'[i]) /\ R[i] = Asked(R[i - 1], Queue'[i])
      <4>1. CASE i = n + 1
        <5>1. i - 1 = n BY <2>3, <4>1
        <5> QED BY <2>1, <2>6, <2>8, <2>9, <4>1, <5>1
      <4>2. CASE i # n + 1
        <5>1. i \in 1..n /\ i - 1 \in 0..n /\ i \in 0..n BY <2>3, <4>2
        <5> QED BY <2>1, <2>6, <2>7, <2>9, <5>1
      <4> QED BY <4>1, <4>2
    <3> QED BY <2>1, <3>1, <3>2 DEF Leads
  <2>11. R \in [0..Len(Queue') -> Views] /\ R[Len(Queue')] = a BY <2>1, <2>6, <2>9
  <2> QED BY <1>1, <2>10, <2>11 DEF n, a
<1>3. CASE Queue = << >> /\ Queue' = << >> /\ Silent(Hand) /\ Hand' = e
  <2>1. Len(Queue) = 0 /\ Len(Queue') = 0 BY <1>3
  <2>2. S[0] = v BY AskedQuiet, <1>3 DEF Leads
  <2>3. Fits(v, e) BY <2>1, <2>2
  <2> DEFINE a == Asked(v, e)
             T == [i \in 0..0 |-> a]
  <2>4. a \in Views
    <3>1. e \in Events \/ Silent(e) BY QuietOnes DEF Anything
    <3> QED BY <2>3, <3>1, FitsTyped
  <2>5. PICK R \in [0..0 -> Views] : R[0] = a
    <3>1. T \in [0..0 -> Views] /\ T[0] = a BY <2>4
    <3> QED BY <3>1
  <2>6. Leads(v, R)' BY <1>3, <2>1, <2>3, <2>5 DEF Leads
  <2> QED BY <1>1, <2>1, <2>2, <2>5, <2>6
<1> QED BY <1>2, <1>3 DEF Posted

(* The chain when the first message is received.                           *)
LEMMA ChainReceived ==
  ASSUME WInv, Received, Chain
  PROVE  Chain'
<1>1. PICK v \in Views, S \in [0..Len(Queue) -> Views] :
         Shown(v) /\ Leads(v, S) /\ (Fresh \/ S[Len(Queue)] = asked)
  BY DEF Chain
<1> DEFINE n == Len(Queue)
           T == [i \in 0..(n - 1) |-> S[i + 1]]
<1>2. Queue \in Seq(Anything) /\ Queue # << >> /\ n \in Nat \ {0}
  <2>1. Queue \in Seq(Anything) /\ Queue # << >> BY HandTyped DEF Received
  <2> QED BY <2>1, EmptySeq
<1>3. /\ Len(Queue') = n - 1 /\ Hand' = Queue[1]
      /\ \A i \in 1..(n - 1) : Queue'[i] = Queue[i + 1]
  <2>1. Queue' = Tail(Queue) /\ Hand' = Head(Queue) BY DEF Received
  <2> QED BY <1>2, <2>1, HeadTailProperties
<1>4. S[0] = v
  <2>1. Silent(Hand) /\ S[0] = Asked(v, Hand) BY <1>1 DEF Leads, Received
  <2> QED BY <2>1, AskedQuiet
<1>5. \A i \in 1..n : Fits(S[i - 1], Queue[i]) /\ S[i] = Asked(S[i - 1], Queue[i])
  BY <1>1 DEF Leads
<1>6. \A i \in 0..n : S[i] \in Views OBVIOUS
<1>7. UNCHANGED <<m_State, texts, asked>> /\ (Fresh => Fresh')
  BY DEF Received, SameWindow, caller, Fresh
<1>8. Fresh \/ S[n] = asked BY <1>1
<1> HIDE DEF n
<1>9. T \in [0..(n - 1) -> Views] BY <1>2, <1>6
<1>10. \A i \in 0..(n - 1) : T[i] = S[i + 1] OBVIOUS
<1> HIDE DEF T
<1>11. Fits(v, Hand') /\ T[0] = Asked(v, Hand')
  <2>1. 1 \in 1..n /\ 0 \in 0..(n - 1) /\ 1 - 1 = 0 /\ 0 + 1 = 1 BY <1>2
  <2>2. Fits(S[0], Queue[1]) /\ S[1] = Asked(S[0], Queue[1]) BY <1>5, <2>1
  <2>3. T[0] = S[1] BY <1>10, <2>1
  <2> QED BY <1>3, <1>4, <2>2, <2>3
<1>12. ASSUME NEW i \in 1..(n - 1)
       PROVE  Fits(T[i - 1], Queue'[i]) /\ T[i] = Asked(T[i - 1], Queue'[i])
  <2>1. i + 1 \in 1..n /\ i \in 0..(n - 1) /\ i - 1 \in 0..(n - 1) /\ (i - 1) + 1 = i
        /\ (i + 1) - 1 = i
    BY <1>2
  <2>2. T[i - 1] = S[i] /\ T[i] = S[i + 1] BY <1>10, <2>1
  <2>3. Fits(S[i], Queue[i + 1]) /\ S[i + 1] = Asked(S[i], Queue[i + 1]) BY <1>5, <2>1
  <2> QED BY <1>3, <2>2, <2>3
<1> HIDE DEF T
<1>13. PICK R \in [0..(n - 1) -> Views] : R = T BY <1>9
<1>14. Leads(v, R)'
  <2>1. Fits(v, Hand') /\ R[0] = Asked(v, Hand') BY <1>11, <1>13
  <2>2. ASSUME NEW i \in 1..(n - 1)
        PROVE  Fits(R[i - 1], Queue'[i]) /\ R[i] = Asked(R[i - 1], Queue'[i])
    BY <1>12, <1>13
  <2> QED BY <1>3, <2>1, <2>2 DEF Leads
<1>15. Shown(v)' BY <1>1, <1>7 DEF Shown
<1>16. T[n - 1] = S[n]
  <2>1. n - 1 \in 0..(n - 1) /\ (n - 1) + 1 = n BY <1>2
  <2> QED BY <1>10, <2>1
<1>17. Fresh' \/ R[Len(Queue')] = asked' BY <1>3, <1>7, <1>8, <1>13, <1>16
<1>18. R \in [0..Len(Queue') -> Views] BY <1>3
<1> QED BY <1>14, <1>15, <1>17, <1>18 DEF Chain

(* The chain when the event in hand is handled: its first view is shown.   *)
LEMMA ChainHandled ==
  ASSUME WInv, Handled, Chain
  PROVE  Chain'
<1>1. PICK v \in Views, S \in [0..Len(Queue) -> Views] :
         Shown(v) /\ Leads(v, S) /\ (Fresh \/ S[Len(Queue)] = asked)
  BY DEF Chain
<1>2. Hand \in Events /\ HandleEvent(Hand) /\ Fits(v, Hand) /\ S[0] = Asked(v, Hand)
  BY <1>1 DEF Handled, Leads
<1>3. PICK e \in Events : e = Hand BY <1>2
<1>4. Shown(Asked(v, e))' BY <1>1, <1>2, <1>3, HandlingShows
<1>5. S[0] \in Views /\ Shown(S[0])'
  <2>1. Asked(v, e) \in Views BY <1>2, <1>3, FitsTyped
  <2> QED BY <1>2, <1>3, <1>4, <2>1
<1>6. Queue' = Queue /\ Hand' = VBlank /\ asked' = asked /\ (Fresh => Fresh')
  BY DEF Handled, caller, Fresh
<1>7. Leads(S[0], S)'
  <2>1. Fits(S[0], VBlank) /\ Asked(S[0], VBlank) = S[0]
    BY QuietOnes, AskedQuiet DEF Fits
  <2> QED BY <1>1, <1>6, <2>1 DEF Leads
<1>8. S \in [0..Len(Queue') -> Views] /\ (Fresh' \/ S[Len(Queue')] = asked') BY <1>1, <1>6
<1> QED BY <1>5, <1>7, <1>8 DEF Chain

(* The chain at every step.                                                *)
LEMMA ChainStep ==
  ASSUME WInv, OnlyNewest, [Next]_vars, Chain
  PROVE  Chain'
<1>1. CASE Initialize
  <2>1. /\ mbx' = Append(mbx, << >>) /\ hsm' = hsm /\ main' = "start" /\ main = "initialize"
        /\ UNCHANGED <<m_State, texts>>
    BY <1>1 DEF Initialize
  <2>2. Len(mbx') = Len(mbx) + 1 /\ Len(mbx) \in Nat /\ Len(mbx) < MaxThreads
    <3>1. << >> \in Seq(Anything) BY EmptySeq
    <3> QED BY <2>1, <3>1, AppendProperties DEF WInv, MailOK, StageOK
  <2>3. Newest' # 0 /\ Newest' \in Threads /\ Newest' > Len(mbx) /\ Newest' = Len(mbx) + 1
    BY <2>2, WindowAssumption DEF Newest, Threads
  <2>4. Queue' = << >>
    <3>1. << >> \in Seq(Anything) BY EmptySeq
    <3>2. mbx'[Len(mbx) + 1] = << >> BY <2>1, <3>1, AppendProperties DEF WInv, MailOK
    <3> QED BY <2>3, <3>2 DEF Queue
  <2>5. Hand' = VBlank
    <3>1. hsm[Newest'].pc = "none" /\ hsm[Newest'] \in HsmStates BY <2>3 DEF WInv, MailOK
    <3>2. hsm[Newest'].event = VBlank BY <3>1, HsmForms DEF Idle
    <3> QED BY <2>1, <2>3, <3>2 DEF Hand
  <2>6. Fresh' BY <2>1 DEF Fresh
  <2> DEFINE v == [state |-> m_State, texts |-> texts]
             S == [i \in 0..0 |-> v]
  <2>7. v \in Views BY DEF WInv, WindowOK, Views
  <2>8. v.state = m_State /\ v.texts = texts OBVIOUS
  <2>9. S \in [0..0 -> Views] /\ S[0] = v BY <2>7
  <2> HIDE DEF v, S
  <2>10. PICK w \in Views : w = v BY <2>7
  <2>11. PICK R \in [0..0 -> Views] : R = S BY <2>9
  <2>12. Shown(w)' BY <2>1, <2>8, <2>10 DEF Shown
  <2>13. Fits(w, VBlank) /\ Asked(w, VBlank) = w BY QuietOnes, AskedQuiet DEF Fits
  <2>14. Len(Queue') = 0 BY <2>4
  <2>15. Leads(w, R)'
    <3>1. R[0] = w BY <2>9, <2>10, <2>11
    <3>2. Fits(w, Hand') /\ R[0] = Asked(w, Hand') BY <2>5, <2>13, <3>1
    <3>3. \A i \in 1..Len(Queue') : FALSE BY <2>14
    <3> QED BY <3>2, <3>3 DEF Leads
  <2>16. R \in [0..Len(Queue') -> Views] BY <2>14
  <2> QED BY <2>6, <2>12, <2>15, <2>16 DEF Chain
<1>2. CASE Stays BY <1>2, ChainStays
<1>3. CASE Posted(VBlank) /\ UNCHANGED caller
  <2>1. PICK v \in Views, S \in [0..Len(Queue) -> Views] :
           Shown(v) /\ Leads(v, S) /\ (Fresh \/ S[Len(Queue)] = asked)
    BY DEF Chain
  <2>2. Fits(S[Len(Queue)], VBlank) /\ Asked(S[Len(Queue)], VBlank) = S[Len(Queue)]
    BY QuietOnes, AskedQuiet DEF Fits
  <2>3. PICK T \in [0..Len(Queue') -> Views] :
           Shown(v)' /\ Leads(v, T)' /\ T[Len(Queue')] = Asked(S[Len(Queue)], VBlank)
    BY <1>3, <2>1, <2>2, OtherEvents, ChainPosted
  <2>4. asked' = asked /\ (Fresh => Fresh') BY <1>3 DEF caller, Fresh
  <2>5. Fresh' \/ T[Len(Queue')] = asked' BY <2>1, <2>2, <2>3, <2>4
  <2> QED BY <2>3, <2>5 DEF Chain
<1>4. CASE Dispatch /\ Posted(todo[1])
  <2>1. PICK v \in Views, S \in [0..Len(Queue) -> Views] :
           Shown(v) /\ Leads(v, S) /\ (Fresh \/ S[Len(Queue)] = asked)
    BY DEF Chain
  <2>2. /\ main = "run" /\ todo # << >> /\ asked' = Asked(asked, todo[1])
        /\ todo \in Seq(Events) /\ Batch(todo, asked.state[1]) /\ asked \in Views
        /\ asked.state # << >>
    BY <1>4 DEF Dispatch, WInv, CallerOK
  <2>3. PICK e \in Events : e = todo[1] BY <2>2
  <2>4. Posted(e) /\ e \in Anything BY <1>4, <2>3 DEF Anything
  <2>5. Fresh <=> e.id = "screen" BY <2>2, <2>3 DEF Fresh
  <2>6. Fits(S[Len(Queue)], e) /\ Asked(S[Len(Queue)], e) = Asked(asked, e)
    <3>1. CASE e.id = "screen" BY <3>1 DEF Fits, Asked
    <3>2. CASE e.id # "screen"
      <4>1. S[Len(Queue)] = asked BY <2>1, <2>5, <3>2
      <4>2. Suits(asked.state[1], e) BY <2>2, <2>3, <3>2, BatchTail
      <4> QED BY <2>2, <4>1, <4>2 DEF Fits
    <3> QED BY <3>1, <3>2
  <2>7. PICK T \in [0..Len(Queue') -> Views] :
           Shown(v)' /\ Leads(v, T)' /\ T[Len(Queue')] = Asked(S[Len(Queue)], e)
    BY <2>1, <2>4, <2>6, ChainPosted
  <2>8. T[Len(Queue')] = asked' BY <2>2, <2>3, <2>6, <2>7
  <2> QED BY <2>7, <2>8 DEF Chain
<1>5. CASE Received BY <1>5, ChainReceived
<1>6. CASE Handled BY <1>6, ChainHandled
<1> QED BY <1>1, <1>2, <1>3, <1>4, <1>5, <1>6, Moves

-----------------------------------------------------------------------------
Follows == OnlyNewest /\ PanelsShow /\ BoxesShow /\ Chain

(* Before the first call of Initialize the screen is yet to be asked for.  *)
LEMMA FollowsInit == Init => Follows
<1> SUFFICES ASSUME Init PROVE Follows OBVIOUS
<1>1. Len(mbx) = 0 /\ Newest = 0 BY DEF Init, Newest
<1>2. Hand = VBlank /\ Queue = << >> /\ Len(Queue) = 0 BY <1>1 DEF Hand, Queue
<1>3. Fresh BY DEF Init, Fresh
<1>4. OnlyNewest
  <2>1. \A t \in Threads : hsm[t].pc = "none" BY DEF Init, Nowhere
  <2> QED BY <2>1 DEF OnlyNewest
<1>5. PanelsShow
  <2>1. \A p \in Panels : panels[p] # "max" BY DEF Init, HiddenPanels
  <2> QED BY <1>3, <2>1 DEF PanelsShow
<1>6. BoxesShow BY DEF BoxesShow, Init
<1>7. Chain
  <2>0. WindowOK BY WindowInit
  <2> DEFINE v == [state |-> m_State, texts |-> texts]
             S == [i \in 0..0 |-> v]
  <2>1. v \in Views BY <2>0 DEF WindowOK, Views
  <2>2. v.state = m_State /\ v.texts = texts OBVIOUS
  <2>3. S \in [0..Len(Queue) -> Views] /\ S[0] = v BY <1>2, <2>1
  <2> HIDE DEF v, S
  <2>4. Shown(v) BY <2>2 DEF Shown
  <2>5. Fits(v, VBlank) /\ Asked(v, VBlank) = v BY QuietOnes, AskedQuiet DEF Fits
  <2>6. Leads(v, S) BY <1>2, <2>3, <2>5 DEF Leads
  <2> QED BY <1>3, <2>1, <2>3, <2>4, <2>6 DEF Chain
<1> QED BY <1>4, <1>5, <1>6, <1>7 DEF Follows

(* The window follows what is asked for, unless the machine was            *)
(* initialised again while a thread was at work.                           *)
LEMMA FollowsAlways == Spec => [](overlap \/ Follows)
<1>1. Init => overlap \/ Follows BY FollowsInit
<1>2. WInv /\ (overlap \/ Follows) /\ [Next]_vars => (overlap \/ Follows)'
  <2> SUFFICES ASSUME WInv, overlap \/ Follows, [Next]_vars, ~overlap' PROVE Follows' OBVIOUS
  <2>1. (overlap \/ OnlyNewest)' BY OnlyNewestStep DEF Follows
  <2>2. ~overlap BY OverlapStays
  <2> QED BY <2>1, <2>2, PanelsStep, BoxesStep, ChainStep DEF Follows
<1> QED BY <1>1, <1>2, WindowInvariant, PTL DEF Spec

(* When all that the main thread has dispatched is handled, the window     *)
(* shows the screen and the side that it asked for last and no other       *)
(* panel, the texts that it sent for them, and in each box the last text;  *)
(* whatever the screens, the calls, and the pictures drawn in between.     *)
THEOREM WindowShowsWhatIsAsked == Spec => []ShowsWhatIsAsked
<1>1. WInv /\ (overlap \/ Follows) => ShowsWhatIsAsked
  <2> SUFFICES ASSUME WInv, Follows, Settled
               PROVE  /\ m_State = asked.state
                      /\ \A p \in Panels :
                             /\ panels[p] = "max" <=> p = asked.state
                             /\ asked.texts[p] # 0 => texts[p] = asked.texts[p]
                      /\ HSMMessagebox = 1 => \A b \in Boxes : box[b].text = buffer[b]
    BY DEF ShowsWhatIsAsked
  <2>1. main = "run" /\ todo = << >> /\ mbx[Newest] = << >>
        /\ \A t \in Threads : hsm[t].pc # "handle"
    BY DEF Settled, Newest, HSMMessagebox
  <2>2. Newest # 0 BY <2>1 DEF WInv, StageOK, Newest
  <2>3. Queue = << >> /\ Silent(Hand) BY <2>1, <2>2, HandTyped
  <2>4. ~Fresh BY <2>1 DEF Fresh
  <2>5. \A e \in Events : ~Awaited(e)
    <3>1. DOMAIN Queue = {} BY <2>3
    <3> QED BY <2>3, <3>1, QuietOnes DEF Awaited
  <2>6. m_State = asked.state /\ \A p \in Panels : asked.texts[p] # 0 => texts[p] = asked.texts[p]
    <3>1. PICK v \in Views, S \in [0..Len(Queue) -> Views] :
             Shown(v) /\ Leads(v, S) /\ (Fresh \/ S[Len(Queue)] = asked)
      BY DEF Follows, Chain
    <3>2. Len(Queue) = 0 BY <2>3
    <3>3. S[0] = asked BY <2>4, <3>1, <3>2
    <3>4. S[0] = v BY <2>3, <3>1, AskedQuiet DEF Leads
    <3> QED BY <3>1, <3>3, <3>4 DEF Shown
  <2>7. \A p \in Panels : panels[p] = "max" <=> p = m_State
    <3>1. ~ScreenAwaited BY <2>5, EventForms DEF ScreenAwaited
    <3> QED BY <2>4, <3>1 DEF Follows, PanelsShow
  <2>8. HSMMessagebox = 1 => \A b \in Boxes : box[b].text = buffer[b]
    <3> SUFFICES ASSUME HSMMessagebox = 1, NEW b \in Boxes PROVE box[b].text = buffer[b]
      OBVIOUS
    <3>1. ~Awaited(BoxEvent(b)) BY <2>5, EventForms DEF BoxEvent
    <3>2. ~BoxToDo(b) BY <2>1 DEF BoxToDo
    <3>3. Len(mbx) <= 1 BY DEF HSMMessagebox
    <3> QED BY <3>1, <3>2, <3>3 DEF Follows, BoxesShow
  <2> QED BY <2>6, <2>7, <2>8
<1> QED BY <1>1, WindowInvariant, FollowsAlways, PTL

=============================================================================
