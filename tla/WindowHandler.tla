----------------------------- MODULE WindowHandler -----------------------------
(***************************************************************************)
(* The text interface (Plugins/UI_Text3D): CTextUI3D, which the main       *)
(* thread calls, WindowHandlerHSM, a hierarchical state machine on a       *)
(* thread of its own that takes events from a message box, and the thread  *)
(* that sends it an event per picture.  A state is the path that leads to  *)
(* it from top; a panel has the path of the state that it belongs to.      *)
(*                                                                         *)
(* Texts are told apart by the call that they came with.  Left out are     *)
(* icons, title and play time, which are stored as they come, and what is  *)
(* drawn.  A change of skin initialises the same object once more.         *)
(*                                                                         *)
(* Of the calls that make m_state ACTIVE only the change of skin is here:  *)
(* OnScreenshot, exclusive access and PrepareShutdown keep the render      *)
(* thread from sending, which it may leave to any later time in any case.  *)
(***************************************************************************)
EXTENDS Integers, Sequences, FiniteSets

CONSTANTS
    ListScreens,  \* the playlist screens; all have the same states
    Fade,         \* pictures that a box takes to appear (100)
    Hold,         \* pictures for which it stays (300)
    MaxThreads,   \* bound: calls of Initialize
    MaxCalls      \* bound: calls of the main thread

ASSUME WindowAssumption ==
    /\ "options" \notin ListScreens
    /\ Fade \in Nat /\ Hold \in Nat
    /\ MaxThreads \in Nat \ {0} /\ MaxCalls \in Nat

Threads == 1..MaxThreads
Screens == ListScreens \cup {"options"}
Sides == {"list", "entries"}
Panels == (ListScreens \X Sides) \cup {<<"options">>}
Boxes == {"error", "message"}
States == {<<>>} \cup {<<s>> : s \in Screens} \cup (ListScreens \X Sides)

VARIABLES
    main,             \* where the main thread is
    todo,             \* the events it has yet to dispatch in its call
    calls,            \* how many calls it has made
    asked,            \* history: the state and texts it has asked for last
    buffer,           \* m_error and m_message
    m_state,          \* a screenshot is taken, or a plugin has the screen
    s_ExitRenderThread,
    render,           \* where the render thread is
    mbx,              \* message boxes made so far, the last is HSMMessagebox
    m_HSMActive, m_HSMInitialized,
    hsm,              \* the threads that receive: where, and with what
    overlap,          \* history: one was not waiting when the next was made
    missed,           \* history: the thread was about to wait when cancelled
    m_State,
    panels,           \* m_panel_state
    texts,            \* the lists of text of each panel
    box               \* the error and the message box, their static state

caller == <<main, todo, calls, asked, buffer, m_state>>
window == <<m_State, panels, texts, box>>
thread == <<m_HSMActive, m_HSMInitialized, hsm, overlap, missed>>
vars == <<caller, s_ExitRenderThread, render, mbx, thread, window>>

Innermost(path) == path[Len(path)]

Event(id, arg, n) == [id |-> id, arg |-> arg, n |-> n]
VBlank == Event("vblank", "", 0)

Nowhere == [pc |-> "none", event |-> VBlank]

HiddenPanels == [p \in Panels |-> IF p = <<"options">> THEN "bottom" ELSE "right"]

NoText == [p \in Panels |-> 0]

Init ==
    /\ main = "initialize" /\ todo = <<>> /\ calls = 0
    /\ asked = [state |-> <<"options">>, texts |-> NoText]
    /\ buffer = [b \in Boxes |-> 0]
    /\ m_state = "NOT_ACTIVE"
    /\ s_ExitRenderThread = FALSE /\ render = "loop"
    /\ mbx = <<>>
    /\ m_HSMActive = FALSE /\ m_HSMInitialized = FALSE
    /\ hsm = [t \in Threads |-> Nowhere]
    /\ overlap = FALSE /\ missed = FALSE
    /\ m_State = <<>>
    /\ panels = HiddenPanels /\ texts = NoText
    /\ box = [b \in Boxes |->
                  [state |-> "HIDE", opacity |-> 0, time |-> 0, text |-> 0]]

-----------------------------------------------------------------------------
(* The message box.                                                        *)

HSMMessagebox == Len(mbx)
Newest == Len(mbx)           \* m_mbxthread

WaitsAt(t, b) == hsm[t] = [pc |-> "wait", event |-> Event("none", "", b)]

(* sceKernelSendMbx gives the event to a thread that waits for one.        *)
SendMbx(event) ==
    IF \E t \in Threads : WaitsAt(t, HSMMessagebox)
    THEN /\ \E t \in Threads :
                /\ WaitsAt(t, HSMMessagebox)
                /\ hsm' = [hsm EXCEPT ![t] = [pc |-> "handle", event |-> event]]
         /\ UNCHANGED mbx
    ELSE /\ mbx' = [mbx EXCEPT ![HSMMessagebox] = Append(@, event)]
         /\ UNCHANGED hsm

-----------------------------------------------------------------------------
(* The main thread: a call of CTextUI3D, and the events it dispatches.     *)

Text(arg, n) == Event("text", arg, n)

(* IScreen::Activate: the screen, its texts and its side.  There may be no *)
(* lists, or no entries in the one that is shown.                          *)
Activation(screen, side, n) ==
    LET shown  == Event("screen", screen, 0)
        chosen == Event("side", side, 0)
    IN  IF screen = "options"
        THEN {<<shown, Text(screen, n)>>}
        ELSE {<<shown, chosen>>, <<shown, Text("list", n), chosen>>,
              <<shown, Text("list", n), Text("entries", n), chosen>>}

Call(events) ==
    /\ main = "run" /\ todo = <<>>
    /\ calls < MaxCalls
    /\ calls' = calls + 1
    /\ todo' = events
    /\ UNCHANGED <<main, asked, m_state, s_ExitRenderThread, render, mbx, thread, window>>

Activate ==
    /\ \E s \in Screens, x \in Sides : \E e \in Activation(s, x, calls + 1) : Call(e)
    /\ UNCHANGED buffer

(* The user goes to the other side of the screen.                          *)
OnCurrentContainerSideChange ==
    /\ asked.state[1] \in ListScreens
    /\ \E x \in Sides : Call(<<Event("side", x, 0)>>)
    /\ UNCHANGED buffer

(* By the screen that is shown, or by the one that the stream belongs to.  *)
DisplayContainersAndElements ==
    /\ Call(<<Text("list", calls + 1), Text("entries", calls + 1)>>)
    /\ UNCHANGED buffer

(* The text stays in the one buffer of its kind; the event points to it.   *)
DisplayMessage(b) ==
    /\ Call(<<Event("box", b, 0)>>)
    /\ buffer' = [buffer EXCEPT ![b] = calls + 1]

(* What the window is to show, once the event is handled.                  *)
Asked(a, e) ==
    CASE e.id = "screen" -> [state |-> <<e.arg>>, texts |-> NoText]
      [] e.id = "side"   -> [a EXCEPT !.state = <<@[1], e.arg>>]
      [] e.id = "text" /\ e.arg = "options" ->
             [a EXCEPT !.texts[<<"options">>] = e.n]
      [] e.id = "text" /\ e.arg \in Sides /\ a.state[1] \in ListScreens ->
             [a EXCEPT !.texts[<<a.state[1], e.arg>>] = e.n]
      [] OTHER -> a

(* Any signal but VBLANK is sent, whatever is in the message box.          *)
Dispatch ==
    /\ main = "run" /\ todo # <<>>
    /\ todo' = Tail(todo)
    /\ asked' = Asked(asked, Head(todo))
    /\ SendMbx(Head(todo))
    /\ UNCHANGED <<main, calls, buffer, m_state, s_ExitRenderThread, render,
                   m_HSMActive, m_HSMInitialized, overlap, missed, window>>

(* MID_GIVEUPEXCLISIVEACCESS: the screen is activated again.               *)
GiveUpExclusiveAccess ==
    /\ main = "run" /\ todo = <<>> /\ m_state = "ACTIVE"
    /\ m_state' = "NOT_ACTIVE"
    /\ calls < MaxCalls /\ calls' = calls + 1
    /\ todo' \in Activation(asked.state[1], Innermost(asked.state), calls + 1)
    /\ UNCHANGED <<main, asked, buffer, s_ExitRenderThread, render, mbx, thread, window>>

(* OPTION_ID_SKIN: the same object is initialised for another skin.        *)
ChangeSkin ==
    /\ main = "run" /\ todo = <<>> /\ asked.state = <<"options">>
    /\ HSMMessagebox < MaxThreads
    /\ calls < MaxCalls /\ calls' = calls + 1
    /\ m_state' = "ACTIVE"
    /\ main' = "initialize"
    /\ UNCHANGED <<todo, asked, buffer, s_ExitRenderThread, render, mbx,
                   thread, window>>

(* Initialize puts the panels back, whatever the state is, and makes a new *)
(* message box and a new thread, whatever becomes of the old ones.         *)
Initialize ==
    /\ main = "initialize" /\ main' = "start"
    /\ panels' = HiddenPanels
    /\ mbx' = Append(mbx, <<>>)
    /\ m_HSMActive' = TRUE
    /\ overlap' = (overlap \/ \E t \in Threads : hsm[t].pc \notin {"none", "wait"})
    /\ UNCHANGED <<todo, calls, asked, buffer, m_state, s_ExitRenderThread, render,
                   m_HSMInitialized, hsm, missed, m_State, texts, box>>

(* StartUI goes on to activate the screen.                                 *)
StartThread ==
    /\ main = "start" /\ main' = "run"
    /\ hsm' = [hsm EXCEPT ![Newest] = [pc |-> "test", event |-> VBlank]]
    /\ m_HSMInitialized' = TRUE
    /\ \E s \in (IF Newest = 1 THEN Screens ELSE {"options"}) :
           todo' \in Activation(s, "list", MaxCalls + Newest)
    /\ UNCHANGED <<calls, asked, buffer, m_state, s_ExitRenderThread, render, mbx,
                   m_HSMActive, overlap, missed, window>>

(* UnloadPlugin: Terminate, and the destructors of the two objects.        *)
Terminate ==
    /\ main = "run" /\ todo = <<>> /\ asked.state = <<"options">>
    /\ main' = "terminate"
    /\ s_ExitRenderThread' = TRUE
    /\ UNCHANGED <<todo, calls, asked, buffer, m_state, render, mbx, thread, window>>

Deactivate ==
    /\ main = "terminate" /\ render = "ended"
    /\ main' = "cancel"
    /\ m_HSMInitialized' = FALSE /\ m_HSMActive' = FALSE
    /\ UNCHANGED <<todo, calls, asked, buffer, m_state, s_ExitRenderThread, render,
                   mbx, hsm, overlap, missed, window>>

(* Mutant: nobody is woken.                                                *)
WokenNobody == {}

Woken == {t \in Threads : WaitsAt(t, HSMMessagebox)}

(* Those that wait are woken, and leave; not one that is about to wait.    *)
CancelReceive ==
    /\ main = "cancel" /\ main' = "join"
    /\ hsm' = [t \in Threads |-> IF t \in Woken THEN [Nowhere EXCEPT !.pc = "ended"]
                                 ELSE hsm[t]]
    /\ missed' = (hsm[Newest].pc = "receive")
    /\ UNCHANGED <<todo, calls, asked, buffer, m_state, s_ExitRenderThread, render,
                   mbx, m_HSMActive, m_HSMInitialized, overlap, window>>

(* Mutant: the thread is not waited for.                                   *)
JoinedAtOnce == TRUE

Joined == hsm[Newest].pc = "ended"

WaitThreadEnd ==
    /\ main = "join" /\ Joined
    /\ main' = "gone"
    /\ UNCHANGED <<todo, calls, asked, buffer, m_state, s_ExitRenderThread, render,
                   mbx, thread, window>>

-----------------------------------------------------------------------------
(* The render thread: a VBLANK per picture, unless there are events in the *)
(* message box; that is tested before it is sent.                          *)

RenderGo(from, to) ==
    /\ render = from /\ render' = to
    /\ UNCHANGED <<caller, s_ExitRenderThread, m_HSMActive, m_HSMInitialized,
                   overlap, missed, window>>

RenderExits ==
    /\ s_ExitRenderThread
    /\ RenderGo("loop", "ended")
    /\ UNCHANGED <<mbx, hsm>>

RenderTests ==
    /\ ~s_ExitRenderThread
    /\ m_state = "NOT_ACTIVE"
    /\ m_HSMInitialized
    /\ mbx[HSMMessagebox] = <<>>
    /\ RenderGo("loop", "send")
    /\ UNCHANGED <<mbx, hsm>>

RenderSends ==
    /\ RenderGo("send", "loop")
    /\ SendMbx(VBlank)

-----------------------------------------------------------------------------
(* Transitions of the state machine, and the panels they move.             *)

Inside(p, state) == p # state /\ \A k \in DOMAIN state : k \in DOMAIN p /\ p[k] = state[k]

Enter(ps, state) ==
    [p \in Panels |-> CASE p = state -> "max"
                        [] Inside(p, state) -> "right"
                        [] OTHER -> ps[p]]

Exit(ps, state) ==
    [p \in Panels |-> CASE p = state -> IF p = <<"options">> THEN "bottom" ELSE "right"
                        [] Inside(p, state) -> "bottom"
                        [] OTHER -> ps[p]]

(* The outermost state that is exited.  A handler names a substate of its  *)
(* own or a sister of its state, so that the target's superstate stays.    *)
Left(target) == SubSeq(m_State, 1, Len(target))

(* Mutant: the exits begin at the state that has handled the event, which  *)
(* is top when the screen changes.                                         *)
ExitsFromSource(target) == Len(target) = 2 /\ Len(m_State) = 2

Exits(target) == Len(m_State) >= Len(target)

(* From the state outwards, and inwards to the target.  The outermost exit *)
(* is the last, and it moves all that the others have moved.               *)
Trans(target) ==
    /\ m_State' = target
    /\ panels' = Enter(IF Exits(target) THEN Exit(panels, Left(target)) ELSE panels, target)

-----------------------------------------------------------------------------
(* RenderError and RenderMessage: the same machine twice.                  *)

Show(x) == [x EXCEPT !.state = "SHOWING"]

Hide(x) == [x EXCEPT !.state = IF @ \in {"SHOW", "SHOWING"} THEN "HIDING" ELSE @]

Vanishes(x) == x.state = "HIDING" /\ x.opacity = 0

Picture(x) ==
    CASE x.state = "SHOWING" /\ x.opacity = Fade -> [x EXCEPT !.state = "SHOW", !.time = 0]
      [] x.state = "SHOWING" /\ x.opacity < Fade -> [x EXCEPT !.opacity = @ + 1]
      [] x.state = "SHOW" /\ x.time = Hold -> [x EXCEPT !.state = "HIDING"]
      [] x.state = "SHOW" /\ x.time < Hold -> [x EXCEPT !.time = @ + 1]
      [] Vanishes(x) -> [x EXCEPT !.state = "HIDE"]
      [] x.state = "HIDING" /\ x.opacity > 0 -> [x EXCEPT !.opacity = @ - 1]
      [] x.state = "HIDE" -> x

-----------------------------------------------------------------------------
(* MessageHandler: the state's handler, or those of its superstates.       *)

ToScreen(s) ==
    /\ Trans(<<s>>)
    /\ box' = [b \in Boxes |-> Hide(box[b])]
    /\ UNCHANGED texts

ToSide(x) ==
    /\ IF m_State # <<>> /\ m_State[1] \in ListScreens /\ m_State # <<m_State[1], x>>
       THEN Trans(<<m_State[1], x>>)
       ELSE UNCHANGED <<m_State, panels>>
    /\ UNCHANGED <<texts, box>>

(* ClearList and the new list; a state that has no use for it drops it.    *)
Takes(panel, x) == m_State # <<>> /\ panel[1] = m_State[1] /\ Innermost(panel) = x

NewText(x, n) ==
    /\ texts' = [p \in Panels |-> IF Takes(p, x) THEN n ELSE texts[p]]
    /\ UNCHANGED <<m_State, panels, box>>

(* SetError, SetMessage: the text is copied when the event is handled.     *)
ShowBox(b) ==
    /\ box' = [box EXCEPT ![b] = [Show(@) EXCEPT !.text = buffer[b]]]
    /\ UNCHANGED <<m_State, panels, texts>>

HandleEvent(e) ==
    CASE e.id = "screen" -> ToScreen(e.arg)
      [] e.id = "side"   -> ToSide(e.arg)
      [] e.id = "text"   -> NewText(e.arg, e.n)
      [] e.id = "box"    -> ShowBox(e.arg)

-----------------------------------------------------------------------------
(* MbxThread.                                                              *)

HsmGo(t, from, to) ==
    /\ hsm[t].pc = from
    /\ hsm' = [hsm EXCEPT ![t] = [pc |-> to, event |-> VBlank]]
    /\ UNCHANGED <<caller, s_ExitRenderThread, render, mbx, m_HSMActive,
                   m_HSMInitialized, overlap, missed>>

TestActive(t) ==
    /\ HsmGo(t, "test", IF m_HSMActive THEN "receive" ELSE "ended")
    /\ UNCHANGED window

(* From the message box that is the newest by now.                         *)
ReceiveMbx(t) ==
    /\ hsm[t].pc = "receive" /\ main # "gone"
    /\ IF mbx[HSMMessagebox] # <<>>
       THEN /\ hsm' = [hsm EXCEPT ![t] = [pc |-> "handle",
                                          event |-> Head(mbx[HSMMessagebox])]]
            /\ mbx' = [mbx EXCEPT ![HSMMessagebox] = Tail(@)]
       ELSE /\ hsm' = [hsm EXCEPT ![t] = [pc |-> "wait",
                                          event |-> Event("none", "", HSMMessagebox)]]
            /\ UNCHANGED mbx
    /\ UNCHANGED <<caller, s_ExitRenderThread, render, m_HSMActive, m_HSMInitialized,
                   overlap, missed, window>>

Handle(t) ==
    /\ hsm[t].event # VBlank
    /\ HsmGo(t, "handle", "test")
    /\ HandleEvent(hsm[t].event)

(* The window, or a visualizer with the boxes over it, is drawn.           *)
RenderNormal(t) ==
    /\ hsm[t].event = VBlank
    /\ HsmGo(t, "handle", "test")
    /\ box' = [b \in Boxes |-> Picture(box[b])]
    /\ UNCHANGED <<m_State, panels, texts>>

(* A visualizer has the screen for itself, or is given it or loses it.     *)
RenderNothing(t) ==
    /\ hsm[t].event = VBlank
    /\ HsmGo(t, "handle", "test")
    /\ UNCHANGED window

HsmStep(t) ==
    \/ TestActive(t) \/ ReceiveMbx(t) \/ Handle(t)
    \/ RenderNormal(t) \/ RenderNothing(t)

-----------------------------------------------------------------------------
MainCalls ==
    \/ Activate \/ OnCurrentContainerSideChange \/ DisplayContainersAndElements
    \/ \E b \in Boxes : DisplayMessage(b)
    \/ GiveUpExclusiveAccess \/ ChangeSkin \/ Terminate

MainSteps ==
    \/ Dispatch \/ Initialize \/ StartThread
    \/ Deactivate \/ CancelReceive \/ WaitThreadEnd

RenderStep == RenderExits \/ RenderTests \/ RenderSends

Next ==
    \/ MainCalls \/ MainSteps
    \/ RenderStep
    \/ \E t \in Threads : HsmStep(t)

Spec == Init /\ [][Next]_vars

(* A call goes on, and so do the threads; nobody has to call.              *)
FairSpec ==
    /\ Spec
    /\ WF_vars(MainSteps) /\ WF_vars(RenderStep)
    /\ \A t \in Threads : WF_vars(HsmStep(t))

-----------------------------------------------------------------------------
TypeOK ==
    /\ main \in {"initialize", "start", "run", "terminate", "cancel", "join", "gone"}
    /\ calls \in 0..MaxCalls
    /\ asked.state \in States \ {<<>>}
    /\ m_state \in {"NOT_ACTIVE", "ACTIVE"}
    /\ render \in {"loop", "send", "ended"}
    /\ Len(mbx) <= MaxThreads
    /\ \A t \in Threads : hsm[t].pc \in
           {"none", "test", "receive", "wait", "handle", "ended"}
    /\ m_State \in States
    /\ panels \in [Panels -> {"max", "right", "bottom"}]
    /\ texts \in [Panels -> 0..(MaxCalls + MaxThreads)]
    /\ \A b \in Boxes :
           /\ box[b].state \in {"HIDE", "SHOWING", "SHOW", "HIDING"}
           /\ box[b].opacity \in 0..Fade /\ box[b].time \in 0..Hold
           /\ box[b].text \in 0..MaxCalls

(* When all is handled that the main thread has sent, the window shows     *)
(* what it asked for last: that screen and side, and no other panel, the   *)
(* texts sent since the screen was activated, and in a box the last error  *)
(* or message, unless one was lost in a message box that was replaced; and *)
(* unless the machine was initialised again while a thread was at work.    *)
Settled ==
    /\ main = "run" /\ todo = <<>> /\ mbx[HSMMessagebox] = <<>>
    /\ \A t \in Threads : hsm[t].pc # "handle"

ShowsWhatIsAsked ==
    Settled /\ ~overlap =>
        /\ m_State = asked.state
        /\ \A p \in Panels :
               /\ panels[p] = "max" <=> p = asked.state
               /\ asked.texts[p] # 0 => texts[p] = asked.texts[p]
        /\ HSMMessagebox = 1 => \A b \in Boxes : box[b].text = buffer[b]

(* One thread at a time is at work in the state machine, and none when it  *)
(* is deleted, unless it was initialised again while a thread was at work. *)
AtWork == {t \in Threads : hsm[t].pc = "handle"}

OneAtWork ==
    overlap \/ /\ Cardinality(AtWork) <= 1
               /\ main = "gone" => AtWork = {}

(* The interface can be unloaded: its destructor ends, unless the thread   *)
(* had found itself active and was not yet waiting when Receive was        *)
(* cancelled; then both wait for ever.                                     *)
DestructorEnds == main = "terminate" ~> main = "gone" \/ missed

===============================================================================
