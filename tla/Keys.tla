--------------------------------- MODULE Keys ---------------------------------
(***************************************************************************)
(* From buttons to events: CPSPKeyHandler (SharedLib/PSPApp/               *)
(* PSPKeyHandler.cpp) and the part of CPSPApp::Run (PSPApp.cpp) that calls *)
(* it or, while a plugin has the keys, looks for the key combination.      *)
(* The firmware collects in a latch what was pressed and let go since it   *)
(* was read last.  Run passes once per picture, or later (m_Polling):      *)
(* buttons move freely between two passes.                                 *)
(*                                                                         *)
(* Another thread's StopKeyLatch and the main thread's StartKeyLatch are   *)
(* two assignments each, and Run may pass between them.  They in turn may  *)
(* fall between the steps of a pass that has found the flag set.  A pass   *)
(* that has not found it set no longer looks at what they assign, and is   *)
(* one step.  Remote control, clock and battery, which Run reads too, are  *)
(* left out.                                                               *)
(*                                                                         *)
(* Of the firmware it is assumed that uiPress, which the code takes for    *)
(* the buttons that are down, is what is held when the latch is read.      *)
(***************************************************************************)
EXTENDS Naturals

CONSTANTS
    Buttons,
    Ignored,      \* HOLD and HOME, which do not repeat
    ResumeCombo,  \* START, L and R
    Interval,     \* KEYHANDLER_REPEAT_INTERVAL
    LongPress,    \* KEYHANDLER_LONG_PRESS
    MaxTime       \* bound: how long a button is watched

ASSUME KeysAssumption ==
    /\ Ignored \subseteq Buttons /\ ResumeCombo \subseteq Buttons
    /\ Interval \in Nat /\ LongPress \in Nat /\ MaxTime \in Nat

VARIABLES
    held,         \* buttons that are down
    uiMake,       \* pressed since the latch was read
    uiBreak,      \* let go since then
    stm_var,
    m_stored_keystate,
    m_tick_trigger,   \* the time that is left until then
    m_long_press,
    event,        \* what the last pass has sent, and of which buttons
    m_StopKeyLatch, m_KeyComboToResumeKeyLatch,
    half,         \* StopKeyLatch and StartKeyLatch calls half done
    crossed,      \* history: the last of these calls began within another
    pass,         \* where Run is, what it saw, history: whether they met
    pressedFor    \* bounds the time since the buttons were stored last

pad     == <<held, uiMake, uiBreak>>
handler == <<stm_var, m_stored_keystate, m_tick_trigger, m_long_press>>
latch   == <<m_StopKeyLatch, m_KeyComboToResumeKeyLatch, half, crossed>>
keysVars == <<pad, handler, latch, pass, event, pressedFor>>

Nothing == [id |-> "nothing", keys |-> {}]

Waits == [pc |-> "waits", seen |-> {}, met |-> FALSE]

KeysInit ==
    /\ held = {} /\ uiMake = {} /\ uiBreak = {}
    /\ stm_var = "IDLE" /\ m_stored_keystate = {}
    /\ m_tick_trigger = 0 /\ m_long_press = 0
    /\ event = Nothing
    /\ m_StopKeyLatch = FALSE /\ m_KeyComboToResumeKeyLatch = {}
    /\ half = {} /\ crossed = FALSE
    /\ pass = Waits
    /\ pressedFor = 0

-----------------------------------------------------------------------------
(* The user, the firmware's latch and the clock.                           *)

Press(b) ==
    /\ b \notin held
    /\ held' = held \cup {b}
    /\ uiMake' = uiMake \cup {b}
    /\ UNCHANGED <<uiBreak, handler, latch, pass, event, pressedFor>>

LetGo(b) ==
    /\ b \in held
    /\ held' = held \ {b}
    /\ uiBreak' = uiBreak \cup {b}
    /\ UNCHANGED <<uiMake, handler, latch, pass, event, pressedFor>>

(* Nobody looks at the clock in IDLE.                                      *)
Tick ==
    /\ stm_var = "PRESSED"
    /\ pressedFor < MaxTime
    /\ pressedFor' = pressedFor + 1
    /\ m_tick_trigger' = IF m_tick_trigger > 0 THEN m_tick_trigger - 1 ELSE 0
    /\ UNCHANGED <<pad, stm_var, m_stored_keystate, m_long_press, latch, pass, event>>

-----------------------------------------------------------------------------
(* A pass of Run that reads the latch.                                     *)

SendEvent(id, keys) == event' = [id |-> id, keys |-> keys]

Store(keys, count, trigger) ==
    /\ m_stored_keystate' = keys
    /\ m_long_press' = count
    /\ m_tick_trigger' = trigger
    /\ pressedFor' = 0

(* Mutant: a second button does not change what is stored.                 *)
KeyHandlerStoreOnce ==
    Store(IF stm_var = "IDLE" THEN held ELSE m_stored_keystate, 0, Interval)

KeyHandlerStore == Store(held, 0, Interval)

Pressed ==
    /\ uiMake # {}
    /\ KeyHandlerStore
    /\ SendEvent("PRESSED", held)
    /\ stm_var' = "PRESSED"

Release(next) ==
    /\ uiMake = {} /\ uiBreak # {}
    /\ stm_var = "PRESSED"
    /\ m_tick_trigger' = 0
    /\ SendEvent(IF m_long_press >= LongPress THEN "LONG_PRESS" ELSE "RELEASED",
                 m_stored_keystate)
    /\ stm_var' = next
    /\ UNCHANGED <<m_stored_keystate, m_long_press, pressedFor>>

(* Mutant: no transition.                                                  *)
ReleasedStays == Release("PRESSED")

Released == Release("IDLE")

Repeat ==
    /\ uiMake = {} /\ uiBreak = {} /\ held \ Ignored # {}
    /\ stm_var = "PRESSED"
    /\ m_tick_trigger = 0
    /\ m_long_press' = m_long_press + 1
    /\ m_tick_trigger' = Interval
    /\ SendEvent("REPEAT", m_stored_keystate)
    /\ UNCHANGED <<stm_var, m_stored_keystate, pressedFor>>

Quiet ==
    /\ uiMake = {}
    /\ \/ stm_var = "IDLE"
       \/ uiBreak = {} /\ (held \subseteq Ignored \/ m_tick_trigger > 0)
    /\ event' = Nothing
    /\ UNCHANGED <<handler, pressedFor>>

(* sceCtrlReadLatch.                                                       *)
ReadLatch ==
    /\ uiMake' = {} /\ uiBreak' = {}
    /\ UNCHANGED held

KeyHandler ==
    /\ pass = Waits /\ ~m_StopKeyLatch
    /\ Pressed \/ Released \/ Repeat \/ Quiet
    /\ ReadLatch
    /\ UNCHANGED <<latch, pass>>

-----------------------------------------------------------------------------
(* A pass while a plugin has the keys.                                     *)

(* The buttons may as well be read when the flag is.                       *)
LookForCombo ==
    /\ pass = Waits /\ m_StopKeyLatch
    /\ pass' = [pc |-> "compare", seen |-> held, met |-> "stop" \in half \/ crossed]
    /\ event' = Nothing
    /\ UNCHANGED <<pad, handler, latch, pressedFor>>

(* Mutant: any button of the combination will do.                          *)
ComboDoneByOne == m_KeyComboToResumeKeyLatch \cap pass.seen # {}

ComboDone == m_KeyComboToResumeKeyLatch \subseteq pass.seen

Compare ==
    /\ pass.pc = "compare"
    /\ pass' = IF ComboDone THEN [pass EXCEPT !.pc = "resume"] ELSE Waits
    /\ UNCHANGED <<pad, handler, latch, event, pressedFor>>

ResumeKeys ==
    /\ pass.pc = "resume"
    /\ pass' = [pass EXCEPT !.pc = "send"]
    /\ m_StopKeyLatch' = FALSE
    /\ UNCHANGED <<pad, handler, m_KeyComboToResumeKeyLatch, half, crossed,
                   event, pressedFor>>

SendCombo ==
    /\ pass.pc = "send"
    /\ pass' = Waits
    /\ SendEvent("COMBO", pass.seen)
    /\ UNCHANGED <<pad, handler, latch, pressedFor>>

-----------------------------------------------------------------------------
(* The other threads: flag first, then combination.                        *)

Meets == pass' = [pass EXCEPT !.met = pass # Waits]

Assign(call, flag) ==
    /\ call \notin half
    /\ half' = half \cup {call}
    /\ crossed' = (half # {})
    /\ m_StopKeyLatch' = flag
    /\ Meets
    /\ UNCHANGED <<pad, handler, m_KeyComboToResumeKeyLatch, event, pressedFor>>

Complete(call, combo) ==
    /\ call \in half
    /\ half' = half \ {call}
    /\ m_KeyComboToResumeKeyLatch' = combo
    /\ Meets
    /\ UNCHANGED <<pad, handler, m_StopKeyLatch, crossed, event, pressedFor>>

StopKeyLatch  == Assign("stop", TRUE) \/ Complete("stop", ResumeCombo)
StartKeyLatch == Assign("start", FALSE) \/ Complete("start", {})

-----------------------------------------------------------------------------
KeysNext ==
    \/ \E b \in Buttons : Press(b) \/ LetGo(b)
    \/ Tick
    \/ KeyHandler
    \/ LookForCombo \/ Compare \/ ResumeKeys \/ SendCombo
    \/ StopKeyLatch
    \/ StartKeyLatch

KeysSpec == KeysInit /\ [][KeysNext]_keysVars

-----------------------------------------------------------------------------
KeysTypeOK ==
    /\ held \subseteq Buttons /\ uiMake \subseteq Buttons /\ uiBreak \subseteq Buttons
    /\ stm_var \in {"IDLE", "PRESSED"}
    /\ m_stored_keystate \subseteq Buttons
    /\ m_tick_trigger \in 0..Interval
    /\ m_long_press \in Nat
    /\ event.id \in {"nothing", "PRESSED", "RELEASED", "LONG_PRESS", "REPEAT", "COMBO"}
    /\ event.keys \subseteq Buttons
    /\ m_StopKeyLatch \in BOOLEAN
    /\ m_KeyComboToResumeKeyLatch \in {{}, ResumeCombo}
    /\ half \subseteq {"stop", "start"} /\ crossed \in BOOLEAN
    /\ pass \in [pc : {"waits", "compare", "resume", "send"},
                  seen : SUBSET Buttons, met : BOOLEAN]
    /\ pressedFor \in 0..MaxTime

(* The program acts on the buttons that a release names: what is let go,   *)
(* or is still to be, is among those that were stored, unless a newer      *)
(* press is about to store others; whatever came between two passes.       *)
ReleaseNamesTheKeys ==
    stm_var = "PRESSED" /\ uiMake = {} => held \cup uiBreak \subseteq m_stored_keystate

(* A press is followed by its release.  The handler is left behind in      *)
(* PRESSED, with nothing more to come, only by a button that came and went *)
(* between two passes, and that one it has not stored.                     *)
StuckOnlyAfterTap ==
    stm_var = "PRESSED" /\ held = {} /\ uiMake = {} /\ uiBreak = {}
        => m_stored_keystate = {}

(* "Key combo done" (PSPApp.cpp): Run takes the keys back from the plugin, *)
(* and says so, for which the plugin is killed, when it saw START, L and R *)
(* down; but for a pass that a call has met: StopKeyLatch was half done    *)
(* when it began, a step of StopKeyLatch or StartKeyLatch fell into it, or *)
(* the two had crossed, which may leave the flag set and no combination.   *)
ComboWasPressed ==
    pass.pc \in {"resume", "send"} => ResumeCombo \subseteq pass.seen \/ pass.met

==============================================================================
