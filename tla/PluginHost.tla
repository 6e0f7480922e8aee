----------------------------- MODULE PluginHost -----------------------------
(***************************************************************************)
(* The plugins and the program that loads them: the user interface, which  *)
(* is a plugin that the main thread calls all the time and can replace     *)
(* while it runs (CScreenHandler::StartUI), the servers and applications   *)
(* with threads of their own, and who gets the keys: the radio, or a       *)
(* plugin with exclusive access (PSPRadio.cpp, PSPRadio_Exports.cpp,       *)
(* ScreenHandler/OptionsPluginMenuScreen.cpp, SharedLib/PSPApp/PSPApp.cpp).*)
(*                                                                         *)
(* m_UI is set by LoadPlugin at once and set again by an event that        *)
(* StartUI sends, handled after all that is already queued.  The thread    *)
(* Run sends up to four events in a pass: a key, the time, the battery and *)
(* a key of the remote control.  It tests m_Polling and m_StopKeyLatch one *)
(* after the other as a pass begins, and never again in it.  The queue is  *)
(* that of EventQ as meant.  Of a key only what its handler does is kept,  *)
(* and a key is taken to concern a screen, so that its handler uses m_UI.  *)
(* Once a null pointer or the pointer to a deleted UI is used nothing more *)
(* is said.                                                                *)
(***************************************************************************)
EXTENDS Naturals, Sequences

CONSTANTS
    MaxUI,       \* bound: how many UI objects are made
    MaxPlugins,  \* bound: how many other plugins are loaded
    MaxLoads,    \* bound: how many of both together
    MaxEvents    \* bound: Run finds something only while fewer events are queued

ASSUME PluginHostAssumption ==
    MaxUI \in Nat /\ MaxPlugins \in Nat /\ MaxLoads \in Nat /\ MaxEvents \in Nat

(* plugin_type as far as it matters: with exclusive access, or without.    *)
Types == {"APP", "FSS"}

VARIABLES
    m_UI,           \* the UI object the program calls, 0 for NULL
    live,           \* the UI object that exists, 0 for none
    uis,            \* how many have been made
    queue,          \* events sent to the main thread
    main,           \* the main thread: in Receive or within StartUI
    wasPolling,     \* StartUI's local variable
    m_Polling,
    m_StopKeyLatch,
    run,            \* the thread Run: "idle", or what it does next in its pass
    loaded,         \* m_ModuleLoader[t]: the plugin it holds, 0 for none
    type,           \* of each plugin loaded so far
    thread,         \* where the plugin's own thread is
    m_ExclusiveAccessPluginType,
    wreck           \* who has called through what pointer, <<>> so far

uiVars == <<m_UI, live, uis, main, wasPolling, m_Polling>>
pluginVars == <<loaded, type, thread>>
accessVars == <<m_StopKeyLatch, m_ExclusiveAccessPluginType>>
vars == <<uiVars, pluginVars, accessVars, queue, run, wreck>>

Plugins == 1 .. Len(type)

(* Of a key gap says when Run sent it: a history variable, which no action *)
(* reads.                                                                  *)
Event ==
    [id : {"status", "combo", "giveup"}] \cup [id : {"key"}, gap : BOOLEAN]
        \cup [id : {"ui"}, ui : 0 .. MaxUI] \cup [id : {"exited"}, type : Types]

(* CPSPRadio's constructors, up to Setup_UI: its StartUI finds no UI yet   *)
(* and goes on to load one.                                                *)
Init ==
    /\ m_UI = 0
    /\ live = 0
    /\ uis = 0
    /\ queue = <<>>
    /\ main = "load"
    /\ wasPolling = FALSE
    /\ m_Polling = FALSE
    /\ m_StopKeyLatch = FALSE
    /\ run = "idle"
    /\ loaded = [t \in Types |-> 0]
    /\ type = <<>>
    /\ thread = <<>>
    /\ m_ExclusiveAccessPluginType = "none"
    /\ wreck = <<>>

-----------------------------------------------------------------------------
(* Using the UI.                                                           *)

Alive == wreck = <<>>

UIThere == m_UI # 0 /\ m_UI = live

(* A call through m_UI, by the main thread or a plugin's, that does not    *)
(* lead to the UI that exists.                                             *)
Fall(who) ==
    /\ ~UIThere
    /\ wreck' = <<who, IF m_UI = 0 THEN "null" ELSE "deleted">>

Take(id) == Alive /\ main = "receive" /\ queue # <<>> /\ Head(queue).id = id

(* The handler of a key whose screen calls the UI.                         *)
KeyTo == Take("key") /\ UIThere

(* Such a handler when there is no UI, or a deleted one.                   *)
KeyFalls ==
    /\ Take("key")
    /\ Fall("main")
    /\ queue' = Tail(queue)
    /\ UNCHANGED <<uiVars, pluginVars, accessVars, run>>

(* Another screen, another line: the UI draws.                             *)
Navigate ==
    /\ KeyTo
    /\ queue' = Tail(queue)
    /\ UNCHANGED <<uiVars, pluginVars, accessVars, run, wreck>>

(* Time and battery, which are shown if m_UI is set.                       *)
ShowStatus ==
    /\ Take("status")
    /\ queue' = Tail(queue)
    /\ IF m_UI = 0 \/ UIThere THEN UNCHANGED wreck ELSE Fall("main")
    /\ UNCHANGED <<uiVars, pluginVars, accessVars, run>>

-----------------------------------------------------------------------------
(* Another UI: OPTION_ID_UI and StartUI.                                   *)

(* The user selects another UI; Sound.Stop then makes the thread wait.     *)
SelectUI ==
    /\ KeyTo
    /\ uis < MaxUI /\ uis + Len(type) < MaxLoads
    /\ queue' = Tail(queue)
    /\ main' = "stop"
    /\ UNCHANGED <<m_UI, live, uis, wasPolling, m_Polling, pluginVars, accessVars, run, wreck>>

(* Stop has returned: StartUI has m_UI set to NULL, by an event, ...       *)
AnnounceNone ==
    /\ Alive
    /\ main = "stop"
    /\ main' = "announced"
    /\ wasPolling' = m_Polling
    /\ queue' = IF m_Polling THEN Append(queue, [id |-> "ui", ui |-> 0]) ELSE queue
    /\ UNCHANGED <<m_UI, live, uis, m_Polling, pluginVars, accessVars, run, wreck>>

(* Mutant: m_Polling is left alone.                                        *)
KeepPolling ==
    /\ Alive
    /\ main = "announced"
    /\ main' = "wait"
    /\ UNCHANGED <<m_UI, live, uis, wasPolling, m_Polling, queue, pluginVars, accessVars,
                   run, wreck>>

(* ... and stops the polling.                                              *)
StopPolling ==
    /\ Alive
    /\ main = "announced"
    /\ main' = "wait"
    /\ m_Polling' = FALSE
    /\ UNCHANGED <<m_UI, live, uis, wasPolling, queue, pluginVars, accessVars, run, wreck>>

(* UnloadPlugin(PLUGIN_UI), after StopPolling has waited for 50 ms, which  *)
(* is long enough for a pass of Run to end: the UI is deleted, and then    *)
(* m_UI is cleared.                                                        *)
UnloadUI ==
    /\ Alive
    /\ main = "wait"
    /\ run = "idle"
    /\ main' = "clear"
    /\ live' = 0
    /\ UNCHANGED <<m_UI, uis, wasPolling, m_Polling, queue, pluginVars, accessVars, run, wreck>>

ClearUI ==
    /\ Alive
    /\ main = "clear"
    /\ main' = "load"
    /\ m_UI' = 0
    /\ UNCHANGED <<live, uis, wasPolling, m_Polling, queue, pluginVars, accessVars, run, wreck>>

(* Mutant: the event with the new address is forgotten.                    *)
LoadUIOnly ==
    /\ Alive
    /\ main = "load"
    /\ uis < MaxUI
    /\ uis' = uis + 1
    /\ live' = uis + 1
    /\ m_UI' = uis + 1
    /\ main' = "receive"
    /\ m_Polling' = TRUE
    /\ UNCHANGED <<wasPolling, queue, pluginVars, accessVars, run, wreck>>

(* Mutant: the polling is not started again.                               *)
LoadUIDeaf ==
    /\ Alive
    /\ main = "load"
    /\ uis < MaxUI
    /\ uis' = uis + 1
    /\ live' = uis + 1
    /\ m_UI' = uis + 1
    /\ main' = "receive"
    /\ queue' = IF wasPolling THEN Append(queue, [id |-> "ui", ui |-> uis + 1]) ELSE queue
    /\ m_Polling' = ~wasPolling
    /\ UNCHANGED <<wasPolling, pluginVars, accessVars, run, wreck>>

(* LoadPlugin(PLUGIN_UI) makes the new object, which is initialized.       *)
(* StartUI sends its address and starts the polling; the first time        *)
(* ProcessEvents does the latter.                                          *)
LoadUI ==
    /\ Alive
    /\ main = "load"
    /\ uis < MaxUI
    /\ uis' = uis + 1
    /\ live' = uis + 1
    /\ m_UI' = uis + 1
    /\ main' = "receive"
    /\ queue' = IF wasPolling THEN Append(queue, [id |-> "ui", ui |-> uis + 1]) ELSE queue
    /\ m_Polling' = TRUE
    /\ UNCHANGED <<wasPolling, pluginVars, accessVars, run, wreck>>

(* It fails; StartUI does not look and calls m_UI->Initialize.             *)
LoadUIFails ==
    /\ Alive
    /\ main = "load"
    /\ Fall("main")
    /\ UNCHANGED <<uiVars, queue, pluginVars, accessVars, run>>

(* EID_NEW_UI_POINTER.                                                     *)
NewUIPointer ==
    /\ Take("ui")
    /\ m_UI' = Head(queue).ui
    /\ queue' = Tail(queue)
    /\ UNCHANGED <<live, uis, main, wasPolling, m_Polling, pluginVars, accessVars, run, wreck>>

(* OPTION_ID_SKIN: StartUI only has the same UI start over.                *)
SelectSkin ==
    /\ KeyTo
    /\ queue' = Append(Tail(queue), [id |-> "giveup"])
    /\ UNCHANGED <<uiVars, pluginVars, accessVars, run, wreck>>

-----------------------------------------------------------------------------
(* The other plugins.                                                      *)

(* UnloadPlugin(t): the module is stopped and unloaded and its thread ends *)
(* with it.  Stopping takes a second, in which a thread that is about to   *)
(* end sends what it still has to send.                                    *)
Unloadable(t) == loaded[t] # 0 => thread[loaded[t]] # "leave"

Unloaded(t) == [i \in Plugins |-> IF i = loaded[t] THEN "gone" ELSE thread[i]]

UnloadPlugin(t) ==
    /\ Unloadable(t)
    /\ loaded' = [loaded EXCEPT ![t] = 0]
    /\ thread' = Unloaded(t)
    /\ UNCHANGED type

(* LoadPlugin(t), which unloads what is there; an application's thread     *)
(* goes on to ask for exclusive access.                                    *)
LoadPlugin(t) ==
    /\ Unloadable(t)
    /\ Len(type) < MaxPlugins /\ uis + Len(type) < MaxLoads
    /\ loaded' = [loaded EXCEPT ![t] = Len(type) + 1]
    /\ type' = Append(type, t)
    /\ thread' = Append(Unloaded(t), IF t = "APP" THEN "ask" ELSE "run")

(* The user has a plugin started, which may fail, or stopped.              *)
StartPlugin(t) ==
    /\ KeyTo
    /\ LoadPlugin(t)
    /\ queue' = Tail(queue)
    /\ UNCHANGED <<uiVars, accessVars, run, wreck>>

StopPlugin(t) ==
    /\ KeyTo
    /\ UnloadPlugin(t)
    /\ queue' = Tail(queue)
    /\ UNCHANGED <<uiVars, accessVars, run, wreck>>

(* ModuleContinueApp calls PSPRadioExport_RequestExclusiveAccess on the    *)
(* main thread.                                                            *)
ContinueApp ==
    /\ KeyTo
    /\ loaded["APP"] # 0
    /\ thread[loaded["APP"]] \in {"run", "back"}
    /\ thread' = [thread EXCEPT ![loaded["APP"]] = "run"]
    /\ m_StopKeyLatch' = TRUE
    /\ m_ExclusiveAccessPluginType' = "APP"
    /\ queue' = Tail(queue)
    /\ UNCHANGED <<uiVars, loaded, type, run, wreck>>

(* MID_PLUGINEXITED names the type, not the plugin.                        *)
PluginExited ==
    /\ Take("exited")
    /\ UnloadPlugin(Head(queue).type)
    /\ queue' = Tail(queue)
    /\ UNCHANGED <<uiVars, accessVars, run, wreck>>

(* Mutant: the key latch is not started again.                             *)
GiveUpQuietly ==
    /\ Take("giveup")
    /\ queue' = Tail(queue)
    /\ IF m_UI = 0 \/ UIThere THEN UNCHANGED wreck ELSE Fall("main")
    /\ UNCHANGED <<uiVars, pluginVars, m_StopKeyLatch, m_ExclusiveAccessPluginType, run>>

(* MID_GIVEUPEXCLISIVEACCESS: the UI draws again and the keys come back.   *)
GiveUp ==
    /\ Take("giveup")
    /\ queue' = Tail(queue)
    /\ \/ /\ m_UI = 0 \/ UIThere
          /\ m_StopKeyLatch' = FALSE
          /\ UNCHANGED wreck
       \/ /\ m_UI # 0
          /\ Fall("main")
          /\ UNCHANGED m_StopKeyLatch
    /\ UNCHANGED <<uiVars, pluginVars, m_ExclusiveAccessPluginType, run>>

(* MID_KEY_LATCH_ENABLED_WITH_KEY_COMBO: the plugin is killed.             *)
KillPlugin ==
    /\ Take("combo")
    /\ IF m_ExclusiveAccessPluginType = "none"
         THEN UNCHANGED pluginVars
         ELSE UnloadPlugin(m_ExclusiveAccessPluginType)
    /\ queue' = Append(Tail(queue), [id |-> "giveup"])
    /\ UNCHANGED <<uiVars, accessVars, run, wreck>>

-----------------------------------------------------------------------------
(* The threads of the plugins.                                             *)

At(i, pc) == Alive /\ thread[i] = pc

Goes(i, pc) == thread' = [thread EXCEPT ![i] = pc]

(* PSPRadioExport_RequestExclusiveAccess: m_UI is tested, ...              *)
RequestAccess(i) ==
    /\ At(i, "ask")
    /\ Goes(i, IF m_UI = 0 THEN "latch" ELSE "freeze")
    /\ UNCHANGED <<uiVars, loaded, type, accessVars, queue, run, wreck>>

(* ... read again and called, ...                                          *)
FreezeUI(i) ==
    /\ At(i, "freeze")
    /\ IF UIThere THEN UNCHANGED wreck ELSE Fall("plugin")
    /\ Goes(i, "latch")
    /\ UNCHANGED <<uiVars, loaded, type, accessVars, queue, run>>

(* ... the key latch stopped ...                                           *)
StopLatch(i) ==
    /\ At(i, "latch")
    /\ Goes(i, "mark")
    /\ m_StopKeyLatch' = TRUE
    /\ UNCHANGED <<uiVars, loaded, type, m_ExclusiveAccessPluginType, queue, run, wreck>>

(* ... and the type noted, for the key combination.                        *)
MarkType(i) ==
    /\ At(i, "mark")
    /\ Goes(i, "run")
    /\ m_ExclusiveAccessPluginType' = type[i]
    /\ UNCHANGED <<uiVars, loaded, type, m_StopKeyLatch, queue, run, wreck>>

(* The user switches from the application to the radio.                    *)
SwitchToRadio(i) ==
    /\ At(i, "run")
    /\ type[i] = "APP"
    /\ Goes(i, "back")
    /\ queue' = Append(queue, [id |-> "giveup"])
    /\ UNCHANGED <<uiVars, loaded, type, accessVars, run, wreck>>

(* PSPRadioExport_PluginExits: the application or server ends by itself,   *)
(* and gives up access whether it had it or not.                           *)
Exit(i) ==
    /\ At(i, "run")
    /\ Goes(i, "leave")
    /\ queue' = Append(queue, [id |-> "exited", type |-> type[i]])
    /\ UNCHANGED <<uiVars, loaded, type, accessVars, run, wreck>>

ExitGivesUp(i) ==
    /\ At(i, "leave")
    /\ Goes(i, "gone")
    /\ queue' = Append(queue, [id |-> "giveup"])
    /\ UNCHANGED <<uiVars, loaded, type, accessVars, run, wreck>>

-----------------------------------------------------------------------------
(* The thread Run.                                                         *)

(* It finds m_Polling set, ...                                             *)
Poll ==
    /\ Alive
    /\ run = "idle"
    /\ m_Polling
    /\ Len(queue) < MaxEvents
    /\ run' = "latch"
    /\ UNCHANGED <<uiVars, pluginVars, accessVars, queue, wreck>>

(* What it may send next in the pass, having come to p.                    *)
After(p) ==
    CASE p \in {"key", "combo"} -> {"time", "remote", "idle"}
      [] p = "time"            -> {"battery", "remote", "idle"}
      [] p = "battery"         -> {"remote", "idle"}
      [] p = "remote"          -> {"idle"}

(* ... and the key latch running, or stopped: it looks for a key, or for   *)
(* the key combination.                                                    *)
ReadKeys ==
    /\ Alive
    /\ run = "latch"
    /\ run' \in IF m_StopKeyLatch THEN {"combo"} \cup After("combo")
                                  ELSE {"key"} \cup After("key")
    /\ UNCHANGED <<uiVars, pluginVars, accessVars, queue, wreck>>

Sends(p, e) ==
    /\ Alive
    /\ run = p
    /\ run' \in After(p)
    /\ queue' = Append(queue, e)
    /\ UNCHANGED <<uiVars, pluginVars, accessVars, wreck>>

(* Between StartUI's event that clears m_UI and the end of StopPolling.    *)
InTheGap == main \in {"announced", "wait"}

(* The key, or that of the remote control.                                 *)
SendKey ==
    \E p \in {"key", "remote"} : Sends(p, [id |-> "key", gap |-> InTheGap])

(* The time, once a minute, and then the battery.                          *)
SendStatus ==
    \E p \in {"time", "battery"} : Sends(p, [id |-> "status"])

(* The combination was pressed: the latch is started ...                   *)
ComboDone ==
    /\ Alive
    /\ run = "combo"
    /\ run' = "send"
    /\ m_StopKeyLatch' = FALSE
    /\ UNCHANGED <<uiVars, pluginVars, m_ExclusiveAccessPluginType, queue, wreck>>

(* ... and the event sent.                                                 *)
SendCombo ==
    /\ Alive
    /\ run = "send"
    /\ run' \in After("combo")
    /\ queue' = Append(queue, [id |-> "combo"])
    /\ UNCHANGED <<uiVars, pluginVars, accessVars, wreck>>

-----------------------------------------------------------------------------
MainStep ==
    \/ KeyFalls
    \/ Navigate
    \/ ShowStatus
    \/ SelectUI
    \/ AnnounceNone
    \/ StopPolling
    \/ UnloadUI
    \/ ClearUI
    \/ LoadUI
    \/ LoadUIFails
    \/ NewUIPointer
    \/ SelectSkin
    \/ \E t \in Types : StartPlugin(t)
    \/ \E t \in Types : StopPlugin(t)
    \/ ContinueApp
    \/ PluginExited
    \/ GiveUp
    \/ KillPlugin

PassStep == ReadKeys \/ SendKey \/ SendStatus \/ ComboDone \/ SendCombo

RunStep == Poll \/ PassStep

Next ==
    \/ MainStep
    \/ RunStep
    \/ \E i \in Plugins : RequestAccess(i)
    \/ \E i \in Plugins : FreezeUI(i)
    \/ \E i \in Plugins : StopLatch(i)
    \/ \E i \in Plugins : MarkType(i)
    \/ \E i \in Plugins : SwitchToRadio(i)
    \/ \E i \in Plugins : Exit(i)
    \/ \E i \in Plugins : ExitGivesUp(i)

Spec == Init /\ [][Next]_vars

(* The main thread goes on, Run ends its passes, and a thread that has     *)
(* begun to exit ends.  Nobody has to press keys or end a plugin.          *)
FairSpec ==
    /\ Spec
    /\ WF_vars(MainStep)
    /\ WF_vars(PassStep)
    /\ \A i \in 1 .. MaxPlugins : WF_vars(i \in Plugins /\ ExitGivesUp(i))

-----------------------------------------------------------------------------
(* What holds.                                                             *)

(* Every variable keeps its type, and live is the last object made, or     *)
(* none while StartUI has none.                                            *)
TypeOK ==
    /\ m_UI \in 0 .. MaxUI
    /\ live \in 0 .. MaxUI
    /\ uis \in 0 .. MaxUI
    /\ queue \in Seq(Event)
    /\ main \in {"receive", "stop", "announced", "wait", "clear", "load"}
    /\ wasPolling \in BOOLEAN
    /\ m_Polling \in BOOLEAN
    /\ m_StopKeyLatch \in BOOLEAN
    /\ run \in {"idle", "latch", "key", "combo", "send", "time", "battery", "remote"}
    /\ type \in Seq(Types)
    /\ Len(type) <= MaxPlugins
    /\ loaded \in [Types -> 0 .. Len(type)]
    /\ thread \in [Plugins -> {"ask", "freeze", "latch", "mark", "run", "back", "leave", "gone"}]
    /\ m_ExclusiveAccessPluginType \in Types \cup {"none"}
    /\ wreck \in {<<>>} \cup ({"main", "plugin"} \X {"null", "deleted"})
    /\ live = IF main \in {"clear", "load"} THEN 0 ELSE uis

IsPointer(q, k) == q[k].id = "ui"

(* However many switches follow each other, the last of the pointers sent, *)
(* or m_UI if all have been handled, is that of the UI that exists.        *)
PointerSettles ==
    Alive /\ main = "receive" =>
        /\ \A k \in DOMAIN queue :
               IsPointer(queue, k) /\ (\A j \in DOMAIN queue : IsPointer(queue, j) => j <= k) =>
                   queue[k].ui = live
        /\ (\A k \in DOMAIN queue : ~IsPointer(queue, k)) => m_UI = live

(* m_UI is NULL when the k-th event of the queue is handled.               *)
NullAt(k) ==
    \/ m_UI = 0 /\ \A j \in 1 .. k - 1 : ~IsPointer(queue, j)
    \/ \E j \in 1 .. k - 1 :
           /\ IsPointer(queue, j) /\ queue[j].ui = 0
           /\ \A l \in j + 1 .. k - 1 : ~IsPointer(queue, l)

(* However many events Run sends in a pass and however many switches       *)
(* follow each other, a key is handled while m_UI is NULL only if Run has  *)
(* sent it between the event that clears m_UI and the end of the wait in   *)
(* StopPolling: what was sent before has a UI, and nothing falls between   *)
(* the wait and the event with the new pointer.                            *)
KeysMeetAUI ==
    Alive /\ main = "receive" =>
        \A k \in DOMAIN queue : queue[k].id = "key" /\ NullAt(k) => queue[k].gap

(* The polling that a switch stops is started again, unless there is no UI *)
(* to call.                                                                *)
PollingResumes == ~m_Polling ~> m_Polling \/ ~Alive

(* A plugin that gives up access, or is killed, gives the keys back.       *)
KeysComeBack ==
    (\E k \in DOMAIN queue : queue[k].id \in {"giveup", "combo"}) ~>
        ~m_StopKeyLatch \/ ~Alive

=============================================================================
