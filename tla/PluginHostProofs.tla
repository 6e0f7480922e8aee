-------------------------- MODULE PluginHostProofs --------------------------
(***************************************************************************)
(* Proofs about the plugins' host, for any number of switches, plugins and *)
(* queued events: the types; that the pointer to the UI comes out right    *)
(* when all events are handled, whatever was queued in between; and that   *)
(* only keys sent while StartUI stops the polling are handled while the    *)
(* pointer is null.                                                        *)
(***************************************************************************)
EXTENDS PluginHost, TLAPS

(* The parts of TypeOK, by what the actions change together.               *)
UITyped ==
    /\ m_UI \in 0 .. MaxUI
    /\ live \in 0 .. MaxUI
    /\ uis \in 0 .. MaxUI
    /\ main \in {"receive", "stop", "announced", "wait", "clear", "load"}
    /\ live = IF main \in {"clear", "load"} THEN 0 ELSE uis

FlagsTyped ==
    /\ wasPolling \in BOOLEAN
    /\ m_Polling \in BOOLEAN
    /\ m_StopKeyLatch \in BOOLEAN

QueueTyped == queue \in Seq(Event)

PluginsTyped ==
    /\ type \in Seq(Types)
    /\ Len(type) <= MaxPlugins
    /\ loaded \in [Types -> 0 .. Len(type)]
    /\ thread \in [Plugins -> {"ask", "freeze", "latch", "mark", "run", "back", "leave", "gone"}]

RestTyped ==
    /\ run \in {"idle", "latch", "key", "combo", "send", "time", "battery", "remote"}
    /\ m_ExclusiveAccessPluginType \in Types \cup {"none"}
    /\ wreck \in {<<>>} \cup ({"main", "plugin"} \X {"null", "deleted"})

LEMMA TypeParts ==
    TypeOK <=> UITyped /\ FlagsTyped /\ QueueTyped /\ PluginsTyped /\ RestTyped
BY DEF TypeOK, UITyped, FlagsTyped, QueueTyped, PluginsTyped, RestTyped

-----------------------------------------------------------------------------
(* Types.                                                                  *)

Places == {"ask", "freeze", "latch", "mark", "run", "back", "leave", "gone"}

LEMMA InitTyped == Init => TypeOK
<1> SUFFICES ASSUME Init PROVE TypeOK
    OBVIOUS
<1> USE PluginHostAssumption DEF PluginHostAssumption, Init
<1>1. UITyped /\ RestTyped
    BY DEF UITyped, RestTyped
<1>f. FlagsTyped
    BY Zenon DEF FlagsTyped
<1>2. QueueTyped
    BY DEF QueueTyped
<1>3. <<>> \in Seq(Places) /\ Len(<<>>) = 0
    OBVIOUS
<1>4. PluginsTyped
  <2>1. <<>> \in [1 .. 0 -> Places]
      BY <1>3
  <2> QED
      BY <2>1, <1>3 DEF PluginsTyped, Plugins, Types, Places
<1> QED
    BY <1>1, <1>f, <1>2, <1>4, TypeParts

(* The steps of the UI and the pointer.                                    *)
LEMMA UIStep == TypeOK /\ [Next]_vars => UITyped'
<1> SUFFICES ASSUME TypeOK, [Next]_vars PROVE UITyped'
    OBVIOUS
<1> USE PluginHostAssumption DEF PluginHostAssumption
<1>0. UITyped /\ QueueTyped
    BY TypeParts
<1>1. CASE UNCHANGED uiVars
    BY <1>0, <1>1 DEF UITyped, uiVars
<1>2. CASE SelectUI
    BY <1>0, <1>2 DEF UITyped, SelectUI, KeyTo, Take
<1>3. CASE AnnounceNone
    BY <1>0, <1>3 DEF UITyped, AnnounceNone
<1>4. CASE UnloadUI
    BY <1>0, <1>4 DEF UITyped, UnloadUI
<1>5. CASE ClearUI
    BY <1>0, <1>5 DEF UITyped, ClearUI
<1>6. CASE LoadUI
    BY <1>0, <1>6 DEF UITyped, LoadUI
<1>7. CASE NewUIPointer
  <2>1. Head(queue) \in Event /\ Head(queue).id = "ui"
      BY <1>0, <1>7 DEF NewUIPointer, Take, QueueTyped
  <2>2. Head(queue).ui \in 0 .. MaxUI
      BY <2>1 DEF Event
  <2> QED
      BY <1>0, <1>7, <2>2 DEF UITyped, NewUIPointer
<1>s. CASE StopPolling
    BY <1>0, <1>s DEF UITyped, StopPolling
<1>8. SelectUI \/ AnnounceNone \/ StopPolling \/ UnloadUI \/ ClearUI \/ LoadUI \/ NewUIPointer
          \/ UNCHANGED uiVars
  <2>1. KeyFalls \/ Navigate \/ ShowStatus \/ LoadUIFails \/ SelectSkin \/ ContinueApp \/ PluginExited
            \/ GiveUp \/ KillPlugin => UNCHANGED uiVars
      BY Zenon DEF KeyFalls, Navigate, ShowStatus, LoadUIFails, SelectSkin, ContinueApp,
            PluginExited, GiveUp, KillPlugin
  <2>2. (\E t \in Types : StartPlugin(t) \/ StopPlugin(t)) => UNCHANGED uiVars
      BY Zenon DEF StartPlugin, StopPlugin
  <2>3. RunStep => UNCHANGED uiVars
      BY Zenon DEF RunStep, PassStep, Poll, ReadKeys, SendKey, SendStatus, Sends,
            ComboDone, SendCombo
  <2>4. (\E i \in Plugins : RequestAccess(i) \/ FreezeUI(i) \/ StopLatch(i) \/ MarkType(i)
            \/ SwitchToRadio(i) \/ Exit(i) \/ ExitGivesUp(i)) => UNCHANGED uiVars
      BY Zenon DEF RequestAccess, FreezeUI, StopLatch, MarkType, SwitchToRadio, Exit, ExitGivesUp
  <2>5. UNCHANGED vars => UNCHANGED uiVars
      BY Zenon DEF vars
  <2> QED
      BY Zenon, <2>1, <2>2, <2>3, <2>4, <2>5 DEF Next, MainStep
<1> QED
    BY <1>1, <1>2, <1>3, <1>4, <1>5, <1>6, <1>7, <1>8, <1>s

LEMMA FlagStep == TypeOK /\ [Next]_vars => FlagsTyped'
<1> SUFFICES ASSUME TypeOK, [Next]_vars PROVE FlagsTyped'
    OBVIOUS
<1>0. FlagsTyped
    BY TypeParts
<1>1. wasPolling' \in {wasPolling, m_Polling}
  <2>1. MainStep => wasPolling' = wasPolling \/ wasPolling' = m_Polling
      BY Zenon DEF MainStep, KeyFalls, Navigate, ShowStatus, SelectUI, AnnounceNone, StopPolling, UnloadUI, ClearUI,
            LoadUI, LoadUIFails, NewUIPointer, SelectSkin, StartPlugin, StopPlugin, ContinueApp,
            PluginExited, GiveUp, KillPlugin, uiVars
  <2>2. RunStep => wasPolling' = wasPolling
      BY Zenon DEF RunStep, PassStep, Poll, ReadKeys, SendKey, SendStatus, Sends,
            ComboDone, SendCombo, uiVars
  <2>3. (\E i \in Plugins : RequestAccess(i) \/ FreezeUI(i) \/ StopLatch(i) \/ MarkType(i)
            \/ SwitchToRadio(i) \/ Exit(i) \/ ExitGivesUp(i)) => wasPolling' = wasPolling
      BY Zenon DEF RequestAccess, FreezeUI, StopLatch, MarkType, SwitchToRadio, Exit, ExitGivesUp, uiVars
  <2>4. UNCHANGED vars => wasPolling' = wasPolling
      BY Zenon DEF vars, uiVars
  <2> QED
      BY Zenon, <2>1, <2>2, <2>3, <2>4 DEF Next
<1>2. m_Polling' \in {m_Polling, TRUE, FALSE}
  <2>1. MainStep => m_Polling' = m_Polling \/ m_Polling' = TRUE \/ m_Polling' = FALSE
      BY Zenon DEF MainStep, KeyFalls, Navigate, ShowStatus, SelectUI, AnnounceNone, StopPolling, UnloadUI, ClearUI,
            LoadUI, LoadUIFails, NewUIPointer, SelectSkin, StartPlugin, StopPlugin, ContinueApp,
            PluginExited, GiveUp, KillPlugin, uiVars
  <2>2. RunStep => m_Polling' = m_Polling
      BY Zenon DEF RunStep, PassStep, Poll, ReadKeys, SendKey, SendStatus, Sends,
            ComboDone, SendCombo, uiVars
  <2>3. (\E i \in Plugins : RequestAccess(i) \/ FreezeUI(i) \/ StopLatch(i) \/ MarkType(i)
            \/ SwitchToRadio(i) \/ Exit(i) \/ ExitGivesUp(i)) => m_Polling' = m_Polling
      BY Zenon DEF RequestAccess, FreezeUI, StopLatch, MarkType, SwitchToRadio, Exit, ExitGivesUp, uiVars
  <2>4. UNCHANGED vars => m_Polling' = m_Polling
      BY Zenon DEF vars, uiVars
  <2> QED
      BY Zenon, <2>1, <2>2, <2>3, <2>4 DEF Next
<1>3. m_StopKeyLatch' \in {m_StopKeyLatch, TRUE, FALSE}
  <2>1. MainStep =>
            m_StopKeyLatch' = m_StopKeyLatch \/ m_StopKeyLatch' = TRUE \/ m_StopKeyLatch' = FALSE
      BY Zenon DEF MainStep, KeyFalls, Navigate, ShowStatus, SelectUI, AnnounceNone, StopPolling, UnloadUI, ClearUI,
            LoadUI, LoadUIFails, NewUIPointer, SelectSkin, StartPlugin, StopPlugin, ContinueApp,
            PluginExited, GiveUp, KillPlugin, accessVars
  <2>2. RunStep => m_StopKeyLatch' = m_StopKeyLatch \/ m_StopKeyLatch' = FALSE
      BY Zenon DEF RunStep, PassStep, Poll, ReadKeys, SendKey, SendStatus, Sends,
            ComboDone, SendCombo, accessVars
  <2>3. (\E i \in Plugins : RequestAccess(i) \/ FreezeUI(i) \/ StopLatch(i) \/ MarkType(i)
            \/ SwitchToRadio(i) \/ Exit(i) \/ ExitGivesUp(i))
            => m_StopKeyLatch' = m_StopKeyLatch \/ m_StopKeyLatch' = TRUE
      BY Zenon DEF RequestAccess, FreezeUI, StopLatch, MarkType, SwitchToRadio, Exit, ExitGivesUp, accessVars
  <2>4. UNCHANGED vars => m_StopKeyLatch' = m_StopKeyLatch
      BY Zenon DEF vars, accessVars
  <2> QED
      BY Zenon, <2>1, <2>2, <2>3, <2>4 DEF Next
<1> QED
    BY Zenon, <1>0, <1>1, <1>2, <1>3 DEF FlagsTyped

(* The plugins.                                                            *)
LEMMA UnloadTyped ==
    ASSUME PluginsTyped, NEW t \in Types, UnloadPlugin(t)
    PROVE  PluginsTyped'
BY DEF PluginsTyped, UnloadPlugin, Unloaded, Plugins

LEMMA LoadTyped ==
    ASSUME PluginsTyped, NEW t \in Types, LoadPlugin(t)
    PROVE  PluginsTyped'
<1> USE PluginHostAssumption DEF PluginHostAssumption
<1>1. type' \in Seq(Types) /\ Len(type') = Len(type) + 1 /\ Len(type') <= MaxPlugins
    BY DEF PluginsTyped, LoadPlugin
<1>2. loaded' \in [Types -> 0 .. Len(type')]
    BY <1>1 DEF PluginsTyped, LoadPlugin
<1> DEFINE u == Unloaded(t)
<1>3. u \in [1 .. Len(type) -> Places]
    BY DEF PluginsTyped, Unloaded, Plugins, Places
<1>4. u \in Seq(Places) /\ Len(u) = Len(type)
    BY <1>3 DEF PluginsTyped
<1>5. \E x \in Places : thread' = Append(u, x)
    BY DEF LoadPlugin, Places
<1> HIDE DEF u
<1>6. thread' \in Seq(Places) /\ Len(thread') = Len(type) + 1
    BY <1>4, <1>5
<1>7. thread' \in [1 .. Len(type') -> Places]
    BY <1>1, <1>6
<1> QED
    BY <1>1, <1>2, <1>7 DEF PluginsTyped, Plugins, Places

LEMMA PluginStep == TypeOK /\ [Next]_vars => PluginsTyped'
<1> SUFFICES ASSUME TypeOK, [Next]_vars PROVE PluginsTyped'
    OBVIOUS
<1>0. PluginsTyped /\ QueueTyped /\ RestTyped
    BY TypeParts
<1>1. CASE UNCHANGED pluginVars
    BY <1>0, <1>1 DEF PluginsTyped, pluginVars, Plugins
<1>2. CASE \E t \in Types : LoadPlugin(t)
    BY <1>0, <1>2, LoadTyped
<1>3. CASE \E t \in Types : UnloadPlugin(t)
    BY <1>0, <1>3, UnloadTyped
<1>4. CASE /\ UNCHANGED <<loaded, type>>
           /\ \E i \in Plugins, p \in Places : thread' = [thread EXCEPT ![i] = p]
    BY <1>0, <1>4 DEF PluginsTyped, Plugins, Places
<1>5. CASE ContinueApp
    BY <1>0, <1>5 DEF PluginsTyped, ContinueApp, Plugins, Types
<1>6. PluginExited => \E t \in Types : UnloadPlugin(t)
  <2>1. ASSUME PluginExited PROVE Head(queue).type \in Types
    <3>1. Head(queue) \in Event /\ Head(queue).id = "exited"
        BY <1>0, <2>1 DEF PluginExited, Take, QueueTyped
    <3> QED
        BY <3>1 DEF Event
  <2> QED
      BY <2>1 DEF PluginExited
<1>7. KillPlugin => UNCHANGED pluginVars \/ \E t \in Types : UnloadPlugin(t)
    BY <1>0 DEF KillPlugin, RestTyped
<1>8. KeyFalls \/ Navigate \/ ShowStatus \/ SelectUI \/ AnnounceNone \/ StopPolling \/ UnloadUI
          \/ ClearUI \/ LoadUI
          \/ LoadUIFails \/ NewUIPointer \/ SelectSkin \/ GiveUp => UNCHANGED pluginVars
    BY Zenon DEF KeyFalls, Navigate, ShowStatus, SelectUI, AnnounceNone, StopPolling, UnloadUI, ClearUI, LoadUI,
          LoadUIFails, NewUIPointer, SelectSkin, GiveUp
<1>9. RunStep => UNCHANGED pluginVars
    BY Zenon DEF RunStep, PassStep, Poll, ReadKeys, SendKey, SendStatus, Sends,
            ComboDone, SendCombo
<1>10. ASSUME NEW i \in Plugins,
              RequestAccess(i) \/ FreezeUI(i) \/ StopLatch(i) \/ MarkType(i) \/ SwitchToRadio(i)
                  \/ Exit(i) \/ ExitGivesUp(i)
       PROVE  /\ UNCHANGED <<loaded, type>>
              /\ \E p \in Places : thread' = [thread EXCEPT ![i] = p]
    BY <1>10 DEF RequestAccess, FreezeUI, StopLatch, MarkType, SwitchToRadio, Exit, ExitGivesUp, Goes, Places
<1>11. (\E t \in Types : StartPlugin(t)) => \E t \in Types : LoadPlugin(t)
    BY Zenon DEF StartPlugin
<1>12. (\E t \in Types : StopPlugin(t)) => \E t \in Types : UnloadPlugin(t)
    BY Zenon DEF StopPlugin
<1>13. UNCHANGED vars => UNCHANGED pluginVars
    BY Zenon DEF vars
<1> QED
    BY <1>1, <1>2, <1>3, <1>4, <1>5, <1>6, <1>7, <1>8, <1>9, <1>10, <1>11, <1>12, <1>13
    DEF Next, MainStep

(* The queue: a step takes its first event, appends one, or both.          *)
QueueMoves(e) ==
    \/ UNCHANGED queue
    \/ queue # <<>> /\ queue' = Tail(queue)
    \/ queue' = Append(queue, e)
    \/ queue # <<>> /\ queue' = Append(Tail(queue), e)

LEMMA MovesTyped ==
    ASSUME QueueTyped, NEW e \in Event, QueueMoves(e)
    PROVE  QueueTyped'
BY DEF QueueTyped, QueueMoves

LEMMA QueueStep == TypeOK /\ [Next]_vars => QueueTyped'
<1> SUFFICES ASSUME TypeOK, [Next]_vars PROVE QueueTyped'
    OBVIOUS
<1> USE PluginHostAssumption DEF PluginHostAssumption
<1>0. UITyped /\ QueueTyped /\ PluginsTyped
    BY TypeParts
<1>a. /\ [id |-> "status"] \in Event /\ [id |-> "combo"] \in Event
      /\ [id |-> "giveup"] \in Event /\ [id |-> "key", gap |-> InTheGap] \in Event
    BY DEF Event, InTheGap
<1>b. \A p \in 0 .. MaxUI : [id |-> "ui", ui |-> p] \in Event
    BY DEF Event
<1>c. \A i \in Plugins : [id |-> "exited", type |-> type[i]] \in Event
    BY <1>0 DEF Event, PluginsTyped, Plugins
<1>1. KeyFalls \/ Navigate \/ ShowStatus \/ SelectUI \/ NewUIPointer \/ ContinueApp \/ PluginExited
          \/ GiveUp \/ StopPolling \/ UnloadUI \/ ClearUI \/ LoadUIFails
              => QueueMoves([id |-> "status"])
    BY Zenon DEF StopPolling, KeyFalls, Navigate, ShowStatus, SelectUI, NewUIPointer, ContinueApp, PluginExited,
          GiveUp, UnloadUI, ClearUI, LoadUIFails, KeyTo, Take, QueueMoves
<1>2. ASSUME NEW t \in Types, StartPlugin(t) \/ StopPlugin(t) PROVE QueueMoves([id |-> "status"])
    BY Zenon, <1>2 DEF StartPlugin, StopPlugin, KeyTo, Take, QueueMoves
<1>3. SelectSkin \/ KillPlugin => QueueMoves([id |-> "giveup"])
    BY Zenon DEF SelectSkin, KillPlugin, KeyTo, Take, QueueMoves
<1>4. AnnounceNone => QueueMoves([id |-> "ui", ui |-> 0])
    BY Zenon DEF AnnounceNone, QueueMoves
<1>5. LoadUI => QueueMoves([id |-> "ui", ui |-> uis + 1]) /\ uis + 1 \in 0 .. MaxUI
  <2>1. LoadUI => QueueMoves([id |-> "ui", ui |-> uis + 1])
      BY Zenon DEF LoadUI, QueueMoves
  <2> QED
      BY <1>0, <2>1 DEF LoadUI, UITyped
<1>6. ASSUME NEW i \in Plugins, RequestAccess(i) \/ FreezeUI(i) \/ StopLatch(i) \/ MarkType(i)
      PROVE  UNCHANGED queue
    BY Zenon, <1>6 DEF RequestAccess, FreezeUI, StopLatch, MarkType
<1>7. ASSUME NEW i \in Plugins, SwitchToRadio(i) \/ ExitGivesUp(i)
      PROVE  QueueMoves([id |-> "giveup"])
    BY Zenon, <1>7 DEF SwitchToRadio, ExitGivesUp, QueueMoves
<1>8. ASSUME NEW i \in Plugins, Exit(i)
      PROVE  QueueMoves([id |-> "exited", type |-> type[i]])
    BY Zenon, <1>8 DEF Exit, QueueMoves
<1>9. Poll \/ ReadKeys \/ ComboDone => UNCHANGED queue
    BY Zenon DEF Poll, ReadKeys, ComboDone
<1>10. SendKey => QueueMoves([id |-> "key", gap |-> InTheGap])
    BY Zenon DEF SendKey, Sends, QueueMoves
<1>11. /\ SendCombo => QueueMoves([id |-> "combo"])
       /\ SendStatus => QueueMoves([id |-> "status"])
    BY Zenon DEF SendCombo, SendStatus, Sends, QueueMoves
<1>12. UNCHANGED queue => QueueTyped'
    BY <1>0 DEF QueueTyped
<1>13. UNCHANGED vars => UNCHANGED queue
    BY Zenon DEF vars
<1> HIDE DEF QueueMoves, QueueTyped
<1>m. \A e \in Event : QueueMoves(e) => QueueTyped'
    BY <1>0, MovesTyped
<1>14. RunStep => QueueTyped'
    BY <1>a, <1>m, <1>9, <1>10, <1>11, <1>12 DEF RunStep, PassStep
<1>15. MainStep => QueueTyped'
    BY <1>a, <1>b, <1>m, <1>1, <1>2, <1>3, <1>4, <1>5, <1>0 DEF MainStep, UITyped
<1>16. ASSUME NEW i \in Plugins,
              RequestAccess(i) \/ FreezeUI(i) \/ StopLatch(i) \/ MarkType(i) \/ SwitchToRadio(i)
                  \/ Exit(i) \/ ExitGivesUp(i)
       PROVE  QueueTyped'
    BY <1>a, <1>c, <1>m, <1>6, <1>7, <1>8, <1>12, <1>16
<1> QED
    BY Zenon, <1>12, <1>13, <1>14, <1>15, <1>16 DEF Next

LEMMA RestStep == TypeOK /\ [Next]_vars => RestTyped'
<1> SUFFICES ASSUME TypeOK, [Next]_vars PROVE RestTyped'
    OBVIOUS
<1>0. RestTyped /\ PluginsTyped
    BY TypeParts
<1>1. ASSUME UNCHANGED wreck \/ Fall("main") \/ Fall("plugin")
      PROVE  wreck' \in {<<>>} \cup ({"main", "plugin"} \X {"null", "deleted"})
    BY <1>0, <1>1 DEF RestTyped, Fall
<1>2. UNCHANGED wreck \/ Fall("main") \/ Fall("plugin")
  <2>1. MainStep => UNCHANGED wreck \/ Fall("main")
      BY Zenon DEF MainStep, KeyFalls, Navigate, ShowStatus, SelectUI, AnnounceNone, StopPolling, UnloadUI, ClearUI,
            LoadUI, LoadUIFails, NewUIPointer, SelectSkin, StartPlugin, StopPlugin, ContinueApp,
            PluginExited, GiveUp, KillPlugin
  <2>2. RunStep => UNCHANGED wreck
      BY Zenon DEF RunStep, PassStep, Poll, ReadKeys, SendKey, SendStatus, Sends,
            ComboDone, SendCombo
  <2>3. (\E i \in Plugins : RequestAccess(i) \/ FreezeUI(i) \/ StopLatch(i) \/ MarkType(i)
            \/ SwitchToRadio(i) \/ Exit(i) \/ ExitGivesUp(i)) => UNCHANGED wreck \/ Fall("plugin")
      BY Zenon DEF RequestAccess, FreezeUI, StopLatch, MarkType, SwitchToRadio, Exit, ExitGivesUp
  <2> QED
      BY Zenon, <2>1, <2>2, <2>3 DEF Next, vars
<1>3. run' \in {"idle", "latch", "key", "combo", "send", "time", "battery", "remote"}
  <2>1. MainStep => UNCHANGED run
      BY Zenon DEF MainStep, KeyFalls, Navigate, ShowStatus, SelectUI, AnnounceNone, StopPolling,
            UnloadUI, ClearUI, LoadUI, LoadUIFails, NewUIPointer, SelectSkin, StartPlugin,
            StopPlugin, ContinueApp, PluginExited, GiveUp, KillPlugin
  <2>2. RunStep => run' \in {"idle", "latch", "key", "combo", "send", "time", "battery", "remote"}
      BY DEF RunStep, PassStep, Poll, ReadKeys, SendKey, SendStatus, Sends, ComboDone, SendCombo,
            After
  <2>3. (\E i \in Plugins : RequestAccess(i) \/ FreezeUI(i) \/ StopLatch(i) \/ MarkType(i)
            \/ SwitchToRadio(i) \/ Exit(i) \/ ExitGivesUp(i)) => UNCHANGED run
      BY Zenon DEF RequestAccess, FreezeUI, StopLatch, MarkType, SwitchToRadio, Exit, ExitGivesUp
  <2>4. UNCHANGED run => run' \in {"idle", "latch", "key", "combo", "send", "time", "battery", "remote"}
      BY <1>0 DEF RestTyped
  <2>5. UNCHANGED vars => UNCHANGED run
      BY Zenon DEF vars
  <2> QED
      BY Zenon, <2>1, <2>2, <2>3, <2>4, <2>5 DEF Next
<1>4. m_ExclusiveAccessPluginType' \in Types \cup {"none"}
  <2> DEFINE same == m_ExclusiveAccessPluginType' = m_ExclusiveAccessPluginType
  <2>1. MainStep => same \/ m_ExclusiveAccessPluginType' = "APP"
      BY Zenon DEF MainStep, KeyFalls, Navigate, ShowStatus, SelectUI, AnnounceNone, StopPolling, UnloadUI, ClearUI,
            LoadUI, LoadUIFails, NewUIPointer, SelectSkin, StartPlugin, StopPlugin, ContinueApp,
            PluginExited, GiveUp, KillPlugin, accessVars
  <2>2. RunStep => same
      BY Zenon DEF RunStep, PassStep, Poll, ReadKeys, SendKey, SendStatus, Sends,
            ComboDone, SendCombo, accessVars
  <2>3. ASSUME NEW i \in Plugins,
               RequestAccess(i) \/ FreezeUI(i) \/ StopLatch(i) \/ MarkType(i)
                   \/ SwitchToRadio(i) \/ Exit(i) \/ ExitGivesUp(i)
        PROVE  same \/ m_ExclusiveAccessPluginType' = type[i]
      BY Zenon, <2>3 DEF RequestAccess, FreezeUI, StopLatch, MarkType, SwitchToRadio, Exit, ExitGivesUp,
            accessVars
  <2>4. UNCHANGED vars => same
      BY Zenon DEF vars, accessVars
  <2>5. \A i \in Plugins : type[i] \in Types
      BY <1>0 DEF PluginsTyped, Plugins
  <2> HIDE DEF same
  <2>6. same \/ m_ExclusiveAccessPluginType' = "APP"
             \/ \E i \in Plugins : m_ExclusiveAccessPluginType' = type[i]
      BY Zenon, <2>1, <2>2, <2>3, <2>4 DEF Next
  <2> QED
      BY <1>0, <2>5, <2>6 DEF same, RestTyped, Types
<1> QED
    BY <1>0, <1>1, <1>2, <1>3, <1>4 DEF RestTyped

(* Every variable keeps its type.                                          *)
THEOREM TypeCorrect == Spec => []TypeOK
<1>1. TypeOK /\ [Next]_vars => TypeOK'
  <2> SUFFICES ASSUME TypeOK, [Next]_vars PROVE TypeOK'
      OBVIOUS
  <2>1. UITyped' /\ FlagsTyped' /\ QueueTyped' /\ PluginsTyped' /\ RestTyped'
      BY UIStep, FlagStep, QueueStep, PluginStep, RestStep
  <2> QED
      BY <2>1 DEF TypeOK, UITyped, FlagsTyped, QueueTyped, PluginsTyped, RestTyped
<1> QED
    BY InitTyped, <1>1, PTL DEF Spec

-----------------------------------------------------------------------------
(* The pointer.                                                            *)

NoPointer(q) == \A k \in DOMAIN q : ~IsPointer(q, k)

LastIs(q, p) ==
    \A k \in DOMAIN q :
        IsPointer(q, k) /\ (\A j \in DOMAIN q : IsPointer(q, j) => j <= k) => q[k].ui = p

(* While nothing is switched the last pointer is right, whoever has gone   *)
(* down; a switch that will not send one has found none in the queue.      *)
PointerInv ==
    /\ main \in {"receive", "stop"} =>
           /\ m_Polling
           /\ LastIs(queue, live)
           /\ NoPointer(queue) => m_UI = live
    /\ main \in {"announced", "wait", "clear", "load"} => wasPolling \/ NoPointer(queue)

LEMMA AppendParts ==
    ASSUME NEW s \in Seq(Event), NEW e
    PROVE  /\ DOMAIN s = 1 .. Len(s) /\ Len(s) \in Nat
           /\ DOMAIN Append(s, e) = 1 .. Len(s) + 1
           /\ \A k \in 1 .. Len(s) : Append(s, e)[k] = s[k]
           /\ Append(s, e)[Len(s) + 1] = e
OBVIOUS

LEMMA TailParts ==
    ASSUME QueueTyped, queue # <<>>
    PROVE  /\ DOMAIN queue = 1 .. Len(queue) /\ Len(queue) \in Nat \ {0}
           /\ DOMAIN Tail(queue) = 1 .. Len(queue) - 1
           /\ \A k \in 1 .. Len(queue) - 1 : Tail(queue)[k] = queue[k + 1]
           /\ Head(queue) = queue[1]
BY DEF QueueTyped

(* A key or another event at the end changes nothing.                      *)
LEMMA AppendOther ==
    ASSUME NEW s \in Seq(Event), NEW e, e.id # "ui", NEW p
    PROVE  /\ LastIs(s, p) => LastIs(Append(s, e), p)
           /\ NoPointer(s) => NoPointer(Append(s, e))
           /\ NoPointer(Append(s, e)) => NoPointer(s)
<1> DEFINE q == Append(s, e)
<1>1. /\ DOMAIN s = 1 .. Len(s) /\ Len(s) \in Nat
      /\ DOMAIN q = 1 .. Len(s) + 1
      /\ \A k \in 1 .. Len(s) : q[k] = s[k]
      /\ q[Len(s) + 1] = e
    BY AppendParts
<1> HIDE DEF q
<1>2. \A k \in DOMAIN q : IsPointer(q, k) => k \in DOMAIN s /\ IsPointer(s, k)
    BY <1>1 DEF IsPointer
<1>3. \A k \in DOMAIN s : k \in DOMAIN q /\ (IsPointer(s, k) => IsPointer(q, k))
    BY <1>1 DEF IsPointer
<1>4. LastIs(s, p) => LastIs(q, p)
    BY <1>1, <1>2, <1>3 DEF LastIs
<1> QED
    BY <1>2, <1>3, <1>4 DEF NoPointer, q

(* A pointer at the end is the last one.                                   *)
LEMMA AppendPointer ==
    ASSUME NEW s \in Seq(Event), NEW e, e.id = "ui"
    PROVE  /\ LastIs(Append(s, e), e.ui)
           /\ ~NoPointer(Append(s, e))
<1> DEFINE q == Append(s, e)
<1>1. /\ Len(s) \in Nat
      /\ DOMAIN q = 1 .. Len(s) + 1
      /\ q[Len(s) + 1] = e
    BY AppendParts
<1> HIDE DEF q
<1>2. Len(s) + 1 \in DOMAIN q /\ IsPointer(q, Len(s) + 1)
    BY <1>1 DEF IsPointer
<1>3. LastIs(q, e.ui)
    BY <1>1, <1>2 DEF LastIs
<1> QED
    BY <1>2, <1>3 DEF NoPointer, q

(* Taking the first event: if no pointer is left it was the last one.      *)
LEMMA TailPointer ==
    ASSUME QueueTyped, queue # <<>>, NEW p
    PROVE  /\ LastIs(queue, p) => LastIs(Tail(queue), p)
           /\ NoPointer(queue) => NoPointer(Tail(queue))
           /\ NoPointer(Tail(queue)) /\ Head(queue).id # "ui" => NoPointer(queue)
           /\ NoPointer(Tail(queue)) /\ Head(queue).id = "ui" /\ LastIs(queue, p) =>
                  Head(queue).ui = p
<1> DEFINE q == Tail(queue)
<1>1. /\ DOMAIN queue = 1 .. Len(queue) /\ Len(queue) \in Nat \ {0}
      /\ DOMAIN q = 1 .. Len(queue) - 1
      /\ \A k \in 1 .. Len(queue) - 1 : q[k] = queue[k + 1]
      /\ Head(queue) = queue[1]
    BY TailParts
<1> HIDE DEF q
<1>2. \A k \in DOMAIN q :
          /\ k + 1 \in DOMAIN queue
          /\ q[k] = queue[k + 1]
          /\ IsPointer(q, k) <=> IsPointer(queue, k + 1)
    BY <1>1 DEF IsPointer
<1>3. \A k \in DOMAIN queue : k # 1 => k - 1 \in DOMAIN q /\ k = (k - 1) + 1
    BY <1>1
<1>4. ASSUME LastIs(queue, p), NEW k \in DOMAIN q, IsPointer(q, k),
             \A j \in DOMAIN q : IsPointer(q, j) => j <= k
      PROVE  q[k].ui = p
  <2>1. ASSUME NEW j \in DOMAIN queue, IsPointer(queue, j) PROVE j <= k + 1
    <3>1. CASE j = 1
        BY <1>1, <3>1
    <3>2. CASE j # 1
        BY <1>1, <1>2, <1>3, <1>4, <2>1, <3>2
    <3> QED
        BY <3>1, <3>2
  <2>2. k + 1 \in DOMAIN queue /\ q[k] = queue[k + 1] /\ IsPointer(queue, k + 1)
      BY <1>2, <1>4
  <2>3. queue[k + 1].ui = p
      BY <1>4, <2>1, <2>2 DEF LastIs
  <2> QED
      BY <2>2, <2>3
<1>5. ASSUME NoPointer(queue), NEW k \in DOMAIN q PROVE ~IsPointer(q, k)
  <2>1. k + 1 \in DOMAIN queue /\ (IsPointer(q, k) <=> IsPointer(queue, k + 1))
      BY <1>2
  <2> QED
      BY <1>5, <2>1 DEF NoPointer
<1>6. ASSUME NoPointer(q), NEW j \in DOMAIN queue, IsPointer(queue, j) PROVE j = 1
    BY <1>2, <1>3, <1>6 DEF NoPointer
<1>7. NoPointer(q) /\ Head(queue).id # "ui" => NoPointer(queue)
    BY <1>1, <1>6 DEF NoPointer, IsPointer
<1>8. NoPointer(q) /\ Head(queue).id = "ui" /\ LastIs(queue, p) => Head(queue).ui = p
    BY <1>1, <1>6 DEF LastIs, IsPointer
<1> QED
    BY <1>4, <1>5, <1>7, <1>8 DEF LastIs, NoPointer, q

(* A step that touches no pointer: the queue loses an event that is none,  *)
(* gains one that is none, or both.                                        *)
Calm(e) ==
    /\ e.id # "ui"
    /\ UNCHANGED <<m_UI, live, main, wasPolling, m_Polling>>
    /\ \/ UNCHANGED queue
       \/ queue' = Append(queue, e)
       \/ /\ queue # <<>> /\ Head(queue).id # "ui"
          /\ queue' = Tail(queue) \/ queue' = Append(Tail(queue), e)

LEMMA TailTyped ==
    ASSUME QueueTyped, queue # <<>>
    PROVE  Tail(queue) \in Seq(Event)
BY DEF QueueTyped

LEMMA CalmKeeps ==
    ASSUME QueueTyped, PointerInv, NEW e, Calm(e)
    PROVE  PointerInv'
<1>1. ASSUME NEW p PROVE LastIs(queue, p) => LastIs(queue', p)
  <2>1. CASE UNCHANGED queue
      BY <2>1
  <2>2. CASE queue' = Append(queue, e)
      BY <2>2, AppendOther DEF Calm, QueueTyped
  <2>3. CASE queue # <<>> /\ queue' = Tail(queue)
      BY <2>3, TailPointer
  <2>4. CASE queue # <<>> /\ queue' = Append(Tail(queue), e)
      BY <2>4, TailPointer, TailTyped, AppendOther DEF Calm
  <2> QED
      BY <2>1, <2>2, <2>3, <2>4 DEF Calm
<1>2. NoPointer(queue) <=> NoPointer(queue')
  <2>1. CASE UNCHANGED queue
      BY <2>1
  <2>2. CASE queue' = Append(queue, e)
      BY <2>2, AppendOther DEF Calm, QueueTyped
  <2>3. CASE queue # <<>> /\ Head(queue).id # "ui" /\ queue' = Tail(queue)
      BY <2>3, TailPointer
  <2>4. CASE queue # <<>> /\ Head(queue).id # "ui" /\ queue' = Append(Tail(queue), e)
      BY <2>4, TailPointer, TailTyped, AppendOther DEF Calm
  <2> QED
      BY <2>1, <2>2, <2>3, <2>4 DEF Calm
<1>3. main' = main /\ m_UI' = m_UI /\ live' = live
    BY DEF Calm
<1>4. m_Polling' = m_Polling /\ wasPolling' = wasPolling
    BY Zenon DEF Calm
<1>5. main \in {"receive", "stop"} => m_Polling' /\ LastIs(queue', live) /\ (NoPointer(queue') => m_UI = live)
    BY Zenon, <1>1, <1>2, <1>4 DEF PointerInv
<1>6. main \in {"announced", "wait", "clear", "load"} => wasPolling' \/ NoPointer(queue')
    BY Zenon, <1>2, <1>4 DEF PointerInv
<1> QED
    BY Zenon, <1>3, <1>5, <1>6 DEF PointerInv

LEMMA PointerStep == TypeOK /\ PointerInv /\ [Next]_vars => PointerInv'
<1> SUFFICES ASSUME TypeOK, PointerInv, [Next]_vars PROVE PointerInv'
    OBVIOUS
<1>0. QueueTyped
    BY TypeParts
<1> DEFINE key == [id |-> "key", gap |-> InTheGap]
           giveup == [id |-> "giveup"]
<1>a. key.id # "ui" /\ giveup.id # "ui" /\ [id |-> "combo"].id # "ui"
      /\ [id |-> "status"].id # "ui"
      /\ \A i : [id |-> "exited", type |-> type[i]].id # "ui"
    OBVIOUS
<1> HIDE DEF key, giveup
<1>1. SelectUI => PointerInv'
  <2> SUFFICES ASSUME SelectUI PROVE PointerInv'
      OBVIOUS
  <2>1. queue # <<>> /\ Head(queue).id # "ui" /\ queue' = Tail(queue) /\ main = "receive" /\ main' = "stop"
      BY DEF SelectUI, KeyTo, Take
  <2>2. LastIs(queue, live) => LastIs(queue', live)
      BY <1>0, <2>1, TailPointer
  <2>3. NoPointer(queue') => NoPointer(queue)
      BY <1>0, <2>1, TailPointer
  <2>4. m_UI' = m_UI /\ live' = live /\ m_Polling' = m_Polling
      BY Zenon DEF SelectUI
  <2>5. m_Polling /\ LastIs(queue, live) /\ (NoPointer(queue) => m_UI = live)
      BY Zenon, <2>1 DEF PointerInv
  <2>6. m_Polling' /\ LastIs(queue', live') /\ (NoPointer(queue') => m_UI' = live')
      BY Zenon, <2>2, <2>3, <2>4, <2>5
  <2>7. main' \notin {"announced", "wait", "clear", "load"}
      BY <2>1
  <2> QED
      BY Zenon, <2>6, <2>7 DEF PointerInv
<1>2. AnnounceNone => PointerInv'
  <2> SUFFICES ASSUME AnnounceNone PROVE PointerInv'
      OBVIOUS
  <2>1. main = "stop" /\ main' \notin {"receive", "stop"}
      BY DEF AnnounceNone
  <2>2. wasPolling'
      BY Zenon, <2>1 DEF AnnounceNone, PointerInv
  <2> QED
      BY Zenon, <2>1, <2>2 DEF PointerInv
<1>3. StopPolling \/ UnloadUI \/ ClearUI => PointerInv'
  <2> SUFFICES ASSUME StopPolling \/ UnloadUI \/ ClearUI PROVE PointerInv'
      OBVIOUS
  <2>1. main \in {"announced", "wait", "clear"} /\ main' \notin {"receive", "stop"}
        /\ queue' = queue
      BY DEF StopPolling, UnloadUI, ClearUI
  <2>2. wasPolling' = wasPolling
      BY Zenon DEF StopPolling, UnloadUI, ClearUI
  <2>3. main \in {"announced", "wait", "clear", "load"}
      BY <2>1
  <2>4. wasPolling \/ NoPointer(queue)
      BY Zenon, <2>3 DEF PointerInv
  <2>5. wasPolling' \/ NoPointer(queue')
      BY Zenon, <2>1, <2>2, <2>4
  <2> QED
      BY Zenon, <2>1, <2>5 DEF PointerInv
<1>4. LoadUI => PointerInv'
  <2> SUFFICES ASSUME LoadUI PROVE PointerInv'
      OBVIOUS
  <2>1. main = "load" /\ main' \notin {"announced", "wait", "clear", "load"} /\ m_UI' = uis + 1 /\ live' = uis + 1
      BY DEF LoadUI
  <2>2. m_Polling'
      BY Zenon DEF LoadUI
  <2>3. CASE wasPolling
    <3>1. queue' = Append(queue, [id |-> "ui", ui |-> uis + 1])
        BY Zenon, <2>3 DEF LoadUI
    <3>2. LastIs(queue', live') /\ ~NoPointer(queue')
        BY <1>0, <2>1, <3>1, AppendPointer DEF QueueTyped
    <3> QED
        BY Zenon, <2>1, <2>2, <3>2 DEF PointerInv
  <2>4. CASE ~wasPolling
    <3>1. queue' = queue
        BY Zenon, <2>4 DEF LoadUI
    <3>2. main \in {"announced", "wait", "clear", "load"}
        BY <2>1
    <3>3. NoPointer(queue)
        BY Zenon, <2>4, <3>2 DEF PointerInv
    <3>4. LastIs(queue', live')
        BY <3>1, <3>3 DEF LastIs, NoPointer
    <3> QED
        BY Zenon, <2>1, <2>2, <3>4 DEF PointerInv
  <2> QED
      BY <2>3, <2>4
<1>5. NewUIPointer => PointerInv'
  <2> SUFFICES ASSUME NewUIPointer PROVE PointerInv'
      OBVIOUS
  <2>1. /\ queue # <<>> /\ Head(queue).id = "ui" /\ queue' = Tail(queue) /\ m_UI' = Head(queue).ui
        /\ main = "receive" /\ main' = main /\ live' = live
      BY DEF NewUIPointer, Take
  <2>2. m_Polling' = m_Polling
      BY Zenon DEF NewUIPointer
  <2>3. m_Polling /\ LastIs(queue, live)
      BY Zenon, <2>1 DEF PointerInv
  <2>4. LastIs(queue', live')
      BY <1>0, <2>1, <2>3, TailPointer
  <2>5. NoPointer(queue') => m_UI' = live'
      BY <1>0, <2>1, <2>3, TailPointer
  <2>6. main' \notin {"announced", "wait", "clear", "load"}
      BY <2>1
  <2> QED
      BY Zenon, <2>2, <2>3, <2>4, <2>5, <2>6 DEF PointerInv
<1>6. KeyFalls \/ Navigate \/ ShowStatus \/ ContinueApp \/ PluginExited \/ GiveUp \/ LoadUIFails
          \/ SelectSkin \/ KillPlugin => Calm(key) \/ Calm(giveup)
  <2>1. KeyTo \/ Take("key") \/ Take("status") \/ Take("exited") \/ Take("giveup") \/ Take("combo") =>
            queue # <<>> /\ Head(queue).id # "ui"
      BY DEF KeyTo, Take
  <2>2. KeyFalls \/ Navigate \/ ShowStatus \/ ContinueApp \/ PluginExited \/ GiveUp \/ LoadUIFails => Calm(key)
      BY Zenon, <1>a, <2>1 DEF KeyFalls, Navigate, ShowStatus, ContinueApp, PluginExited, GiveUp, LoadUIFails,
            Calm, uiVars
  <2>3. SelectSkin \/ KillPlugin => Calm(giveup)
      BY Zenon, <1>a, <2>1 DEF SelectSkin, KillPlugin, Calm, uiVars, giveup
  <2> QED
      BY <2>2, <2>3
<1>7. ASSUME NEW t \in Types, StartPlugin(t) \/ StopPlugin(t) PROVE Calm(key)
  <2>1. queue # <<>> /\ Head(queue).id # "ui"
      BY <1>7 DEF StartPlugin, StopPlugin, KeyTo, Take
  <2> QED
      BY Zenon, <1>7, <1>a, <2>1 DEF StartPlugin, StopPlugin, Calm, uiVars
<1>8. RunStep => Calm(key) \/ Calm([id |-> "combo"]) \/ Calm([id |-> "status"])
  <2>1. Poll \/ ReadKeys \/ SendKey => Calm(key)
      BY Zenon, <1>a DEF Poll, ReadKeys, SendKey, Sends, Calm, uiVars, key
  <2>2. ComboDone \/ SendCombo => Calm([id |-> "combo"])
      BY Zenon, <1>a DEF ComboDone, SendCombo, Calm, uiVars
  <2>3. SendStatus => Calm([id |-> "status"])
      BY Zenon, <1>a DEF SendStatus, Sends, Calm, uiVars
  <2> QED
      BY Zenon, <2>1, <2>2, <2>3 DEF RunStep, PassStep
<1>9. ASSUME NEW i \in Plugins,
             RequestAccess(i) \/ FreezeUI(i) \/ StopLatch(i) \/ MarkType(i) \/ SwitchToRadio(i)
                 \/ Exit(i) \/ ExitGivesUp(i)
      PROVE  \E e : Calm(e)
  <2>1. RequestAccess(i) \/ FreezeUI(i) \/ StopLatch(i) \/ MarkType(i) => Calm(key)
      BY Zenon, <1>a DEF RequestAccess, FreezeUI, StopLatch, MarkType, Calm, uiVars
  <2>2. SwitchToRadio(i) \/ ExitGivesUp(i) => Calm(giveup)
      BY Zenon, <1>a DEF SwitchToRadio, ExitGivesUp, Calm, uiVars, giveup
  <2>3. Exit(i) => Calm([id |-> "exited", type |-> type[i]])
      BY Zenon, <1>a DEF Exit, Calm, uiVars
  <2> QED
      BY <1>9, <2>1, <2>2, <2>3
<1>10. UNCHANGED vars => Calm(key)
    BY Zenon, <1>a DEF vars, Calm, uiVars
<1>11. \A e : Calm(e) => PointerInv'
    BY <1>0, CalmKeeps
<1> HIDE DEF Calm
<1> QED
    BY Zenon, <1>1, <1>2, <1>3, <1>4, <1>5, <1>6, <1>7, <1>8, <1>9, <1>10, <1>11 DEF Next, MainStep

(* When all events are handled m_UI is the UI that exists, however many    *)
(* switches were made while events were queued.                            *)
THEOREM PointerComesRight == Spec => []PointerSettles
<1>1. Init => PointerInv
    BY DEF Init, PointerInv, NoPointer
<1>2. TypeOK /\ PointerInv /\ [Next]_vars => PointerInv'
    BY PointerStep
<1>3. PointerInv => PointerSettles
    BY Zenon DEF PointerInv, PointerSettles, NoPointer, LastIs
<1> QED
    BY TypeCorrect, <1>1, <1>2, <1>3, PTL DEF Spec

-----------------------------------------------------------------------------
(* The gap.                                                                *)

(* A key that was not sent in the gap.                                     *)
IsStray(q, k) == q[k].id = "key" /\ ~q[k].gap

IsNone(q, k) == IsPointer(q, k) /\ q[k].ui = 0

(* Between a null pointer and such a key there is another pointer.         *)
GapsHold(q) ==
    \A l, i \in DOMAIN q :
        IsNone(q, l) /\ l < i /\ IsStray(q, i) => \E k \in l + 1 .. i : IsPointer(q, k)

(* The same with m_UI in the place of the null pointer.                    *)
FrontHolds(q) ==
    \A i \in DOMAIN q : IsStray(q, i) => \E k \in 1 .. i : IsPointer(q, k)

(* The queue does not end in a gap.                                        *)
NoGapAtEnd(q) ==
    \A l \in DOMAIN q : IsNone(q, l) => \E k \in l + 1 .. Len(q) : IsPointer(q, k)

(* Run has come to rest before the UI is deleted, and polls nothing until  *)
(* there is another one.  When m_UI is cleared the keys before the null    *)
(* pointer do come after it; they are handled once StartUI has set m_UI.   *)
GapInv ==
    /\ GapsHold(queue)
    /\ m_UI = 0 /\ main # "load" => FrontHolds(queue)
    /\ main \in {"receive", "stop"} => live # 0
    /\ main \in {"wait", "clear", "load"} => ~m_Polling
    /\ main \in {"clear", "load"} => run = "idle"

(* An event that is no such key puts none into a gap.                      *)
LEMMA AppendNoStray ==
    ASSUME NEW s \in Seq(Event), NEW e, e.id # "key" \/ e.gap
    PROVE  /\ GapsHold(s) => GapsHold(Append(s, e))
           /\ FrontHolds(s) => FrontHolds(Append(s, e))
<1> DEFINE q == Append(s, e)
<1>1. /\ DOMAIN s = 1 .. Len(s) /\ Len(s) \in Nat
      /\ DOMAIN q = 1 .. Len(s) + 1
      /\ \A k \in 1 .. Len(s) : q[k] = s[k]
      /\ q[Len(s) + 1] = e
    BY AppendParts
<1> HIDE DEF q
<1>2. ASSUME NEW k \in DOMAIN q, IsStray(q, k)
      PROVE  k \in DOMAIN s /\ IsStray(s, k)
  <2>1. k # Len(s) + 1
    <3> SUFFICES ASSUME k = Len(s) + 1
                 PROVE  FALSE
        OBVIOUS
    <3>1. q[k] = e
        BY <1>1
    <3> QED
        BY Zenon, <1>2, <3>1 DEF IsStray
  <2>2. k \in DOMAIN s /\ q[k] = s[k]
      BY <1>1, <2>1
  <2> QED
      BY Zenon, <1>2, <2>2 DEF IsStray
<1>3. \A k \in DOMAIN s : k \in DOMAIN q /\ q[k] = s[k]
    BY <1>1
<1>4. ASSUME GapsHold(s) PROVE GapsHold(q)
  <2> SUFFICES ASSUME NEW l \in DOMAIN q, NEW i \in DOMAIN q,
                      IsNone(q, l), l < i, IsStray(q, i)
               PROVE  \E k \in l + 1 .. i : IsPointer(q, k)
      BY DEF GapsHold
  <2>1. i \in DOMAIN s /\ IsStray(s, i)
      BY <1>2
  <2>2. l \in DOMAIN s
      BY <1>1, <2>1
  <2>3. IsNone(s, l)
      BY <1>3, <2>2 DEF IsNone, IsPointer
  <2>4. PICK k \in l + 1 .. i : IsPointer(s, k)
      BY <1>4, <2>1, <2>2, <2>3 DEF GapsHold
  <2>5. k \in DOMAIN s
      BY <1>1, <2>1, <2>2
  <2> QED
      BY <1>3, <2>4, <2>5 DEF IsPointer
<1>5. ASSUME FrontHolds(s) PROVE FrontHolds(q)
  <2> SUFFICES ASSUME NEW i \in DOMAIN q, IsStray(q, i)
               PROVE  \E k \in 1 .. i : IsPointer(q, k)
      BY DEF FrontHolds
  <2>1. i \in DOMAIN s /\ IsStray(s, i)
      BY <1>2
  <2>2. PICK k \in 1 .. i : IsPointer(s, k)
      BY <1>5, <2>1 DEF FrontHolds
  <2>3. k \in DOMAIN s
      BY <1>1, <2>1
  <2> QED
      BY <1>3, <2>2, <2>3 DEF IsPointer
<1> QED
    BY <1>4, <1>5 DEF q

(* Any key may come where the queue does not end in a gap.                 *)
LEMMA AppendKey ==
    ASSUME NEW s \in Seq(Event), NEW e
    PROVE  /\ GapsHold(s) /\ NoGapAtEnd(s) => GapsHold(Append(s, e))
           /\ FrontHolds(s) /\ ~NoPointer(s) => FrontHolds(Append(s, e))
<1> DEFINE q == Append(s, e)
<1>1. /\ DOMAIN s = 1 .. Len(s) /\ Len(s) \in Nat
      /\ DOMAIN q = 1 .. Len(s) + 1
      /\ \A k \in 1 .. Len(s) : q[k] = s[k]
      /\ q[Len(s) + 1] = e
    BY AppendParts
<1> HIDE DEF q
<1>2. \A k \in DOMAIN s : k \in DOMAIN q /\ q[k] = s[k]
    BY <1>1
<1>3. ASSUME NEW k \in DOMAIN q, k # Len(s) + 1
      PROVE  k \in DOMAIN s /\ q[k] = s[k]
    BY <1>1, <1>3
<1>4. ASSUME GapsHold(s), NoGapAtEnd(s) PROVE GapsHold(q)
  <2> SUFFICES ASSUME NEW l \in DOMAIN q, NEW i \in DOMAIN q,
                      IsNone(q, l), l < i, IsStray(q, i)
               PROVE  \E k \in l + 1 .. i : IsPointer(q, k)
      BY DEF GapsHold
  <2>1. l # Len(s) + 1
      BY <1>1
  <2>2. l \in DOMAIN s /\ IsNone(s, l)
      BY <1>3, <2>1 DEF IsNone, IsPointer
  <2>3. \E k \in l + 1 .. i : k \in DOMAIN s /\ IsPointer(s, k)
    <3>1. CASE i = Len(s) + 1
      <4>1. PICK k \in l + 1 .. Len(s) : IsPointer(s, k)
          BY <1>4, <2>2 DEF NoGapAtEnd
      <4>2. k \in DOMAIN s /\ k \in l + 1 .. i
          BY <1>1, <2>2, <3>1
      <4> QED
          BY <4>1, <4>2
    <3>2. CASE i # Len(s) + 1
      <4>1. i \in DOMAIN s /\ q[i] = s[i]
          BY <1>3, <3>2
      <4>2. IsStray(s, i)
          BY Zenon, <4>1 DEF IsStray
      <4>3. PICK k \in l + 1 .. i : IsPointer(s, k)
          BY <1>4, <2>2, <4>1, <4>2 DEF GapsHold
      <4>4. k \in DOMAIN s
          BY <1>1, <2>2, <4>1
      <4> QED
          BY <4>3, <4>4
    <3> QED
        BY <3>1, <3>2
  <2> QED
      BY <1>2, <2>3 DEF IsPointer
<1>5. ASSUME FrontHolds(s), ~NoPointer(s) PROVE FrontHolds(q)
  <2> SUFFICES ASSUME NEW i \in DOMAIN q, IsStray(q, i)
               PROVE  \E k \in 1 .. i : IsPointer(q, k)
      BY DEF FrontHolds
  <2>1. \E k \in 1 .. i : k \in DOMAIN s /\ IsPointer(s, k)
    <3>1. CASE i = Len(s) + 1
        BY <1>1, <1>5, <3>1 DEF NoPointer
    <3>2. CASE i # Len(s) + 1
      <4>1. i \in DOMAIN s /\ q[i] = s[i]
          BY <1>3, <3>2
      <4>2. IsStray(s, i)
          BY Zenon, <4>1 DEF IsStray
      <4>3. PICK k \in 1 .. i : IsPointer(s, k)
          BY <1>5, <4>1, <4>2 DEF FrontHolds
      <4>4. k \in DOMAIN s
          BY <1>1, <4>1
      <4> QED
          BY <4>3, <4>4
    <3> QED
        BY <3>1, <3>2
  <2> QED
      BY <1>2, <2>1 DEF IsPointer
<1> QED
    BY <1>4, <1>5 DEF q

(* Nor does it end in one when the last pointer is that of a UI.           *)
LEMMA EndsWithUI ==
    ASSUME NEW s \in Seq(Event), NEW p, p # 0, LastIs(s, p)
    PROVE  NoGapAtEnd(s)
<1>1. DOMAIN s = 1 .. Len(s) /\ Len(s) \in Nat
    OBVIOUS
<1> SUFFICES ASSUME NEW l \in DOMAIN s, IsNone(s, l),
                    ~ \E k \in l + 1 .. Len(s) : IsPointer(s, k)
             PROVE  FALSE
    BY DEF NoGapAtEnd
<1>2. \A j \in DOMAIN s : IsPointer(s, j) => j <= l
    BY <1>1
<1>3. s[l].ui = p
    BY <1>2 DEF LastIs, IsNone
<1> QED
    BY <1>3 DEF IsNone

(* Taking an event that is no pointer, or the null pointer.                *)
LEMMA TailGaps ==
    ASSUME QueueTyped, queue # <<>>
    PROVE  /\ GapsHold(queue) => GapsHold(Tail(queue))
           /\ FrontHolds(queue) /\ Head(queue).id # "ui" => FrontHolds(Tail(queue))
           /\ GapsHold(queue) /\ Head(queue).id = "ui" /\ Head(queue).ui = 0 =>
                  FrontHolds(Tail(queue))
<1> DEFINE q == Tail(queue)
<1>1. /\ DOMAIN queue = 1 .. Len(queue) /\ Len(queue) \in Nat \ {0}
      /\ DOMAIN q = 1 .. Len(queue) - 1
      /\ \A k \in 1 .. Len(queue) - 1 : q[k] = queue[k + 1]
      /\ Head(queue) = queue[1]
    BY TailParts
<1> HIDE DEF q
<1>2. ASSUME NEW k \in DOMAIN q
      PROVE  /\ k + 1 \in DOMAIN queue
             /\ IsStray(q, k) => IsStray(queue, k + 1)
             /\ IsNone(q, k) => IsNone(queue, k + 1)
  <2>1. k + 1 \in DOMAIN queue /\ q[k] = queue[k + 1]
      BY <1>1
  <2>2. IsStray(q, k) => IsStray(queue, k + 1)
      BY Zenon, <2>1 DEF IsStray
  <2> QED
      BY <2>1, <2>2 DEF IsNone, IsPointer
<1>3. ASSUME NEW k \in DOMAIN queue, k > 1, IsPointer(queue, k)
      PROVE  IsPointer(q, k - 1)
  <2>1. k - 1 \in 1 .. Len(queue) - 1 /\ (k - 1) + 1 = k
      BY <1>1, <1>3
  <2>2. q[k - 1] = queue[k]
      BY <1>1, <2>1
  <2> QED
      BY <1>3, <2>2 DEF IsPointer
<1>4. ASSUME GapsHold(queue) PROVE GapsHold(q)
  <2> SUFFICES ASSUME NEW l \in DOMAIN q, NEW i \in DOMAIN q,
                      IsNone(q, l), l < i, IsStray(q, i)
               PROVE  \E k \in l + 1 .. i : IsPointer(q, k)
      BY DEF GapsHold
  <2>1. l \in Nat \ {0} /\ i \in Nat
      BY <1>1
  <2>2. l + 1 \in DOMAIN queue /\ i + 1 \in DOMAIN queue /\ l + 1 < i + 1
      BY <1>2, <2>1
  <2>3. PICK k \in l + 1 + 1 .. i + 1 : IsPointer(queue, k)
      BY <1>2, <1>4, <2>2 DEF GapsHold
  <2>4. k \in DOMAIN queue /\ k > 1 /\ k - 1 \in l + 1 .. i
      BY <1>1, <2>1, <2>2
  <2> QED
      BY <1>3, <2>3, <2>4
<1>5. ASSUME FrontHolds(queue), Head(queue).id # "ui" PROVE FrontHolds(q)
  <2> SUFFICES ASSUME NEW i \in DOMAIN q, IsStray(q, i)
               PROVE  \E k \in 1 .. i : IsPointer(q, k)
      BY DEF FrontHolds
  <2>1. i \in Nat /\ i + 1 \in DOMAIN queue /\ IsStray(queue, i + 1)
      BY <1>1, <1>2
  <2>2. PICK k \in 1 .. i + 1 : IsPointer(queue, k)
      BY <1>5, <2>1 DEF FrontHolds
  <2>3. k # 1
      BY <1>1, <1>5, <2>2 DEF IsPointer
  <2>4. k \in DOMAIN queue /\ k > 1 /\ k - 1 \in 1 .. i
      BY <1>1, <2>1, <2>3
  <2> QED
      BY <1>3, <2>2, <2>4
<1>6. ASSUME GapsHold(queue), Head(queue).id = "ui", Head(queue).ui = 0 PROVE FrontHolds(q)
  <2> SUFFICES ASSUME NEW i \in DOMAIN q, IsStray(q, i)
               PROVE  \E k \in 1 .. i : IsPointer(q, k)
      BY DEF FrontHolds
  <2>1. i \in Nat \ {0} /\ i + 1 \in DOMAIN queue /\ 1 < i + 1 /\ IsStray(queue, i + 1)
      BY <1>1, <1>2
  <2>2. 1 \in DOMAIN queue /\ IsNone(queue, 1)
      BY <1>1, <1>6 DEF IsNone, IsPointer
  <2>3. PICK k \in 1 + 1 .. i + 1 : IsPointer(queue, k)
      BY <1>6, <2>1, <2>2 DEF GapsHold
  <2>4. k \in DOMAIN queue /\ k > 1 /\ k - 1 \in 1 .. i
      BY <1>1, <2>1
  <2> QED
      BY <1>3, <2>3, <2>4
<1> QED
    BY <1>4, <1>5, <1>6 DEF q

(* A step that leaves the UI alone and sends no such key: it appends e,    *)
(* or, in Receive, takes an event that is no pointer, or both.             *)
Mild(e) ==
    /\ e.id # "ui"
    /\ e.id # "key" \/ e.gap
    /\ UNCHANGED <<m_UI, live, main, m_Polling>>
    /\ main \in {"clear", "load"} => run' = run
    /\ \/ UNCHANGED queue
       \/ queue' = Append(queue, e)
       \/ /\ main = "receive" /\ queue # <<>> /\ Head(queue).id # "ui"
          /\ queue' = Tail(queue) \/ queue' = Append(Tail(queue), e)

LEMMA MildKeeps ==
    ASSUME QueueTyped, GapInv, NEW e, Mild(e)
    PROVE  GapInv'
<1>0. queue \in Seq(Event)
    BY DEF QueueTyped
<1>1. e.id # "key" \/ e.gap
    BY Zenon DEF Mild
<1>2. UNCHANGED queue \/ queue' = Append(queue, e)
          \/ (main = "receive" /\ queue # <<>> /\ Head(queue).id # "ui"
              /\ (queue' = Tail(queue) \/ queue' = Append(Tail(queue), e)))
    BY Zenon DEF Mild
<1>3. GapsHold(queue) => GapsHold(queue')
  <2>1. ASSUME queue # <<>>
        PROVE  /\ Tail(queue) \in Seq(Event)
               /\ GapsHold(queue) => GapsHold(Tail(queue))
      BY <1>0, <2>1, TailTyped, TailGaps
  <2>2. ASSUME NEW s \in Seq(Event)
        PROVE  GapsHold(s) => GapsHold(Append(s, e))
      BY <1>1, AppendNoStray
  <2> QED
      BY Zenon, <1>0, <1>2, <2>1, <2>2
<1>4. FrontHolds(queue) => FrontHolds(queue')
  <2>1. ASSUME queue # <<>>, Head(queue).id # "ui"
        PROVE  /\ Tail(queue) \in Seq(Event)
               /\ FrontHolds(queue) => FrontHolds(Tail(queue))
      BY <1>0, <2>1, TailTyped, TailGaps
  <2>2. ASSUME NEW s \in Seq(Event)
        PROVE  FrontHolds(s) => FrontHolds(Append(s, e))
      BY <1>1, AppendNoStray
  <2> QED
      BY Zenon, <1>0, <1>2, <2>1, <2>2
<1>5. main' = main /\ m_UI' = m_UI /\ live' = live
    BY Zenon DEF Mild
<1>6. m_Polling' = m_Polling
    BY Zenon DEF Mild
<1>7. main' \in {"clear", "load"} => run' = "idle"
    BY Zenon, <1>5 DEF Mild, GapInv
<1>8. GapsHold(queue') /\ (m_UI' = 0 /\ main' # "load" => FrontHolds(queue'))
    BY Zenon, <1>3, <1>4, <1>5 DEF GapInv
<1> QED
    BY Zenon, <1>5, <1>6, <1>7, <1>8 DEF GapInv

(* Run's steps: it is at rest, and stays so, while there is no UI.  What   *)
(* it sends is mild, ...                                                   *)
LEMMA RunAtRest == GapInv /\ RunStep => ~(main \in {"clear", "load"})
<1>1. Poll /\ GapInv => ~(main \in {"wait", "clear", "load"})
    BY Zenon DEF Poll, GapInv
<1>2. PassStep => run # "idle"
    BY DEF PassStep, ReadKeys, SendKey, SendStatus, Sends, ComboDone, SendCombo
<1>3. main \in {"clear", "load"} => main \in {"wait", "clear", "load"}
    OBVIOUS
<1> QED
    BY Zenon, <1>1, <1>2, <1>3 DEF RunStep, GapInv

(* ... but for a key sent while the last pointer is that of the UI.        *)
LEMMA SendKeyKeepsGap == TypeOK /\ GapInv /\ PointerInv /\ SendKey => GapInv'
<1> SUFFICES ASSUME TypeOK, GapInv, PointerInv, SendKey PROVE GapInv'
    OBVIOUS
<1> DEFINE key == [id |-> "key", gap |-> InTheGap]
<1>0. queue \in Seq(Event) /\ QueueTyped
         /\ main \in {"receive", "stop", "announced", "wait", "clear", "load"}
    BY DEF TypeOK, QueueTyped
<1>1. ~(main \in {"clear", "load"})
    BY Zenon, RunAtRest DEF RunStep, PassStep
<1>2. queue' = Append(queue, key) /\ UNCHANGED <<m_UI, live, main, m_Polling>>
    BY Zenon DEF SendKey, Sends, uiVars
<1>3. key.id = "key" /\ key.gap = InTheGap
    OBVIOUS
<1> HIDE DEF key
<1>4. CASE InTheGap
  <2>1. Mild(key)
    <3>1. key.id # "ui"
        BY <1>3
    <3> QED
        BY Zenon, <1>1, <1>2, <1>3, <1>4, <3>1 DEF Mild
  <2> QED
      BY Zenon, <1>0, <2>1, MildKeeps
<1>5. CASE ~InTheGap
  <2>1. main \in {"receive", "stop"} /\ ~(main \in {"wait", "clear", "load"})
           /\ ~(main \in {"announced", "wait", "clear", "load"})
      BY <1>0, <1>1, <1>5 DEF InTheGap
  <2>2. live # 0
      BY Zenon, <2>1 DEF GapInv
  <2>3. LastIs(queue, live) /\ (NoPointer(queue) => m_UI = live)
      BY Zenon, <2>1 DEF PointerInv
  <2>4. NoGapAtEnd(queue)
      BY Zenon, <1>0, <2>2, <2>3, EndsWithUI
  <2>5. GapsHold(queue')
      BY Zenon, <1>0, <1>2, <2>4, AppendKey DEF GapInv
  <2>6. m_UI = 0 => ~NoPointer(queue)
      BY Zenon, <2>2, <2>3
  <2>7. m_UI = 0 /\ main # "load" => FrontHolds(queue')
      BY Zenon, <1>0, <1>2, <2>6, AppendKey DEF GapInv
  <2> QED
      BY Zenon, <1>1, <1>2, <2>1, <2>2, <2>5, <2>7 DEF GapInv
<1> QED
    BY <1>4, <1>5

LEMMA RunMild ==
    ASSUME GapInv, Poll \/ ReadKeys \/ SendStatus \/ ComboDone \/ SendCombo
    PROVE  \E e : Mild(e)
<1>1. ~(main \in {"clear", "load"})
    BY Zenon, RunAtRest DEF RunStep, PassStep
<1> DEFINE status == [id |-> "status"]
           combo == [id |-> "combo"]
<1>2. status.id # "ui" /\ status.id # "key" /\ combo.id # "ui" /\ combo.id # "key"
    OBVIOUS
<1>3. CASE Poll \/ ReadKeys \/ SendStatus \/ ComboDone
  <2>1. UNCHANGED <<m_UI, live, main, m_Polling>>
           /\ (UNCHANGED queue \/ queue' = Append(queue, status))
      BY Zenon, <1>3 DEF Poll, ReadKeys, SendStatus, ComboDone, Sends, uiVars
  <2> HIDE DEF status
  <2>2. Mild(status)
      BY Zenon, <1>1, <1>2, <2>1 DEF Mild
  <2> QED
      BY <2>2
<1>4. CASE SendCombo
  <2>1. UNCHANGED <<m_UI, live, main, m_Polling>> /\ queue' = Append(queue, combo)
      BY Zenon, <1>4 DEF SendCombo, uiVars
  <2> HIDE DEF combo
  <2>2. Mild(combo)
      BY Zenon, <1>1, <1>2, <2>1 DEF Mild
  <2> QED
      BY <2>2
<1> QED
    BY <1>3, <1>4

(* StartUI takes its event, ...                                            *)
LEMMA SelectKeepsGap == TypeOK /\ GapInv /\ SelectUI => GapInv'
<1> SUFFICES ASSUME TypeOK, GapInv, SelectUI PROVE GapInv'
    OBVIOUS
<1>0. QueueTyped
    BY TypeParts
<1>1. /\ queue # <<>> /\ Head(queue).id # "ui" /\ queue' = Tail(queue)
      /\ main = "receive" /\ main' = "stop" /\ m_UI' = m_UI /\ live' = live
    BY DEF SelectUI, KeyTo, Take
<1>2. GapsHold(queue') /\ (FrontHolds(queue) => FrontHolds(queue'))
    BY <1>0, <1>1, TailGaps DEF GapInv
<1>3. live # 0 /\ (m_UI = 0 => FrontHolds(queue))
    BY <1>1 DEF GapInv
<1>4. ~(main' \in {"wait", "clear", "load"}) /\ ~(main' \in {"clear", "load"})
    BY <1>1
<1> QED
    BY Zenon, <1>1, <1>2, <1>3, <1>4 DEF GapInv

(* ... sends the null pointer, behind which there is nothing yet, ...      *)
LEMMA AnnounceKeepsGap == TypeOK /\ GapInv /\ AnnounceNone => GapInv'
<1> SUFFICES ASSUME TypeOK, GapInv, AnnounceNone PROVE GapInv'
    OBVIOUS
<1> DEFINE none == [id |-> "ui", ui |-> 0]
<1>0. queue \in Seq(Event)
    BY DEF TypeOK
<1>1. main = "stop" /\ main' = "announced" /\ m_UI' = m_UI
    BY DEF AnnounceNone
<1>2. queue' = Append(queue, none) \/ queue' = queue
    BY Zenon DEF AnnounceNone
<1>3. none.id # "key"
    OBVIOUS
<1> HIDE DEF none
<1>4. GapsHold(queue') /\ (FrontHolds(queue) => FrontHolds(queue'))
    BY <1>0, <1>2, <1>3, AppendNoStray DEF GapInv
<1>5. m_UI = 0 => FrontHolds(queue)
    BY <1>1 DEF GapInv
<1>6. ~(main' \in {"receive", "stop"}) /\ ~(main' \in {"wait", "clear", "load"})
         /\ ~(main' \in {"clear", "load"})
    BY <1>1
<1> QED
    BY Zenon, <1>1, <1>4, <1>5, <1>6 DEF GapInv

(* ... stops the polling, and has the UI deleted once Run is at rest ...   *)
LEMMA UnloadKeepsGap == GapInv /\ (StopPolling \/ UnloadUI \/ ClearUI) => GapInv'
<1> SUFFICES ASSUME GapInv, StopPolling \/ UnloadUI \/ ClearUI PROVE GapInv'
    OBVIOUS
<1>1. /\ main \in {"announced", "wait", "clear"} /\ main' \in {"wait", "clear", "load"}
      /\ queue' = queue /\ run' = run
      /\ main' # "load" => m_UI' = m_UI
    BY DEF StopPolling, UnloadUI, ClearUI
<1>2. ~m_Polling'
  <2>1. UnloadUI \/ ClearUI => m_Polling' = m_Polling /\ main \in {"wait", "clear", "load"}
    <3>1. UnloadUI \/ ClearUI => main \in {"wait", "clear", "load"}
        BY DEF UnloadUI, ClearUI
    <3> QED
        BY Zenon, <3>1 DEF UnloadUI, ClearUI
  <2>2. StopPolling => m_Polling' = FALSE
      BY Zenon DEF StopPolling
  <2> QED
      BY Zenon, <2>1, <2>2 DEF GapInv
<1>3. main' \in {"clear", "load"} => run' = "idle"
  <2>1. StopPolling => ~(main' \in {"clear", "load"})
      BY DEF StopPolling
  <2>2. UnloadUI => run = "idle"
      BY Zenon DEF UnloadUI
  <2>3. ClearUI => main \in {"clear", "load"}
      BY DEF ClearUI
  <2> QED
      BY Zenon, <1>1, <2>1, <2>2, <2>3 DEF GapInv
<1>4. main # "load" /\ ~(main' \in {"receive", "stop"})
    BY <1>1
<1>5. GapsHold(queue') /\ (m_UI' = 0 /\ main' # "load" => FrontHolds(queue'))
    BY Zenon, <1>1, <1>4 DEF GapInv
<1> QED
    BY Zenon, <1>2, <1>3, <1>4, <1>5 DEF GapInv

(* ... and sends the pointer to the next.                                  *)
LEMMA LoadKeepsGap == TypeOK /\ GapInv /\ LoadUI => GapInv'
<1> SUFFICES ASSUME TypeOK, GapInv, LoadUI PROVE GapInv'
    OBVIOUS
<1> DEFINE new == [id |-> "ui", ui |-> uis + 1]
<1>0. queue \in Seq(Event) /\ uis \in Nat
    BY PluginHostAssumption DEF TypeOK, PluginHostAssumption
<1>1. main' = "receive" /\ m_UI' = uis + 1 /\ live' = uis + 1
    BY DEF LoadUI
<1>2. queue' = Append(queue, new) \/ queue' = queue
    BY Zenon DEF LoadUI
<1>3. new.id # "key"
    OBVIOUS
<1> HIDE DEF new
<1>4. GapsHold(queue')
    BY <1>0, <1>2, <1>3, AppendNoStray DEF GapInv
<1>5. m_UI' # 0 /\ live' # 0
    BY <1>0, <1>1
<1>6. ~(main' \in {"wait", "clear", "load"}) /\ ~(main' \in {"clear", "load"})
    BY <1>1
<1> QED
    BY Zenon, <1>4, <1>5, <1>6 DEF GapInv

(* A pointer is handled: if it is the null pointer its gap is now that of  *)
(* m_UI.                                                                   *)
LEMMA PointerKeepsGap == TypeOK /\ GapInv /\ NewUIPointer => GapInv'
<1> SUFFICES ASSUME TypeOK, GapInv, NewUIPointer PROVE GapInv'
    OBVIOUS
<1>0. QueueTyped
    BY TypeParts
<1>1. /\ queue # <<>> /\ Head(queue).id = "ui" /\ queue' = Tail(queue)
      /\ m_UI' = Head(queue).ui
      /\ main = "receive" /\ main' = main /\ live' = live
    BY DEF NewUIPointer, Take
<1>2. GapsHold(queue') /\ (m_UI' = 0 => FrontHolds(queue'))
    BY <1>0, <1>1, TailGaps DEF GapInv
<1>3. live' # 0
    BY <1>1 DEF GapInv
<1>4. ~(main' \in {"wait", "clear", "load"}) /\ ~(main' \in {"clear", "load"})
    BY <1>1
<1> QED
    BY Zenon, <1>2, <1>3, <1>4 DEF GapInv

LEMMA GapStep == TypeOK /\ PointerInv /\ GapInv /\ [Next]_vars => GapInv'
<1> SUFFICES ASSUME TypeOK, PointerInv, GapInv, [Next]_vars PROVE GapInv'
    OBVIOUS
<1>0. QueueTyped
    BY TypeParts
<1> DEFINE giveup == [id |-> "giveup"]
<1>a. /\ giveup.id # "ui" /\ giveup.id # "key"
      /\ \A i : LET e == [id |-> "exited", type |-> type[i]] IN e.id # "ui" /\ e.id # "key"
    OBVIOUS
<1> HIDE DEF giveup
<1>1. SelectUI \/ AnnounceNone \/ StopPolling \/ UnloadUI \/ ClearUI \/ LoadUI \/ NewUIPointer => GapInv'
    BY SelectKeepsGap, AnnounceKeepsGap, UnloadKeepsGap, LoadKeepsGap, PointerKeepsGap
<1>2. KeyFalls \/ Navigate \/ ShowStatus \/ ContinueApp \/ PluginExited \/ GiveUp \/ LoadUIFails
          \/ SelectSkin \/ KillPlugin => Mild(giveup)
  <2>1. KeyTo \/ Take("key") \/ Take("status") \/ Take("exited") \/ Take("giveup") \/ Take("combo") =>
            main = "receive" /\ queue # <<>> /\ Head(queue).id # "ui"
      BY DEF KeyTo, Take
  <2>2. KeyFalls \/ Navigate \/ ShowStatus \/ ContinueApp \/ PluginExited \/ GiveUp \/ LoadUIFails
            => Mild(giveup)
      BY Zenon, <1>a, <2>1 DEF KeyFalls, Navigate, ShowStatus, ContinueApp, PluginExited, GiveUp,
            LoadUIFails, Mild, uiVars
  <2>3. SelectSkin \/ KillPlugin => Mild(giveup)
      BY Zenon, <1>a, <2>1 DEF SelectSkin, KillPlugin, Mild, uiVars, giveup
  <2> QED
      BY <2>2, <2>3
<1>3. ASSUME NEW t \in Types, StartPlugin(t) \/ StopPlugin(t) PROVE Mild(giveup)
  <2>1. main = "receive" /\ queue # <<>> /\ Head(queue).id # "ui"
      BY <1>3 DEF StartPlugin, StopPlugin, KeyTo, Take
  <2> QED
      BY Zenon, <1>3, <1>a, <2>1 DEF StartPlugin, StopPlugin, Mild, uiVars
<1>4. RunStep => GapInv' \/ \E e : Mild(e)
    BY Zenon, RunMild, SendKeyKeepsGap DEF RunStep, PassStep
<1>5. ASSUME NEW i \in Plugins,
             RequestAccess(i) \/ FreezeUI(i) \/ StopLatch(i) \/ MarkType(i) \/ SwitchToRadio(i)
                 \/ Exit(i) \/ ExitGivesUp(i)
      PROVE  \E e : Mild(e)
  <2>1. RequestAccess(i) \/ FreezeUI(i) \/ StopLatch(i) \/ MarkType(i) => Mild(giveup)
      BY Zenon, <1>a DEF RequestAccess, FreezeUI, StopLatch, MarkType, Mild, uiVars
  <2>2. SwitchToRadio(i) \/ ExitGivesUp(i) => Mild(giveup)
      BY Zenon, <1>a DEF SwitchToRadio, ExitGivesUp, Mild, uiVars, giveup
  <2>3. Exit(i) => Mild([id |-> "exited", type |-> type[i]])
      BY Zenon, <1>a DEF Exit, Mild, uiVars
  <2> QED
      BY <1>5, <2>1, <2>2, <2>3
<1>6. UNCHANGED vars => Mild(giveup)
    BY Zenon, <1>a DEF vars, Mild, uiVars
<1>7. \A e : Mild(e) => GapInv'
    BY <1>0, MildKeeps
<1> HIDE DEF Mild
<1> QED
    BY Zenon, <1>1, <1>2, <1>3, <1>4, <1>5, <1>6, <1>7 DEF Next, MainStep

(* However many switches and plugins there are and whatever Run sends in   *)
(* its passes, no key is handled while m_UI is null but one sent between   *)
(* the event that clears m_UI and the end of the wait in StopPolling.      *)
THEOREM OnlyGapKeysMeetNone == Spec => []KeysMeetAUI
<1>1. Init => GapInv
  <2> SUFFICES ASSUME Init PROVE GapInv
      OBVIOUS
  <2>1. queue = <<>> /\ main = "load" /\ run = "idle"
      BY DEF Init
  <2>2. ~m_Polling
      BY Zenon DEF Init
  <2>3. GapsHold(queue)
      BY <2>1 DEF GapsHold
  <2>4. ~(main \in {"receive", "stop"})
      BY <2>1
  <2> QED
      BY Zenon, <2>1, <2>2, <2>3, <2>4 DEF GapInv
<1>2. Init => PointerInv
    BY DEF Init, PointerInv, NoPointer
<1>3. TypeOK /\ GapInv => KeysMeetAUI
  <2> SUFFICES ASSUME TypeOK, GapInv, main = "receive",
                      NEW i \in DOMAIN queue, IsStray(queue, i), NullAt(i)
               PROVE  FALSE
      BY Zenon DEF KeysMeetAUI, IsStray
  <2>1. DOMAIN queue = 1 .. Len(queue) /\ Len(queue) \in Nat
      BY DEF TypeOK
  <2>2. ~IsPointer(queue, i)
      BY DEF IsStray, IsPointer
  <2>3. CASE m_UI = 0 /\ \A l \in 1 .. i - 1 : ~IsPointer(queue, l)
    <3>1. FrontHolds(queue)
        BY <2>3 DEF GapInv
    <3>2. PICK k \in 1 .. i : IsPointer(queue, k)
        BY <3>1 DEF FrontHolds
    <3> QED
        BY <2>1, <2>2, <2>3, <3>2
  <2>4. CASE \E l \in 1 .. i - 1 :
                 /\ IsPointer(queue, l) /\ queue[l].ui = 0
                 /\ \A k \in l + 1 .. i - 1 : ~IsPointer(queue, k)
    <3>1. PICK l \in 1 .. i - 1 :
                 /\ IsNone(queue, l)
                 /\ \A k \in l + 1 .. i - 1 : ~IsPointer(queue, k)
        BY <2>4 DEF IsNone
    <3>2. l \in DOMAIN queue /\ l < i
        BY <2>1
    <3>3. PICK k \in l + 1 .. i : IsPointer(queue, k)
        BY <3>1, <3>2 DEF GapInv, GapsHold
    <3> QED
        BY <2>1, <2>2, <3>1, <3>3
  <2> QED
      BY <2>3, <2>4 DEF NullAt
<1> QED
    BY TypeCorrect, PointerStep, GapStep, <1>1, <1>2, <1>3, PTL DEF Spec

=============================================================================
