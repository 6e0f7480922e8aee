-------------------------- MODULE PlayControlProofs --------------------------
(***************************************************************************)
(* Proofs about the player for any library of lists and any number of keys *)
(* and reports: the cursors hold, a player that is stopped is silent, what *)
(* is heard is what is shown, no cursor leads nowhere but one that was     *)
(* unset, and it implements SoundObject.                                   *)
(***************************************************************************)
EXTENDS PlayControl, TLAPS

(* A cursor whose positions fit the lists.                                 *)
CursorOK(ls, x) ==
    /\ x \in Indexers(ls)
    /\ HasElements(ls, x) => AtElement(ls, x)
    /\ x.list # 0 => x.container # 0

CursorInv ==
    /\ CursorOK(lists, selection)
    /\ CursorOK(lists, playing)
    /\ side = "elements" => selection.list # 0
    /\ lists # <<>> => selection.list # 0

Has(q, c) == \E i \in DOMAIN q : q[i] = c
Pending(q, id) == \E i \in DOMAIN q : q[i].id = id
NoneFresh(q) == \A i \in DOMAIN q : q[i].id \in {"EOS", "DECODING"} => q[i].stale

Waits == main \in Stopping

(* Stop and its answer: while a Stop waits its command is the last one.    *)
StopInv ==
    /\ okBlocker > 0 => Waits /\ commands = <<>> /\ dec = "receive" /\ heard = "none"
    /\ Waits => m_CurrentState = "STOP"
    /\ Waits /\ okBlocker = 0 => Has(commands, "STOP")
    /\ \A i \in DOMAIN commands : commands[i] = "STOP" => Waits /\ i = Len(commands)
    /\ StoppedIsSilent
    /\ main = "receive" /\ m_CurrentState = "STOP" => NoneFresh(events)

(* The decoder and the flag that says it is there.                         *)
DecoderInv ==
    /\ heard # "none" => bDecoderCreated
    /\ dec = "opening" => heard = "none" /\ target # "none"
    /\ dec = "decoding" => bDecoderCreated
    /\ uri = "none" => /\ m_CurrentState = "STOP"
                       /\ dec = "receive" /\ resume = "no"
                       /\ ~Has(commands, "START") /\ ~Has(commands, "DECODE")
                       /\ ~Has(commands, "SEEK")

(* While the player is not stopped: the cursor, the URI, and what is or is *)
(* about to be heard agree; a flag without a decoder is soon put right.    *)
PlayInv ==
    main = "receive" /\ m_CurrentState # "STOP" =>
        /\ ~slipped => AtURI
        /\ ~slipped /\ ~Has(commands, "START") =>
               /\ heard \in {"none", uri}
               /\ dec = "opening" => target = uri
        /\ bDecoderCreated /\ heard = "none" =>
               Has(commands, "START") \/ dec = "opening" \/ Pending(events, "OPEN_ERROR")

-----------------------------------------------------------------------------
(* The cursors.                                                            *)

Lists == Seq(Seq(Tracks))

LEMMA RoundInside ==
    ASSUME NEW i \in Nat, i > 0, NEW n \in Nat, NEW m \in Nat, m > 0
    PROVE  Round(i, n, m) \in 1..m
  BY DEF Round

LEMMA AssociateOK ==
    ASSUME NEW ls \in Lists, NEW x \in Indexers(ls), x.container # 0
    PROVE  /\ CursorOK(ls, AssociateElementList(ls, x))
           /\ AssociateElementList(ls, x).list = x.container
  <1>1. ls # <<>> /\ x.container \in 1..Len(ls)
    BY DEF Indexers, Lists
  <1>2. AssociateElementList(ls, x) =
            [container |-> x.container, list |-> x.container, element |-> 1]
    BY <1>1 DEF AssociateElementList, Indexers
  <1>3. ls[x.container] \in Seq(Tracks)
    BY <1>1 DEF Lists
  <1> QED
    BY <1>1, <1>2, <1>3 DEF CursorOK, Indexers, HasElements, AtElement

LEMMA ContainerMoves ==
    ASSUME NEW ls \in Lists, NEW x, CursorOK(ls, x),
           ls # <<>> => x.container # 0, NEW n \in Nat
    PROVE  /\ CursorOK(ls, NextContainer(ls, x, n))
           /\ ls # <<>> => NextContainer(ls, x, n).list # 0
  <1>1. CASE ls = <<>>
    BY <1>1 DEF NextContainer
  <1>2. CASE ls # <<>>
    <2> DEFINE c == Round(x.container, n, Len(ls))
               y == [x EXCEPT !.container = c]
    <2>1. c \in 1..Len(ls)
      <3>1. x.container \in Nat /\ x.container > 0 /\ Len(ls) \in Nat /\ Len(ls) > 0
        BY <1>2 DEF CursorOK, Indexers, Lists
      <3> QED
        BY <3>1, RoundInside
    <2>2. y \in Indexers(ls) /\ y.container = c
      BY <2>1 DEF CursorOK, Indexers
    <2>3. NextContainer(ls, x, n) = AssociateElementList(ls, y)
      BY <1>2 DEF NextContainer
    <2>4. y.container # 0
      BY <2>1, <2>2
    <2> HIDE DEF y, c
    <2>5. CursorOK(ls, AssociateElementList(ls, y)) /\ AssociateElementList(ls, y).list = c
      BY <2>2, <2>4, AssociateOK
    <2> QED
      BY <2>1, <2>3, <2>5
  <1> QED
    BY <1>1, <1>2

LEMMA ElementMoves ==
    ASSUME NEW ls \in Lists, NEW x, CursorOK(ls, x), NEW n \in Nat
    PROVE  /\ CursorOK(ls, NextElement(ls, x, n))
           /\ NextElement(ls, x, n).list = x.list
  <1>1. CASE ~HasElements(ls, x)
    BY <1>1 DEF NextElement
  <1>2. CASE HasElements(ls, x)
    <2> DEFINE e == Round(x.element, n, Len(ls[x.list]))
    <2>1. x.list \in 1..Len(ls) /\ ls[x.list] \in Seq(Tracks) /\ ls[x.list] # <<>>
      BY <1>2 DEF HasElements, CursorOK, Indexers, Lists
    <2>2. e \in 1..Len(ls[x.list])
      <3>1. /\ x.element \in Nat /\ x.element > 0
            /\ Len(ls[x.list]) \in Nat /\ Len(ls[x.list]) > 0
        BY <1>2, <2>1 DEF CursorOK, AtElement
      <3> QED
        BY <3>1, RoundInside
    <2>3. NextElement(ls, x, n) = [x EXCEPT !.element = e]
      BY <1>2 DEF NextElement
    <2> HIDE DEF e
    <2> QED
      BY <1>2, <2>1, <2>2, <2>3 DEF CursorOK, Indexers, HasElements, AtElement
  <1> QED
    BY <1>1, <1>2

LEMMA BackwardMoves ==
    ASSUME NEW ls \in Lists, NEW x, CursorOK(ls, x),
           ls # <<>> => x.container # 0, NEW n \in {1, 10}
    PROVE  /\ CursorOK(ls, PrevContainer(ls, x, n))
           /\ ls # <<>> => PrevContainer(ls, x, n).list # 0
           /\ CursorOK(ls, PrevElement(ls, x, n))
           /\ PrevElement(ls, x, n).list = x.list
  <1>1. ls # <<>> => n * (Len(ls) - 1) \in Nat
    BY DEF Lists
  <1>2. /\ CursorOK(ls, PrevContainer(ls, x, n))
        /\ ls # <<>> => PrevContainer(ls, x, n).list # 0
    BY <1>1, ContainerMoves DEF PrevContainer, NextContainer
  <1>3. HasElements(ls, x) => n * (Len(ls[x.list]) - 1) \in Nat
    BY DEF Lists, HasElements, CursorOK, Indexers
  <1>4. /\ CursorOK(ls, PrevElement(ls, x, n))
        /\ PrevElement(ls, x, n).list = x.list
    BY <1>3, ElementMoves DEF PrevElement
  <1> QED
    BY <1>2, <1>4

(* The moves over all containers: an element, or a container of its own.   *)
LEMMA GlobalMoves ==
    ASSUME NEW ls \in Lists, NEW x, CursorOK(ls, x), ls # <<>> => x.list # 0
    PROVE  /\ CursorOK(ls, NextGlobalElement(ls, x))
           /\ CursorOK(ls, PrevGlobalElement(ls, x))
           /\ x.list # 0 => /\ NextGlobalElement(ls, x).list # 0
                            /\ PrevGlobalElement(ls, x).list # 0
  <1>1. CASE ~HasElements(ls, x)
    BY <1>1 DEF NextGlobalElement, PrevGlobalElement
  <1>2. CASE HasElements(ls, x)
    <2>1. x.list \in 1..Len(ls) /\ ls[x.list] \in Seq(Tracks) /\ ls # <<>>
      BY <1>2 DEF HasElements, CursorOK, Indexers, Lists
    <2>2. x.element \in 1..Len(ls[x.list]) /\ x.container # 0
      BY <1>2, <2>1 DEF CursorOK, AtElement
    <2>3. ASSUME NEW e \in 1..Len(ls[x.list])
          PROVE  CursorOK(ls, [x EXCEPT !.element = e]) /\ [x EXCEPT !.element = e].list = x.list
      BY <2>1, <2>2 DEF CursorOK, Indexers, HasElements, AtElement
    <2>4. /\ CursorOK(ls, NextContainer(ls, x, 1)) /\ NextContainer(ls, x, 1).list # 0
          /\ CursorOK(ls, PrevContainer(ls, x, 1)) /\ PrevContainer(ls, x, 1).list # 0
      BY <2>1, <2>2, ContainerMoves, BackwardMoves
    <2>5. /\ CursorOK(ls, NextGlobalElement(ls, x))
          /\ NextGlobalElement(ls, x).list # 0
      <3>1. CASE x.element = Len(ls[x.list])
        BY <1>2, <2>4, <3>1 DEF NextGlobalElement
      <3>2. CASE x.element # Len(ls[x.list])
        <4>1. x.element + 1 \in 1..Len(ls[x.list])
          BY <2>1, <2>2, <3>2
        <4>2. NextGlobalElement(ls, x) = [x EXCEPT !.element = x.element + 1]
          BY <1>2, <3>2 DEF NextGlobalElement
        <4> QED
          BY <2>1, <2>3, <4>1, <4>2
      <3> QED
        BY <3>1, <3>2
    <2>6. /\ CursorOK(ls, PrevGlobalElement(ls, x))
          /\ PrevGlobalElement(ls, x).list # 0
      <3>1. CASE x.element = 1
        BY <1>2, <2>4, <3>1 DEF PrevGlobalElement
      <3>2. CASE x.element # 1
        <4>1. x.element - 1 \in 1..Len(ls[x.list])
          BY <2>1, <2>2, <3>2
        <4>2. PrevGlobalElement(ls, x) = [x EXCEPT !.element = x.element - 1]
          BY <1>2, <3>2 DEF PrevGlobalElement
        <4> QED
          BY <2>1, <2>3, <4>1, <4>2
      <3> QED
        BY <3>1, <3>2
    <2> QED
      BY <2>5, <2>6
  <1> QED
    BY <1>1, <1>2

LEMMA FollowingOK ==
    ASSUME NEW ls \in Lists, ls = lists, NEW x, CursorOK(ls, x),
           ls # <<>> => x.list # 0, NEW mode
    PROVE  CursorOK(ls, Following(mode, x)) /\ (x.list # 0 => Following(mode, x).list # 0)
  BY GlobalMoves, ElementMoves DEF Following

LEMMA SelectionOK ==
    ASSUME NEW ls \in Lists
    PROVE  /\ CursorOK(ls, SelectionOf(ls)) /\ CursorOK(ls, Unset)
           /\ ls # <<>> => SelectionOf(ls).list # 0
  <1>1. CursorOK(ls, Unset)
    BY DEF CursorOK, Unset, Indexers, HasElements, Lists
  <1>2. CASE ls = <<>>
    <2>1. SelectionOf(ls) = Unset
      BY <1>2 DEF SelectionOf, AssociateElementList, Unset
    <2> QED
      BY <1>1, <1>2, <2>1
  <1>3. CASE ls # <<>>
    <2> DEFINE y == [container |-> 1, list |-> 0, element |-> 0]
    <2>1. y \in Indexers(ls) /\ y.container # 0
      BY <1>3 DEF Indexers, Lists
    <2>2. SelectionOf(ls) = AssociateElementList(ls, y)
      BY <1>3 DEF SelectionOf
    <2> QED
      BY <1>1, <2>1, <2>2, AssociateOK
  <1> QED
    BY <1>1, <1>2, <1>3

-----------------------------------------------------------------------------
(* The queues.                                                             *)

Command == {"START", "DECODE", "SEEK", "PAUSE", "STOP"}
EventType == [id : {"key", "RESUMED"} \cup Reports, stale : BOOLEAN]

LEMMA HasAppended ==
    ASSUME NEW S, NEW q \in Seq(S), NEW d \in S, NEW c
    PROVE  Has(Append(q, d), c) <=> Has(q, c) \/ d = c
  <1>1. DOMAIN q = 1..Len(q) /\ DOMAIN Append(q, d) = 1..(Len(q) + 1) /\ Len(q) \in Nat
    OBVIOUS
  <1>2. Append(q, d)[Len(q) + 1] = d /\ \A i \in 1..Len(q) : Append(q, d)[i] = q[i]
    OBVIOUS
  <1>3. ASSUME Has(Append(q, d), c)
        PROVE  Has(q, c) \/ d = c
    <2>1. PICK i \in 1..(Len(q) + 1) : Append(q, d)[i] = c
      BY <1>1, <1>3 DEF Has
    <2> QED
      BY <1>1, <1>2, <2>1 DEF Has
  <1>4. ASSUME Has(q, c) \/ d = c
        PROVE  Has(Append(q, d), c)
    <2>1. CASE d = c
      BY <1>1, <1>2, <2>1 DEF Has
    <2>2. CASE Has(q, c)
      BY <1>1, <1>2, <2>2 DEF Has
    <2> QED
      BY <1>4, <2>1, <2>2
  <1> QED
    BY <1>3, <1>4

LEMMA HasRest ==
    ASSUME NEW S, NEW q \in Seq(S), q # <<>>, NEW c
    PROVE  /\ Has(q, c) <=> Head(q) = c \/ Has(Tail(q), c)
           /\ Head(q) \in S /\ Tail(q) \in Seq(S)
  <1>1. DOMAIN q = 1..Len(q) /\ DOMAIN Tail(q) = 1..(Len(q) - 1) /\ Len(q) \in Nat \ {0}
    OBVIOUS
  <1>2. Head(q) = q[1] /\ \A i \in 1..(Len(q) - 1) : Tail(q)[i] = q[i + 1]
    OBVIOUS
  <1>3. ASSUME Has(q, c)
        PROVE  Head(q) = c \/ Has(Tail(q), c)
    <2>1. PICK i \in 1..Len(q) : q[i] = c
      BY <1>1, <1>3 DEF Has
    <2>2. CASE i # 1
      <3>1. i - 1 \in 1..(Len(q) - 1) /\ (i - 1) + 1 = i
        BY <1>1, <2>2
      <3> QED
        BY <1>1, <1>2, <2>1, <3>1 DEF Has
    <2> QED
      BY <1>2, <2>1, <2>2
  <1>4. ASSUME Head(q) = c \/ Has(Tail(q), c)
        PROVE  Has(q, c)
    <2>1. CASE Head(q) = c
      BY <1>1, <1>2, <2>1 DEF Has
    <2>2. CASE Has(Tail(q), c)
      <3>1. PICK i \in 1..(Len(q) - 1) : Tail(q)[i] = c
        BY <1>1, <2>2 DEF Has
      <3>2. i + 1 \in 1..Len(q)
        BY <1>1
      <3> QED
        BY <1>1, <1>2, <3>1, <3>2 DEF Has
    <2> QED
      BY <1>4, <2>1, <2>2
  <1>5. Head(q) \in S /\ Tail(q) \in Seq(S)
    BY <1>1
  <1> QED
    BY <1>3, <1>4, <1>5

LEMMA EventAppended ==
    ASSUME NEW q \in Seq(EventType), NEW e \in EventType, NEW id
    PROVE  /\ Append(q, e) \in Seq(EventType)
           /\ Pending(q, id) \/ e.id = id => Pending(Append(q, e), id)
           /\ NoneFresh(q) /\ e.id \notin {"EOS", "DECODING"} => NoneFresh(Append(q, e))
  <1>1. DOMAIN q = 1..Len(q) /\ DOMAIN Append(q, e) = 1..(Len(q) + 1) /\ Len(q) \in Nat
    OBVIOUS
  <1>2. Append(q, e)[Len(q) + 1] = e /\ \A i \in 1..Len(q) : Append(q, e)[i] = q[i]
    OBVIOUS
  <1>3. Append(q, e) \in Seq(EventType)
    OBVIOUS
  <1>4. Pending(q, id) \/ e.id = id => Pending(Append(q, e), id)
    BY <1>1, <1>2 DEF Pending
  <1>5. NoneFresh(q) /\ e.id \notin {"EOS", "DECODING"} => NoneFresh(Append(q, e))
    BY <1>1, <1>2 DEF NoneFresh
  <1> QED
    BY <1>3, <1>4, <1>5

LEMMA EventsRest ==
    ASSUME NEW q \in Seq(EventType), q # <<>>, NEW id
    PROVE  /\ Tail(q) \in Seq(EventType) /\ Head(q) \in EventType
           /\ Pending(q, id) => Head(q).id = id \/ Pending(Tail(q), id)
           /\ NoneFresh(q) => NoneFresh(Tail(q))
           /\ NoneFresh(q) /\ Head(q).id \in {"EOS", "DECODING"} => Head(q).stale
  <1>1. DOMAIN q = 1..Len(q) /\ DOMAIN Tail(q) = 1..(Len(q) - 1) /\ Len(q) \in Nat \ {0}
    OBVIOUS
  <1>2. Head(q) = q[1] /\ \A i \in 1..(Len(q) - 1) : Tail(q)[i] = q[i + 1]
    OBVIOUS
  <1>3. Tail(q) \in Seq(EventType) /\ Head(q) \in EventType
    BY <1>1
  <1>4. ASSUME Pending(q, id), Head(q).id # id
        PROVE  Pending(Tail(q), id)
    <2>1. PICK i \in 1..Len(q) : q[i].id = id
      BY <1>1, <1>4 DEF Pending
    <2>2. i - 1 \in 1..(Len(q) - 1) /\ (i - 1) + 1 = i
      BY <1>1, <1>2, <1>4, <2>1
    <2> QED
      BY <1>1, <1>2, <2>1, <2>2 DEF Pending
  <1>5. NoneFresh(q) => NoneFresh(Tail(q))
    <2>1. \A i \in 1..(Len(q) - 1) : i + 1 \in 1..Len(q)
      BY <1>1
    <2> QED
      BY <1>1, <1>2, <2>1 DEF NoneFresh
  <1>6. NoneFresh(q) /\ Head(q).id \in {"EOS", "DECODING"} => Head(q).stale
    BY <1>1, <1>2 DEF NoneFresh
  <1> QED
    BY <1>3, <1>4, <1>5, <1>6

LEMMA EventsOutdated ==
    ASSUME NEW q \in Seq(EventType)
    PROVE  Outdated(q) \in Seq(EventType) /\ NoneFresh(Outdated(q))
  <1>1. DOMAIN q = 1..Len(q) /\ Len(q) \in Nat
    OBVIOUS
  <1>2. \A i \in 1..Len(q) : /\ [q[i] EXCEPT !.stale = TRUE] \in EventType
                             /\ [q[i] EXCEPT !.stale = TRUE].stale
    <2>1. \A i \in 1..Len(q) : q[i] \in EventType
      BY <1>1
    <2> QED
      BY <2>1 DEF EventType
  <1>3. Outdated(q) \in [1..Len(q) -> EventType]
    BY <1>1, <1>2 DEF Outdated
  <1>4. Outdated(q) \in Seq(EventType)
    BY <1>1, <1>3
  <1>5. NoneFresh(Outdated(q))
    BY <1>1, <1>2 DEF NoneFresh, Outdated
  <1> QED
    BY <1>4, <1>5

LEMMA EventTyped ==
    ASSUME NEW id \in {"key", "RESUMED"} \cup Reports
    PROVE  Event(id) \in EventType /\ Event(id).id = id /\ ~Event(id).stale
  BY DEF Event, EventType

-----------------------------------------------------------------------------
(* Types, in two parts.                                                    *)

PlayerTyped ==
    /\ m_CurrentState \in {"PLAY", "PAUSE", "STOP"}
    /\ uri \in Tracks \cup Nothing
    /\ m_Type \in {"file", "url"}
    /\ commands \in Seq(Command)
    /\ events \in Seq(EventType)
    /\ main \in {"receive", "wild"} \cup Stopping
    /\ resume \in {"no", "play", "pause"}
    /\ slipped \in BOOLEAN

DecoderTyped ==
    /\ okBlocker \in 0..1
    /\ dec \in {"receive", "opening", "sendDecode", "sendStart", "decoding", "crashed"}
    /\ target \in Tracks \cup Nothing
    /\ bDecoderCreated \in BOOLEAN
    /\ heard \in Tracks \cup Nothing
    /\ opened \in BOOLEAN

ScreenTyped ==
    /\ lists \in Library
    /\ side \in {"containers", "elements"}
    /\ screen \in {"playlist", "options"}
    /\ m_RequestOnPlayOrStop \in {"NOTHING", "STOP_REQUEST"}
    /\ OldPlayState \in {"PAUSE", "other"}

LEMMA TypeParts ==
    CursorInv => (TypeOK <=> PlayerTyped /\ DecoderTyped /\ ScreenTyped)
  <1>1. CursorInv => selection \in Indexers(lists) /\ playing \in Indexers(lists)
    BY DEF CursorInv, CursorOK
  <1>2. CursorInv /\ TypeOK => PlayerTyped
    BY DEF TypeOK, PlayerTyped, Command, EventType
  <1>3. CursorInv /\ TypeOK => DecoderTyped
    BY Zenon DEF TypeOK, DecoderTyped
  <1>4. CursorInv /\ TypeOK => ScreenTyped
    BY Zenon DEF TypeOK, ScreenTyped
  <1>5. CursorInv /\ PlayerTyped /\ DecoderTyped /\ ScreenTyped => TypeOK
    BY <1>1, Zenon DEF TypeOK, PlayerTyped, DecoderTyped, ScreenTyped, Command, EventType
  <1> QED
    BY <1>2, <1>3, <1>4, <1>5

-----------------------------------------------------------------------------
(* What a handler does to the player, for all handlers one of these.       *)

Handled(id) == Receive(id) /\ UNCHANGED decVars

Quieted ==
    /\ \E id \in {"key", "RESUMED", "DECODING", "EOS", "STOPPED"} : Handled(id)
    /\ events' = Tail(events)
    /\ UNCHANGED <<m_CurrentState, m_Type, commands, main, slipped, resume>>
    /\ \/ UNCHANGED <<lists, playing, uri>>
       \/ lists = <<>> /\ UNCHANGED <<lists, uri>>
       \/ /\ UNCHANGED <<lists, playing>>
          /\ AtElement(lists, playing) /\ uri' = Element(lists, playing)

Paused ==
    /\ Handled("key")
    /\ m_CurrentState = "PLAY" /\ m_CurrentState' = "PAUSE"
    /\ commands' = Append(commands, "PAUSE")
    /\ events' = Tail(events)
    /\ UNCHANGED <<lists, uri, m_Type, main, slipped, resume>>
    /\ UNCHANGED playing \/ slipped

Resumed ==
    /\ \E id \in {"key", "EOS"} : Handled(id)
    /\ m_CurrentState = "PAUSE" /\ m_CurrentState' = "PLAY"
    /\ commands' = Append(commands, "DECODE")
    /\ events' = Tail(events)
    /\ UNCHANGED <<lists, uri, m_Type, main, resume>>
    /\ slipped' \in BOOLEAN
    /\ (UNCHANGED <<playing, slipped>>) \/ slipped'

Started ==
    /\ \E id \in {"key", "EOS"} : Handled(id)
    /\ m_CurrentState' = "PLAY"
    /\ \/ commands' = Append(commands, "START")
       \/ commands' = Append(Append(commands, "DECODE"), "START")
    /\ events' = Outdated(Tail(events))
    /\ AtElement(lists, playing') /\ CursorOK(lists, playing')
    /\ uri' = Element(lists, playing')
    /\ m_Type' \in {"file", "url"}
    /\ slipped' = FALSE
    /\ UNCHANGED <<lists, main, resume>>

Wilded ==
    /\ \E id \in {"key", "DECODING", "EOS"} : Handled(id)
    /\ main' = "wild"
    /\ \/ UNCHANGED <<m_CurrentState, commands>>
       \/ /\ m_CurrentState = "PAUSE" /\ m_CurrentState' = "PLAY"
          /\ commands' = Append(commands, "DECODE")
    /\ events' = Tail(events)
    /\ UNCHANGED <<lists, uri, m_Type, resume>>
    /\ slipped' \in BOOLEAN
    /\ CursorOK(lists, playing') /\ ~AtElement(lists, playing')
    /\ playing.list # 0 => playing'.list # 0
    /\ Head(events).id = "key" /\ lists # <<>> => playing'.list # 0 \/ slipped

(* What a resume leaves to be done: a START or a DECODE, and no Stop.      *)
PlaysOn(q) ==
    /\ q \in Seq(Command) /\ ~Has(q, "STOP")
    /\ Has(q, "START") \/ Has(q, "DECODE")
    /\ Has(commands, "START") => Has(q, "START")
    /\ Has(q, "START") \/ (m_CurrentState = "PAUSE" /\ ~Has(commands, "START"))

PlayedOn ==
    /\ Handled("RESUMED") /\ resume # "no" /\ resume' = "no"
    /\ m_CurrentState' \in {"PLAY", "PAUSE"}
    /\ PlaysOn(commands')
    /\ events' = Tail(events)
    /\ slipped' \in BOOLEAN /\ (~slipped' => ~slipped /\ AtURI)
    /\ UNCHANGED <<lists, playing, uri, m_Type, main>>

(* A handler stops the player, or the power callback does.                 *)
StopBegins ==
    /\ main = "receive" /\ UNCHANGED decVars
    /\ m_CurrentState' = "STOP"
    /\ commands' = Append(commands, "STOP")
    /\ events' = events \/ (events # <<>> /\ events' = Tail(events))
    /\ main' \in Stopping
    /\ \/ UNCHANGED resume
       \/ m_CurrentState # "STOP" /\ resume' \in {"play", "pause"}
    /\ UNCHANGED <<lists, playing, uri, m_Type, slipped>>

Returned ==
    \E after \in Stopping : Answered(after)

PlayerEffect ==
    Quieted \/ Paused \/ Resumed \/ Started \/ Wilded \/ PlayedOn \/ StopBegins \/ Returned

(* The part of the invariant that is about the player.                     *)
PlayerInv == PlayerTyped /\ DecoderTyped /\ StopInv /\ DecoderInv /\ PlayInv

LEMMA ElementIsTrack ==
    ASSUME NEW ls \in Library, NEW x, AtElement(ls, x), x.list \in 0..Len(ls)
    PROVE  Element(ls, x) \in Tracks /\ Element(ls, x) # "none"
  <1>1. ls \in Seq(Seq(Tracks))
    BY PlayControlAssumption DEF PlayControlAssumption
  <1>2. x.list \in 1..Len(ls) /\ x.element \in DOMAIN ls[x.list]
    BY <1>1 DEF AtElement
  <1>3. ls[x.list] \in Seq(Tracks)
    BY <1>1, <1>2
  <1>4. ls[x.list][x.element] \in Tracks
    BY <1>2, <1>3
  <1> QED
    BY <1>4, PlayControlAssumption DEF PlayControlAssumption, Element

(* At the top of the loop no Stop is under way.                            *)
LEMMA Receiving ==
    ASSUME PlayerInv, main = "receive"
    PROVE  /\ okBlocker = 0 /\ ~Waits
           /\ \A i \in DOMAIN commands : commands[i] # "STOP"
           /\ ~Has(commands, "STOP")
  BY DEF PlayerInv, StopInv, Waits, Stopping, DecoderTyped, Has

LEMMA EffectTyped ==
    ASSUME PlayerInv, ScreenTyped, CursorInv, PlayerEffect
    PROVE  PlayerTyped' /\ DecoderTyped'
  <1> USE DEF PlayerInv
  <1>1. ASSUME NEW id, Handled(id)
        PROVE  /\ Tail(events) \in Seq(EventType)
               /\ Outdated(Tail(events)) \in Seq(EventType)
               /\ DecoderTyped' /\ main = "receive"
    <2>1. events # <<>> /\ events \in Seq(EventType) /\ main = "receive"
      BY <1>1 DEF Handled, Receive, PlayerTyped
    <2>2. Tail(events) \in Seq(EventType)
      BY <2>1, EventsRest
    <2>3. Outdated(Tail(events)) \in Seq(EventType)
      BY <2>2, EventsOutdated
    <2>4. DecoderTyped'
      BY <1>1, Zenon DEF Handled, decVars, DecoderTyped
    <2> QED
      BY <2>1, <2>2, <2>3, <2>4
  <1>2. commands \in Seq(Command)
    BY DEF PlayerTyped
  <1>3. \A c \in Command : Append(commands, c) \in Seq(Command)
    BY <1>2
  <1>4. Append(Append(commands, "DECODE"), "START") \in Seq(Command)
    BY <1>2 DEF Command
  <1>5. CASE Quieted
    <2>1. uri' \in Tracks \cup Nothing
      <3>1. AtElement(lists, playing) => Element(lists, playing) \in Tracks
        BY ElementIsTrack DEF ScreenTyped, CursorInv, CursorOK, Indexers
      <3> QED
        BY <1>5, <3>1 DEF Quieted, PlayerTyped
    <2>2. PlayerTyped'
      BY <1>1, <1>5, <2>1, Zenon DEF Quieted, PlayerTyped
    <2> QED
      BY <1>1, <1>5, <2>2 DEF Quieted
  <1>6. CASE Paused
    BY <1>1, <1>3, <1>6 DEF Paused, PlayerTyped, Command
  <1>7. CASE Resumed
    BY <1>1, <1>3, <1>7 DEF Resumed, PlayerTyped, Command
  <1>8. CASE Started
    <2>1. uri' \in Tracks
      BY <1>8, ElementIsTrack DEF Started, ScreenTyped, CursorOK, Indexers
    <2>2. commands' \in Seq(Command) /\ events' \in Seq(EventType) /\ DecoderTyped' /\ main' = "receive"
      BY <1>1, <1>3, <1>4, <1>8 DEF Started, Command
    <2>3. PlayerTyped'
      BY <1>8, <2>1, <2>2, Zenon DEF Started, PlayerTyped
    <2> QED
      BY <2>2, <2>3
  <1>9. CASE Wilded
    BY <1>1, <1>3, <1>9 DEF Wilded, PlayerTyped, Command
  <1>10. CASE StopBegins
    <2>1. events' \in Seq(EventType)
      BY <1>10, EventsRest DEF StopBegins, PlayerTyped
    <2>2. commands' \in Seq(Command) /\ main' \in Stopping
      BY <1>3, <1>10 DEF StopBegins, Command
    <2>3. resume' \in {"no", "play", "pause"}
      BY <1>10 DEF StopBegins, PlayerTyped
    <2>4. PlayerTyped'
      BY <1>10, <2>1, <2>2, <2>3, Zenon DEF StopBegins, PlayerTyped
    <2>5. DecoderTyped'
      BY <1>10, Zenon DEF StopBegins, decVars, DecoderTyped
    <2> QED
      BY <2>4, <2>5
  <1>11. CASE PlayedOn
    <2>1. m_CurrentState' \in {"PLAY", "PAUSE", "STOP"}
      BY <1>11 DEF PlayedOn, PlaysOn
    <2>2. PlayerTyped'
      BY <1>1, <1>11, <2>1, Zenon DEF PlayedOn, PlaysOn, PlayerTyped
    <2> QED
      BY <1>1, <1>11, <2>2 DEF PlayedOn, PlaysOn
  <1>12. CASE Returned
    <2>1. events' \in Seq(EventType)
      <3>1. Outdated(events) \in Seq(EventType)
        BY EventsOutdated DEF PlayerTyped
      <3>2. Event("STOPPED") \in EventType
        BY EventTyped DEF Reports
      <3> QED
        BY <1>12, <3>1, <3>2, EventAppended DEF Returned, Answered
    <2>2. PlayerTyped'
      BY <1>12, <2>1, Zenon DEF Returned, Answered, PlayerTyped, playerVars
    <2>3. okBlocker' \in 0..1
      BY <1>12 DEF Returned, Answered, DecoderTyped
    <2>4. DecoderTyped'
      BY <1>12, <2>3, Zenon DEF Returned, Answered, DecoderTyped
    <2> QED
      BY <2>2, <2>4
  <1> QED
    BY <1>5, <1>6, <1>7, <1>8, <1>9, <1>10, <1>11, <1>12 DEF PlayerEffect

(* Whoever handles an event is in the loop, and leaves the decoder alone.  *)
LEMMA Handling ==
    ASSUME PlayerInv, NEW id, Handled(id)
    PROVE  /\ main = "receive" /\ okBlocker = 0 /\ okBlocker' = 0
           /\ UNCHANGED <<dec, target, bDecoderCreated, heard>>
           /\ \A i \in DOMAIN commands : commands[i] # "STOP"
           /\ events # <<>> /\ Head(events).id = id
           /\ NoneFresh(events) => NoneFresh(Tail(events))
           /\ id # "OPEN_ERROR" /\ Pending(events, "OPEN_ERROR")
                 => Pending(Tail(events), "OPEN_ERROR")
  <1>1. main = "receive" /\ events # <<>> /\ Head(events).id = id
    BY DEF Handled, Receive
  <1>2. okBlocker = 0 /\ \A i \in DOMAIN commands : commands[i] # "STOP"
    BY <1>1, Receiving
  <1>3. UNCHANGED <<okBlocker, dec, target, bDecoderCreated, heard>>
    BY DEF Handled, decVars
  <1>4. events \in Seq(EventType)
    BY DEF PlayerInv, PlayerTyped
  <1>5. /\ NoneFresh(events) => NoneFresh(Tail(events))
        /\ Pending(events, "OPEN_ERROR")
              => Head(events).id = "OPEN_ERROR" \/ Pending(Tail(events), "OPEN_ERROR")
    BY <1>1, <1>4, EventsRest
  <1> QED
    BY <1>1, <1>2, <1>3, <1>5

(* A command other than Stop is added to a queue that holds no Stop.       *)
LEMMA NoStopAdded ==
    ASSUME commands \in Seq(Command), \A i \in DOMAIN commands : commands[i] # "STOP",
           NEW c \in Command \ {"STOP"}
    PROVE  \A i \in DOMAIN Append(commands, c) : Append(commands, c)[i] # "STOP"
  <1>1. ~Has(commands, "STOP")
    BY DEF Has
  <1>2. ~Has(Append(commands, c), "STOP")
    BY <1>1, HasAppended
  <1> QED
    BY <1>2 DEF Has

LEMMA EffectStopInv ==
    ASSUME PlayerInv, PlayerEffect
    PROVE  StopInv'
  <1>1. CASE Quieted
    <2>1. PICK id \in {"key", "RESUMED", "DECODING", "EOS", "STOPPED"} : Handled(id)
      BY <1>1 DEF Quieted
    <2>2. UNCHANGED <<main, commands, m_CurrentState>>
      BY <1>1 DEF Quieted
    <2>3. NoneFresh(events) => NoneFresh(events')
      BY <1>1, <2>1, Handling DEF Quieted
    <2>4. ~Waits /\ ~Waits'
      BY <2>1, <2>2, Handling DEF Waits, Stopping
    <2> QED
      BY <2>1, <2>2, <2>3, <2>4, Handling, SMTT(30) DEF PlayerInv, StopInv, StoppedIsSilent, NoneFresh
  <1>2. CASE Paused \/ Resumed \/ Started
    <2>1. PICK id : Handled(id)
      BY <1>2 DEF Paused, Resumed, Started
    <2>2. m_CurrentState' # "STOP" /\ main' = "receive"
      BY <1>2, <2>1, Handling DEF Paused, Resumed, Started
    <2>3. \A i \in DOMAIN commands' : commands'[i] # "STOP"
      <3>1. commands \in Seq(Command) /\ \A i \in DOMAIN commands : commands[i] # "STOP"
        BY <2>1, Handling DEF PlayerInv, PlayerTyped
      <3>2. \A i \in DOMAIN Append(commands, "PAUSE") : Append(commands, "PAUSE")[i] # "STOP"
        BY <3>1, NoStopAdded DEF Command
      <3>3. \A i \in DOMAIN Append(commands, "DECODE") : Append(commands, "DECODE")[i] # "STOP"
        BY <3>1, NoStopAdded DEF Command
      <3>4. \A i \in DOMAIN Append(commands, "START") : Append(commands, "START")[i] # "STOP"
        BY <3>1, NoStopAdded DEF Command
      <3>5. ~Has(Append(Append(commands, "DECODE"), "START"), "STOP")
        <4>1. ~Has(Append(commands, "DECODE"), "STOP")
          BY <3>3 DEF Has
        <4>2. Append(commands, "DECODE") \in Seq(Command)
          BY <3>1 DEF Command
        <4>3. "START" \in Command /\ "START" # "STOP"
          BY DEF Command
        <4> DEFINE q == Append(commands, "DECODE")
        <4> HIDE DEF q
        <4>4. Has(Append(q, "START"), "STOP") <=> Has(q, "STOP") \/ "START" = "STOP"
          BY <4>2, <4>3, HasAppended DEF q
        <4>5. ~Has(Append(q, "START"), "STOP")
          BY <4>1, <4>3, <4>4 DEF q
        <4> QED
          BY <4>5 DEF q
      <3>6. \A i \in DOMAIN Append(Append(commands, "DECODE"), "START") :
                Append(Append(commands, "DECODE"), "START")[i] # "STOP"
        BY <3>5 DEF Has
      <3> QED
        BY <1>2, <3>2, <3>3, <3>4, <3>6 DEF Paused, Resumed, Started
    <2>4. okBlocker' = 0
      BY <2>1, Handling
    <2> QED
      BY <2>2, <2>3, <2>4 DEF StopInv, Waits, Stopping, StoppedIsSilent
  <1>3. CASE Wilded
    <2>1. PICK id : Handled(id)
      BY <1>3 DEF Wilded
    <2>2. commands \in Seq(Command) /\ \A i \in DOMAIN commands : commands[i] # "STOP"
      BY <2>1, Handling DEF PlayerInv, PlayerTyped
    <2>3. \A i \in DOMAIN commands' : commands'[i] # "STOP"
      <3>1. \A i \in DOMAIN Append(commands, "DECODE") : Append(commands, "DECODE")[i] # "STOP"
        BY <2>2, NoStopAdded DEF Command
      <3> QED
        BY <1>3, <2>2, <3>1 DEF Wilded
    <2>4. okBlocker' = 0 /\ main' = "wild"
      BY <1>3, <2>1, Handling DEF Wilded
    <2> QED
      BY <2>3, <2>4 DEF StopInv, Waits, Stopping, StoppedIsSilent
  <1>4. CASE StopBegins
    <2>1. main = "receive" /\ UNCHANGED okBlocker
      BY <1>4 DEF StopBegins, decVars
    <2>2. commands \in Seq(Command) /\ \A i \in DOMAIN commands : commands[i] # "STOP"
      BY <2>1, Receiving DEF PlayerInv, PlayerTyped
    <2>3. /\ Has(commands', "STOP")
          /\ \A i \in DOMAIN commands' : commands'[i] = "STOP" => i = Len(commands')
      <3>1. commands' = Append(commands, "STOP")
        BY <1>4 DEF StopBegins
      <3>2. DOMAIN commands = 1..Len(commands) /\ DOMAIN commands' = 1..(Len(commands) + 1)
            /\ Len(commands') = Len(commands) + 1 /\ Len(commands) \in Nat
        BY <2>2, <3>1
      <3>3. /\ commands'[Len(commands) + 1] = "STOP"
            /\ \A i \in 1..Len(commands) : commands'[i] = commands[i]
        BY <2>2, <3>1
      <3>4. ASSUME NEW i \in DOMAIN commands', commands'[i] = "STOP"
            PROVE  i = Len(commands')
        <4>1. i \in 1..(Len(commands) + 1)
          BY <3>2, <3>4
        <4>2. i \notin 1..Len(commands)
          BY <2>2, <3>2, <3>3, <3>4
        <4> QED
          BY <3>2, <4>1, <4>2
      <3>5. Has(commands', "STOP")
        BY <3>2, <3>3 DEF Has
      <3> QED
        BY <3>4, <3>5
    <2>4. okBlocker' = 0 /\ Waits' /\ main' # "receive" /\ m_CurrentState' = "STOP"
      BY <1>4, <2>1, Receiving DEF StopBegins, Waits, Stopping
    <2> QED
      BY <2>3, <2>4 DEF StopInv, StoppedIsSilent
  <1>5. CASE PlayedOn
    <2>1. okBlocker' = 0 /\ main' = "receive" /\ ~Waits'
      BY <1>5, Handling DEF PlayedOn, PlaysOn, Waits, Stopping
    <2>2. \A i \in DOMAIN commands' : commands'[i] # "STOP"
      BY <1>5 DEF PlayedOn, PlaysOn, Has
    <2>3. m_CurrentState' # "STOP"
      BY <1>5 DEF PlayedOn, PlaysOn
    <2> QED
      BY <2>1, <2>2, <2>3 DEF StopInv, StoppedIsSilent
  <1>6. CASE Returned
    <2>1. PICK after \in Stopping : Answered(after)
      BY <1>6 DEF Returned
    <2>2. commands = <<>> /\ dec = "receive" /\ heard = "none" /\ m_CurrentState = "STOP"
      BY <2>1 DEF PlayerInv, StopInv, Answered, Waits, Stopping
    <2>3. UNCHANGED <<commands, dec, heard, m_CurrentState>> /\ main' = "receive"
      BY <2>1 DEF Answered, playerVars
    <2>4. okBlocker' = 0
      BY <2>1 DEF Answered, PlayerInv, DecoderTyped
    <2>5. NoneFresh(events')
      <3>1. Outdated(events) \in Seq(EventType) /\ NoneFresh(Outdated(events))
        BY EventsOutdated DEF PlayerInv, PlayerTyped
      <3>2. Event("STOPPED") \in EventType /\ Event("STOPPED").id = "STOPPED"
        BY EventTyped DEF Reports
      <3>3. NoneFresh(Append(Outdated(events), Event("STOPPED")))
        BY <3>1, <3>2, EventAppended
      <3> QED
        BY <2>1, <3>3 DEF Answered
    <2> QED
      BY <2>2, <2>3, <2>4, <2>5 DEF StopInv, StoppedIsSilent, Waits, Stopping
  <1> QED
    BY <1>1, <1>2, <1>3, <1>4, <1>5, <1>6 DEF PlayerEffect

(* What a command added to the queue adds to what is asked for.            *)
LEMMA CommandAdded ==
    ASSUME commands \in Seq(Command), NEW c \in Command, NEW d
    PROVE  Has(Append(commands, c), d) <=> Has(commands, d) \/ c = d
  BY HasAppended

LEMMA EffectDecoderInv ==
    ASSUME PlayerInv, ScreenTyped, CursorInv, PlayerEffect
    PROVE  DecoderInv'
  <1>1. UNCHANGED <<dec, target, bDecoderCreated, heard>>
    <2>1. CASE Returned
      BY <2>1 DEF Returned, Answered
    <2>2. CASE StopBegins
      BY <2>2 DEF StopBegins, decVars
    <2>3. CASE ~Returned /\ ~StopBegins
      <3>1. PICK id : Handled(id)
        BY <2>3 DEF PlayerEffect, Quieted, Paused, Resumed, Started, Wilded, PlayedOn, PlaysOn
      <3> QED
        BY <3>1, Handling
    <2> QED
      BY <2>1, <2>2, <2>3
  <1>2. commands \in Seq(Command)
    BY DEF PlayerInv, PlayerTyped
  <1>3. ASSUME uri' = "none"
        PROVE  /\ m_CurrentState' = "STOP" /\ dec = "receive" /\ resume' = "no"
               /\ ~Has(commands', "START") /\ ~Has(commands', "DECODE")
               /\ ~Has(commands', "SEEK")
    <2>1. CASE Started
      <3>1. uri' # "none"
        BY <2>1, ElementIsTrack DEF Started, CursorOK, Indexers, ScreenTyped
      <3> QED
        BY <1>3, <3>1
    <2>2. CASE Quieted
      <3>1. AtElement(lists, playing) => Element(lists, playing) # "none"
        BY ElementIsTrack DEF CursorInv, CursorOK, Indexers, ScreenTyped
      <3>2. uri = "none" /\ UNCHANGED <<commands, m_CurrentState, resume>>
        BY <1>3, <2>2, <3>1 DEF Quieted
      <3> QED
        BY <3>2 DEF PlayerInv, DecoderInv
    <2>3. CASE Paused \/ Resumed \/ Wilded \/ PlayedOn \/ StopBegins \/ Returned
      <3>1. uri = "none"
        BY <1>3, <2>3 DEF Paused, Resumed, Wilded, PlayedOn, PlaysOn, StopBegins, Returned, Answered, playerVars
      <3>2. /\ m_CurrentState = "STOP" /\ dec = "receive" /\ resume = "no"
            /\ ~Has(commands, "START") /\ ~Has(commands, "DECODE")
            /\ ~Has(commands, "SEEK")
        BY <3>1 DEF PlayerInv, DecoderInv
      <3>3. /\ \/ UNCHANGED <<commands, m_CurrentState>>
               \/ m_CurrentState' = "STOP" /\ commands' = Append(commands, "STOP")
            /\ UNCHANGED resume
        BY <2>3, <3>2 DEF Paused, Resumed, Wilded, PlayedOn, PlaysOn, StopBegins, Returned, Answered, playerVars
      <3>4. /\ ~Has(Append(commands, "STOP"), "START")
            /\ ~Has(Append(commands, "STOP"), "DECODE")
            /\ ~Has(Append(commands, "STOP"), "SEEK")
        BY <1>2, <3>2, CommandAdded DEF Command
      <3> QED
        BY <3>2, <3>3, <3>4
    <2> QED
      BY <2>1, <2>2, <2>3 DEF PlayerEffect
  <1> QED
    BY <1>1, <1>3 DEF PlayerInv, DecoderInv

(* The player goes on as it was, with a command more at most.              *)
LEMMA PlayGoesOn ==
    ASSUME PlayerInv, main = "receive", m_CurrentState # "STOP",
           UNCHANGED <<lists, uri, dec, target, bDecoderCreated, heard>>,
           (UNCHANGED <<playing, slipped>>) \/ slipped',
           Has(commands, "START") <=> Has(commands', "START"),
           Pending(events, "OPEN_ERROR") => Pending(events', "OPEN_ERROR")
    PROVE  PlayInv'
  <1>1. CASE UNCHANGED <<playing, slipped>>
    BY <1>1 DEF PlayerInv, PlayInv, AtURI
  <1>2. CASE slipped'
    BY <1>2 DEF PlayerInv, PlayInv
  <1> QED
    BY <1>1, <1>2

LEMMA EffectPlayInv ==
    ASSUME PlayerInv, ScreenTyped, CursorInv, PlayerEffect
    PROVE  PlayInv'
  <1>1. commands \in Seq(Command)
    BY DEF PlayerInv, PlayerTyped
  <1>2. CASE Quieted
    <2>1. PICK id \in {"key", "RESUMED", "DECODING", "EOS", "STOPPED"} : Handled(id)
      BY <1>2 DEF Quieted
    <2>2. /\ main = "receive" /\ UNCHANGED <<dec, target, bDecoderCreated, heard>>
          /\ Pending(events, "OPEN_ERROR") => Pending(events', "OPEN_ERROR")
      BY <1>2, <2>1, Handling DEF Quieted
    <2>3. UNCHANGED <<m_CurrentState, commands, slipped, lists>>
      BY <1>2 DEF Quieted
    <2>4. CASE m_CurrentState = "STOP"
      BY <2>3, <2>4 DEF PlayInv
    <2>5. CASE m_CurrentState # "STOP"
      <3>1. CASE slipped
        BY <2>2, <2>3, <2>5, <3>1 DEF PlayerInv, PlayInv
      <3>2. CASE ~slipped
        <4>1. AtURI
          BY <2>2, <2>5, <3>2 DEF PlayerInv, PlayInv
        <4>2. lists # <<>>
          BY <4>1, PlayControlAssumption DEF AtURI, AtElement, CursorInv, CursorOK, Indexers,
             ScreenTyped, PlayControlAssumption
        <4>3. UNCHANGED <<playing, uri>>
          BY <1>2, <4>1, <4>2 DEF Quieted, AtURI
        <4> QED
          BY <2>2, <2>3, <2>5, <4>3, PlayGoesOn
      <3> QED
        BY <3>1, <3>2
    <2> QED
      BY <2>4, <2>5
  <1>3. CASE Paused \/ Resumed
    <2>1. PICK id \in {"key", "EOS"} : Handled(id)
      BY <1>3 DEF Paused, Resumed
    <2>2. /\ main = "receive" /\ UNCHANGED <<dec, target, bDecoderCreated, heard>>
          /\ Pending(events, "OPEN_ERROR") => Pending(events', "OPEN_ERROR")
      BY <1>3, <2>1, Handling DEF Paused, Resumed
    <2>3. Has(commands, "START") <=> Has(commands', "START")
      <3>1. /\ Has(Append(commands, "PAUSE"), "START") <=> Has(commands, "START")
            /\ Has(Append(commands, "DECODE"), "START") <=> Has(commands, "START")
        BY <1>1, CommandAdded DEF Command
      <3> QED
        BY <1>3, <3>1 DEF Paused, Resumed
    <2>4. /\ m_CurrentState # "STOP" /\ UNCHANGED <<lists, uri>>
          /\ (UNCHANGED <<playing, slipped>>) \/ slipped'
      BY <1>3 DEF Paused, Resumed
    <2> QED
      BY <2>2, <2>3, <2>4, PlayGoesOn
  <1>4. CASE Started
    <2>1. Has(commands', "START")
      <3>1. Has(Append(commands, "START"), "START")
        BY <1>1, CommandAdded DEF Command
      <3>2. Has(Append(Append(commands, "DECODE"), "START"), "START")
        <4>1. Append(commands, "DECODE") \in Seq(Command) /\ "START" \in Command
          BY <1>1 DEF Command
        <4> QED
          BY <4>1, HasAppended
      <3> QED
        BY <1>4, <3>1, <3>2 DEF Started
    <2>2. AtElement(lists, playing') /\ UNCHANGED lists
      BY <1>4 DEF Started
    <2>3. uri' = Element(lists, playing')
      BY <1>4 DEF Started
    <2> QED
      BY <2>1, <2>2, <2>3 DEF PlayInv, AtURI
  <1>5. CASE Wilded \/ StopBegins
    BY <1>5 DEF Wilded, StopBegins, PlayInv
  <1>6. CASE Returned
    <2>1. m_CurrentState' = "STOP"
      BY <1>6 DEF Returned, Answered, playerVars, PlayerInv, StopInv, Waits, Stopping
    <2> QED
      BY <2>1 DEF PlayInv
  <1>7. CASE PlayedOn
    <2>1. /\ main = "receive" /\ UNCHANGED <<dec, target, bDecoderCreated, heard>>
          /\ Pending(events, "OPEN_ERROR") => Pending(events', "OPEN_ERROR")
      BY <1>7, Handling DEF PlayedOn, PlaysOn
    <2>2. /\ UNCHANGED <<lists, playing, uri>> /\ (~slipped' => ~slipped /\ AtURI)
          /\ Has(commands, "START") => Has(commands', "START")
      BY <1>7 DEF PlayedOn, PlaysOn
    <2>3. CASE Has(commands', "START")
      BY <2>2, <2>3 DEF PlayInv, AtURI
    <2>4. CASE m_CurrentState = "PAUSE" /\ ~Has(commands, "START")
      BY <2>1, <2>2, <2>4 DEF PlayerInv, PlayInv, AtURI
    <2> QED
      BY <1>7, <2>3, <2>4 DEF PlayedOn, PlaysOn
  <1> QED
    BY <1>2, <1>3, <1>4, <1>5, <1>6, <1>7 DEF PlayerEffect

LEMMA EffectKeeps ==
    ASSUME PlayerInv, ScreenTyped, CursorInv, PlayerEffect
    PROVE  PlayerInv'
  BY EffectTyped, EffectStopInv, EffectDecoderInv, EffectPlayInv DEF PlayerInv

-----------------------------------------------------------------------------
(* The handlers, each with its effect on the player and on the cursors.    *)

ScreenInv == ScreenTyped /\ CursorInv

(* What holds of the cursors whatever they are at.                         *)
LEMMA Cursors ==
    ASSUME ScreenInv
    PROVE  /\ lists \in Lists
           /\ CursorOK(lists, selection) /\ CursorOK(lists, playing)
           /\ CursorOK(lists, Cursor)
           /\ lists # <<>> => /\ selection.list # 0 /\ selection.container # 0
                              /\ Cursor.list # 0
  <1>1. lists \in Lists
    BY PlayControlAssumption DEF PlayControlAssumption, Lists, ScreenInv, ScreenTyped
  <1>2. CursorOK(lists, selection) /\ CursorOK(lists, playing)
    BY DEF ScreenInv, CursorInv
  <1>3. lists # <<>> => selection.list # 0 /\ selection.container # 0
    BY DEF ScreenInv, CursorInv, CursorOK
  <1> QED
    BY <1>1, <1>2, <1>3 DEF Cursor

(* The record a handler works on, field by field.                          *)
PlayerRecord ==
    [state : {"PLAY", "PAUSE", "STOP"}, uri : Tracks \cup Nothing, type : {"file", "url"},
     commands : Seq(Command), slipped : BOOLEAN, resume : {"no", "play", "pause"},
     events : Seq(EventType), wild : BOOLEAN]

LEMMA PlayerFields ==
    ASSUME PlayerInv, NEW id, Receive(id)
    PROVE  /\ Player \in PlayerRecord
           /\ Player.state = m_CurrentState /\ Player.uri = uri /\ Player.type = m_Type
           /\ Player.commands = commands /\ Player.slipped = slipped
           /\ Player.resume = resume
           /\ Player.events = Tail(events) /\ Player.wild = FALSE
  <1>1. Tail(events) \in Seq(EventType)
    BY EventsRest DEF PlayerInv, PlayerTyped, Receive
  <1>2. PlayerTyped
    BY DEF PlayerInv
  <1> QED
    BY <1>1, <1>2 DEF Player, PlayerRecord, PlayerTyped

LEMMA PlayFields ==
    ASSUME NEW p \in PlayerRecord
    PROVE  /\ Play(p) \in PlayerRecord
           /\ Play(p).state = "PLAY" /\ Play(p).uri = p.uri /\ Play(p).type = p.type
           /\ Play(p).commands =
                  Append(p.commands, IF p.state = "PAUSE" THEN "DECODE" ELSE "START")
           /\ Play(p).slipped = p.slipped /\ Play(p).resume = p.resume
           /\ Play(p).events = p.events /\ Play(p).wild = p.wild
  <1>1. Append(p.commands, IF p.state = "PAUSE" THEN "DECODE" ELSE "START") \in Seq(Command)
    BY DEF PlayerRecord, Command
  <1> QED
    BY <1>1 DEF Play, PlayerRecord

LEMMA SetURIFields ==
    ASSUME NEW p \in PlayerRecord, NEW track \in Tracks
    PROVE  /\ SetURI(p, track) \in PlayerRecord
           /\ SetURI(p, track).state = p.state /\ SetURI(p, track).uri = track
           /\ SetURI(p, track).type \in {"file", "url"}
           /\ SetURI(p, track).commands = p.commands /\ SetURI(p, track).slipped = FALSE
           /\ SetURI(p, track).resume = p.resume
           /\ SetURI(p, track).events = Outdated(p.events)
           /\ SetURI(p, track).wild = p.wild
  <1>1. Outdated(p.events) \in Seq(EventType)
    BY EventsOutdated DEF PlayerRecord
  <1> QED
    BY <1>1 DEF SetURI, PlayerRecord

LEMMA WildFields ==
    ASSUME NEW p \in PlayerRecord
    PROVE  /\ Wild(p).state = p.state /\ Wild(p).uri = p.uri /\ Wild(p).type = p.type
           /\ Wild(p).commands = p.commands /\ Wild(p).slipped = p.slipped
           /\ Wild(p).resume = p.resume
           /\ Wild(p).events = p.events /\ Wild(p).wild = TRUE
  BY DEF Wild, PlayerRecord

(* PlaySetStream goes on from a pause, starts what the cursor is at, or    *)
(* follows it into nowhere.                                                *)
LEMMA PlaySetStreamDoes ==
    ASSUME PlayerInv, ScreenInv, NEW id \in {"key", "EOS"}, Receive(id),
           NEW p \in PlayerRecord,
           p.state = m_CurrentState, p.uri = uri, p.type = m_Type, p.commands = commands,
           p.resume = resume, p.events = Tail(events), p.wild = FALSE,
           Return(PlaySetStream(p, playing')),
           UNCHANGED lists, CursorOK(lists, playing'),
           (playing' = playing /\ p.slipped = slipped)
               \/ p.slipped \/ m_CurrentState # "PAUSE",
           playing.list # 0 => playing'.list # 0,
           id = "key" /\ lists # <<>> => playing'.list # 0 \/ slipped
    PROVE  PlayerEffect
  <1>1. Handled(id) /\ main = "receive"
    BY DEF Handled, Receive, Return
  <1>2. CASE m_CurrentState = "PAUSE"
    <2>1. PlaySetStream(p, playing') = Play(p)
      BY <1>2 DEF PlaySetStream
    <2>2. /\ m_CurrentState' = "PLAY" /\ uri' = uri /\ m_Type' = m_Type
          /\ commands' = Append(commands, "DECODE") /\ slipped' = p.slipped
          /\ resume' = resume /\ events' = Tail(events) /\ main' = "receive"
      BY <1>2, <2>1, PlayFields DEF Return
    <2>3. slipped' \in BOOLEAN
      BY <2>2, Zenon DEF PlayerRecord
    <2>4. (UNCHANGED <<playing, slipped>>) \/ slipped'
      BY <1>2, <2>2, Zenon
    <2> QED
      BY <1>1, <1>2, <2>2, <2>3, <2>4 DEF Resumed, PlayerEffect
  <1>3. CASE m_CurrentState # "PAUSE" /\ ~AtElement(lists, playing')
    <2>1. PlaySetStream(p, playing') = Wild(p)
      BY <1>3 DEF PlaySetStream
    <2>2. /\ UNCHANGED <<m_CurrentState, uri, m_Type, commands, resume>>
          /\ slipped' = p.slipped /\ events' = Tail(events) /\ main' = "wild"
      BY <2>1, WildFields DEF Return
    <2>3. slipped' \in BOOLEAN
      BY <2>2, Zenon DEF PlayerRecord
    <2> QED
      BY <1>1, <1>3, <2>2, <2>3 DEF Wilded, PlayerEffect, Receive
  <1>4. CASE m_CurrentState # "PAUSE" /\ AtElement(lists, playing')
    <2> DEFINE track == Element(lists, playing')
               q == SetURI(p, track)
    <2>1. track \in Tracks
      BY <1>4, ElementIsTrack DEF ScreenInv, ScreenTyped, CursorOK, Indexers
    <2>2. PlaySetStream(p, playing') = Play(q)
      BY <1>4 DEF PlaySetStream
    <2> HIDE DEF track
    <2>3. /\ q \in PlayerRecord /\ q.state # "PAUSE" /\ q.uri = track
          /\ q.type \in {"file", "url"} /\ q.commands = commands /\ q.slipped = FALSE
          /\ q.resume = resume
          /\ q.events = Outdated(Tail(events)) /\ q.wild = FALSE
      <3>1. /\ q \in PlayerRecord /\ q.state = p.state /\ q.uri = track
            /\ q.type \in {"file", "url"} /\ q.commands = p.commands
            /\ q.slipped = FALSE /\ q.resume = p.resume
            /\ q.events = Outdated(p.events) /\ q.wild = p.wild
        BY <2>1, SetURIFields
      <3> QED
        BY <1>4, <3>1
    <2> HIDE DEF q
    <2>4. /\ m_CurrentState' = "PLAY" /\ uri' = track /\ m_Type' \in {"file", "url"}
          /\ commands' = Append(commands, "START") /\ slipped' = FALSE
          /\ resume' = resume
          /\ events' = Outdated(Tail(events)) /\ main' = "receive"
      BY <2>2, <2>3, PlayFields DEF Return
    <2> QED
      BY <1>1, <1>4, <2>4 DEF Started, PlayerEffect, track
  <1> QED
    BY <1>2, <1>3, <1>4

(* The same twice, from a pause: the stream goes on and is then replaced.  *)
LEMMA PlaySetStreamTwice ==
    ASSUME PlayerInv, ScreenInv, Receive("key"), m_CurrentState = "PAUSE",
           NEW x, Return(PlaySetStream(PlaySetStream(Player, x), playing')),
           UNCHANGED lists, CursorOK(lists, playing'), playing'.list # 0
    PROVE  PlayerEffect
  <1> DEFINE p == PlaySetStream(Player, x)
  <1>1. Handled("key") /\ main = "receive"
    BY DEF Handled, Receive, Return
  <1>2. /\ p \in PlayerRecord /\ p.state = "PLAY" /\ p.uri = uri /\ p.type = m_Type
        /\ p.commands = Append(commands, "DECODE") /\ p.slipped = slipped
        /\ p.resume = resume
        /\ p.events = Tail(events) /\ p.wild = FALSE
    <2>1. p = Play(Player)
      BY PlayerFields DEF PlaySetStream
    <2> QED
      BY <2>1, PlayerFields, PlayFields
  <1> HIDE DEF p
  <1>3. CASE ~AtElement(lists, playing')
    <2>1. PlaySetStream(p, playing') = Wild(p)
      BY <1>2, <1>3 DEF PlaySetStream
    <2>2. /\ m_CurrentState' = "PLAY" /\ UNCHANGED <<uri, m_Type, slipped, resume>>
          /\ commands' = Append(commands, "DECODE")
          /\ events' = Tail(events) /\ main' = "wild"
      BY <1>2, <2>1, WildFields DEF Return, p
    <2>3. slipped' \in BOOLEAN
      <3>1. slipped' = slipped
        BY <2>2
      <3> QED
        BY <3>1, Zenon DEF PlayerInv, PlayerTyped
    <2> QED
      BY <1>1, <1>3, <2>2, <2>3 DEF Wilded, PlayerEffect
  <1>4. CASE AtElement(lists, playing')
    <2> DEFINE track == Element(lists, playing')
               q == SetURI(p, track)
    <2>1. track \in Tracks
      BY <1>4, ElementIsTrack DEF ScreenInv, ScreenTyped, CursorOK, Indexers
    <2>2. PlaySetStream(p, playing') = Play(q)
      BY <1>2, <1>4 DEF PlaySetStream
    <2> HIDE DEF track
    <2>3. /\ q \in PlayerRecord /\ q.state # "PAUSE" /\ q.uri = track
          /\ q.type \in {"file", "url"} /\ q.commands = Append(commands, "DECODE")
          /\ q.slipped = FALSE /\ q.resume = resume
          /\ q.events = Outdated(Tail(events)) /\ q.wild = FALSE
      <3>1. p \in PlayerRecord
        BY <1>2
      <3>2. /\ q \in PlayerRecord /\ q.state = p.state /\ q.uri = track
            /\ q.type \in {"file", "url"} /\ q.commands = p.commands
            /\ q.slipped = FALSE /\ q.resume = p.resume
            /\ q.events = Outdated(p.events) /\ q.wild = p.wild
        BY <2>1, <3>1, SetURIFields
      <3> QED
        BY <1>2, <3>2
    <2> HIDE DEF q
    <2>4. /\ m_CurrentState' = "PLAY" /\ uri' = track /\ m_Type' \in {"file", "url"}
          /\ commands' = Append(Append(commands, "DECODE"), "START") /\ slipped' = FALSE
          /\ resume' = resume
          /\ events' = Outdated(Tail(events)) /\ main' = "receive"
      BY <2>2, <2>3, PlayFields DEF Return, p
    <2> QED
      BY <1>1, <1>4, <2>4 DEF Started, PlayerEffect, track
  <1> QED
    BY <1>3, <1>4

(* What remains to be shown of a handler that leaves lists and side alone. *)
LEMMA CursorsMove ==
    ASSUME ScreenInv, UNCHANGED <<lists, side>>,
           \/ UNCHANGED selection
           \/ /\ CursorOK(lists, selection') /\ (lists # <<>> => selection'.list # 0)
              /\ side = "elements" => selection'.list # 0,
           UNCHANGED playing \/ CursorOK(lists, playing')
    PROVE  CursorInv'
  BY DEF ScreenInv, CursorInv

LEMMA QuietHandlers ==
    ASSUME PlayerInv, ScreenInv,
           \/ Cancel \/ EnterContainer \/ ChangeScreen \/ OtherOption \/ OnStopped
           \/ \E n \in {1, 10} : MoveForward(n) \/ MoveBack(n)
    PROVE  PlayerEffect /\ ScreenInv'
  <1>1. KeepsPlayer /\ UNCHANGED <<lists, playing>>
    BY DEF Cancel, EnterContainer, ChangeScreen, OtherOption, OnStopped, MoveForward, MoveBack,
           listVars
  <1>2. \E id \in {"key", "STOPPED"} : Receive(id)
    BY DEF Cancel, EnterContainer, ChangeScreen, OtherOption, OnStopped, MoveForward, MoveBack,
           Key
  <1>3. PlayerEffect
    BY <1>1, <1>2 DEF KeepsPlayer, playerVars, decVars, Handled, Quieted, PlayerEffect
  <1>4. ScreenTyped'
    <2>1. ScreenTyped
      BY DEF ScreenInv
    <2> QED
      BY <1>1, <2>1 DEF Cancel, EnterContainer, ChangeScreen, OtherOption, OnStopped, MoveForward,
           MoveBack, ScreenTyped, listVars, handlerVars
  <1>5. CursorInv'
    <2>1. CASE Cancel
      BY <2>1 DEF Cancel, ScreenInv, CursorInv
    <2>2. CASE EnterContainer
      <3>1. CASE lists = <<>>
        BY <2>2, <3>1, CursorsMove DEF EnterContainer
      <3>2. CASE lists # <<>>
        <4>1. selection \in Indexers(lists) /\ selection.container # 0 /\ lists \in Lists
          BY <3>2, Cursors DEF CursorOK
        <4>2. /\ CursorOK(lists, AssociateElementList(lists, selection))
              /\ AssociateElementList(lists, selection).list = selection.container
          BY <4>1, AssociateOK
        <4>3. selection' = AssociateElementList(lists, selection) /\ UNCHANGED <<lists, playing>>
          BY <2>2, <3>2 DEF EnterContainer
        <4> QED
          BY <4>1, <4>2, <4>3, Cursors DEF CursorInv
      <3> QED
        BY <3>1, <3>2
    <2>3. CASE ChangeScreen \/ OtherOption \/ OnStopped
      BY <2>3 DEF ChangeScreen, OtherOption, OnStopped, listVars, ScreenInv, CursorInv
    <2>4. ASSUME NEW n \in {1, 10}, MoveForward(n) \/ MoveBack(n)
          PROVE  CursorInv'
      <3>1. /\ lists \in Lists /\ CursorOK(lists, selection) /\ n \in Nat
            /\ lists # <<>> => selection.container # 0 /\ selection.list # 0
        BY Cursors
      <3>2. UNCHANGED <<lists, side>> /\ UNCHANGED playing
        BY <2>4 DEF MoveForward, MoveBack
      <3>3. /\ CursorOK(lists, NextContainer(lists, selection, n))
            /\ lists # <<>> => NextContainer(lists, selection, n).list # 0
        BY <3>1, ContainerMoves
      <3>4. /\ CursorOK(lists, NextElement(lists, selection, n))
            /\ NextElement(lists, selection, n).list = selection.list
        BY <3>1, ElementMoves
      <3>5. /\ CursorOK(lists, PrevContainer(lists, selection, n))
            /\ lists # <<>> => PrevContainer(lists, selection, n).list # 0
            /\ CursorOK(lists, PrevElement(lists, selection, n))
            /\ PrevElement(lists, selection, n).list = selection.list
        BY <3>1, BackwardMoves
      <3>6. CASE side = "containers"
        <4>1. \/ selection' = NextContainer(lists, selection, n)
              \/ selection' = PrevContainer(lists, selection, n)
          BY <2>4, <3>6 DEF MoveForward, MoveBack
        <4> QED
          BY <3>2, <3>3, <3>5, <3>6, <4>1, CursorsMove
      <3>7. CASE side # "containers"
        <4>1. \/ selection' = NextElement(lists, selection, n)
              \/ selection' = PrevElement(lists, selection, n)
          BY <2>4, <3>7 DEF MoveForward, MoveBack
        <4>2. selection'.list = selection.list /\ CursorOK(lists, selection')
          BY <3>4, <3>5, <4>1
        <4> QED
          BY <3>1, <3>2, <4>2, CursorsMove DEF ScreenInv, CursorInv
      <3> QED
        BY <3>6, <3>7
    <2> QED
      BY <2>1, <2>2, <2>3, <2>4
  <1> QED
    BY <1>3, <1>4, <1>5 DEF ScreenInv

(* The player is left as it was, or is paused.                             *)
LEMMA LeftAlone ==
    ASSUME PlayerInv, NEW id \in {"key", "RESUMED", "DECODING", "EOS", "STOPPED"}, Receive(id),
           Return(Player), UNCHANGED <<lists, playing>>
    PROVE  PlayerEffect
  <1>1. Handled(id) /\ main = "receive"
    BY DEF Handled, Receive, Return
  <1>2. /\ UNCHANGED <<m_CurrentState, uri, m_Type, commands, slipped, resume>>
        /\ events' = Tail(events) /\ main' = "receive"
    BY PlayerFields DEF Return
  <1> QED
    BY <1>1, <1>2 DEF Quieted, PlayerEffect

LEMMA PauseFields ==
    ASSUME NEW p \in PlayerRecord
    PROVE  /\ Pause(p) \in PlayerRecord
           /\ Pause(p).state = "PAUSE" /\ Pause(p).uri = p.uri /\ Pause(p).type = p.type
           /\ Pause(p).commands = Append(p.commands, "PAUSE")
           /\ Pause(p).slipped = p.slipped /\ Pause(p).resume = p.resume
           /\ Pause(p).events = p.events /\ Pause(p).wild = p.wild
  <1>1. Append(p.commands, "PAUSE") \in Seq(Command)
    BY DEF PlayerRecord, Command
  <1> QED
    BY <1>1 DEF Pause, PlayerRecord

LEMMA SeekFields ==
    ASSUME NEW p \in PlayerRecord
    PROVE  /\ Seek(p) \in PlayerRecord
           /\ Seek(p).state = p.state /\ Seek(p).uri = p.uri /\ Seek(p).type = p.type
           /\ Seek(p).commands = Append(p.commands, "SEEK")
           /\ Seek(p).slipped = p.slipped /\ Seek(p).resume = p.resume
           /\ Seek(p).events = p.events /\ Seek(p).wild = p.wild
  <1>1. Append(p.commands, "SEEK") \in Seq(Command)
    BY DEF PlayerRecord, Command
  <1> QED
    BY <1>1 DEF Seek, PlayerRecord

LEMMA PauseDoes ==
    ASSUME PlayerInv, Receive("key"), m_CurrentState = "PLAY",
           Return(Pause(Player)), UNCHANGED lists, UNCHANGED playing \/ slipped
    PROVE  PlayerEffect
  <1>1. Handled("key") /\ main = "receive"
    BY DEF Handled, Receive, Return
  <1>2. /\ m_CurrentState' = "PAUSE" /\ UNCHANGED <<uri, m_Type, slipped, resume>>
        /\ commands' = Append(commands, "PAUSE")
        /\ events' = Tail(events) /\ main' = "receive"
    BY PlayerFields, PauseFields DEF Return
  <1> QED
    BY <1>1, <1>2 DEF Paused, PlayerEffect

(* The resume: Play, and Seek and Pause as the case may be.                *)
LEMMA PlaysOnAppended ==
    ASSUME commands \in Seq(Command), NEW q, PlaysOn(q), NEW c \in {"SEEK", "PAUSE"}
    PROVE  PlaysOn(Append(q, c))
  <1>1. q \in Seq(Command) /\ c \in Command
    BY DEF PlaysOn, Command
  <1>2. \A d : Has(Append(q, c), d) <=> Has(q, d) \/ c = d
    BY <1>1, HasAppended
  <1>3. Append(q, c) \in Seq(Command)
    BY <1>1
  <1> QED
    BY <1>2, <1>3 DEF PlaysOn

LEMMA ResumeHandler ==
    ASSUME PlayerInv, ScreenInv, OnPowerEventResumeComplete
    PROVE  PlayerEffect /\ UNCHANGED <<lists, side, selection, playing>>
  <1>1. Receive("RESUMED") /\ UNCHANGED <<lists, side, selection, playing>>
    BY DEF OnPowerEventResumeComplete, listVars
  <1>2. CASE resume = "no"
    BY <1>1, <1>2, LeftAlone DEF OnPowerEventResumeComplete
  <1>3. CASE resume # "no"
    <2> DEFINE p == [Player EXCEPT !.resume = "no", !.slipped = @ \/ ~AtURI]
               played == Play(p)
               sought == IF m_Type = "file" THEN Seek(played) ELSE played
               done == IF resume = "pause" THEN Pause(sought) ELSE sought
    <2>1. Return(done)
      BY <1>3 DEF OnPowerEventResumeComplete, ResumePlay
    <2>2. /\ p \in PlayerRecord
          /\ p.state = m_CurrentState /\ p.uri = uri /\ p.type = m_Type
          /\ p.commands = commands /\ p.resume = "no"
          /\ p.events = Tail(events) /\ p.wild = FALSE
          /\ ~p.slipped => ~slipped /\ AtURI
      <3>1. /\ Player \in PlayerRecord
            /\ Player.state = m_CurrentState /\ Player.uri = uri /\ Player.type = m_Type
            /\ Player.commands = commands /\ Player.slipped = slipped
            /\ Player.resume = resume
            /\ Player.events = Tail(events) /\ Player.wild = FALSE
        BY <1>1, PlayerFields
      <3> DEFINE s == Player.slipped \/ ~AtURI
      <3>2. s \in BOOLEAN /\ (~s => ~slipped /\ AtURI)
        BY <3>1, Zenon
      <3>3. p = [Player EXCEPT !.resume = "no", !.slipped = s]
        BY Zenon
      <3> HIDE DEF s, Player, p
      <3>4. /\ p \in PlayerRecord
            /\ p.state = m_CurrentState /\ p.uri = uri /\ p.type = m_Type
            /\ p.commands = commands /\ p.resume = "no"
            /\ p.events = Tail(events) /\ p.wild = FALSE
        BY <3>1, <3>2, <3>3 DEF PlayerRecord
      <3>5. p.slipped = s
        BY <3>1, <3>2, <3>3 DEF PlayerRecord
      <3> QED
        BY <3>2, <3>4, <3>5, Zenon
    <2> HIDE DEF p
    <2>3. /\ played \in PlayerRecord /\ played.state = "PLAY"
          /\ played.uri = uri /\ played.type = m_Type
          /\ played.slipped = p.slipped /\ played.resume = "no"
          /\ played.events = Tail(events) /\ played.wild = FALSE
          /\ PlaysOn(played.commands)
      <3>1. commands \in Seq(Command) /\ ~Has(commands, "STOP")
        BY <1>1, Receiving DEF PlayerInv, PlayerTyped, Receive
      <3>2. /\ Has(Append(commands, "DECODE"), "DECODE")
            /\ ~Has(Append(commands, "DECODE"), "STOP")
            /\ Has(Append(commands, "DECODE"), "START") <=> Has(commands, "START")
            /\ Has(Append(commands, "START"), "START")
            /\ ~Has(Append(commands, "START"), "STOP")
        BY <3>1, CommandAdded DEF Command
      <3>3. /\ m_CurrentState = "PAUSE" => PlaysOn(Append(commands, "DECODE"))
            /\ PlaysOn(Append(commands, "START"))
        BY <3>1, <3>2 DEF PlaysOn, Command
      <3>4. /\ played \in PlayerRecord /\ played.state = "PLAY"
            /\ played.uri = uri /\ played.type = m_Type
            /\ played.slipped = p.slipped /\ played.resume = "no"
            /\ played.events = Tail(events) /\ played.wild = FALSE
            /\ played.commands = Append(commands, IF m_CurrentState = "PAUSE" THEN "DECODE" ELSE "START")
        BY <2>2, PlayFields
      <3> QED
        BY <3>3, <3>4
    <2> HIDE DEF played
    <2>4. commands \in Seq(Command)
      BY DEF PlayerInv, PlayerTyped
    <2>5. /\ sought \in PlayerRecord /\ sought.state = "PLAY"
          /\ sought.uri = uri /\ sought.type = m_Type
          /\ sought.slipped = p.slipped /\ sought.resume = "no"
          /\ sought.events = Tail(events) /\ sought.wild = FALSE
          /\ PlaysOn(sought.commands)
      BY <2>3, <2>4, SeekFields, PlaysOnAppended
    <2> HIDE DEF sought
    <2>6. /\ done.state \in {"PLAY", "PAUSE"}
          /\ done.uri = uri /\ done.type = m_Type
          /\ done.slipped = p.slipped /\ done.resume = "no"
          /\ done.events = Tail(events) /\ done.wild = FALSE
          /\ PlaysOn(done.commands)
      <3>1. CASE resume = "pause"
        <4> DEFINE held == Pause(sought)
        <4>1. /\ held.state = "PAUSE" /\ held.uri = uri /\ held.type = m_Type
              /\ held.slipped = p.slipped /\ held.resume = "no"
              /\ held.events = Tail(events) /\ held.wild = FALSE
              /\ held.commands = Append(sought.commands, "PAUSE")
          BY <2>5, PauseFields
        <4>2. PlaysOn(Append(sought.commands, "PAUSE"))
          BY <2>4, <2>5, PlaysOnAppended
        <4>3. done = held
          BY <3>1
        <4> HIDE DEF held, done
        <4> QED
          BY <4>1, <4>2, <4>3
      <3>2. CASE resume # "pause"
        <4>1. done = sought
          BY <3>2
        <4> HIDE DEF done
        <4> QED
          BY <2>5, <4>1
      <3> QED
        BY <3>1, <3>2
    <2> HIDE DEF done
    <2>7. p.slipped \in BOOLEAN
      BY <2>2, Zenon DEF PlayerRecord
    <2>8. slipped' = p.slipped
      BY <2>1, <2>6, Zenon DEF Return
    <2>9. slipped' \in BOOLEAN /\ (~slipped' => ~slipped /\ AtURI)
      BY <2>2, <2>7, <2>8, Zenon
    <2>10. /\ Handled("RESUMED") /\ resume' = "no" /\ m_CurrentState' \in {"PLAY", "PAUSE"}
           /\ PlaysOn(commands') /\ events' = Tail(events) /\ UNCHANGED <<uri, m_Type, main>>
      BY <1>1, <2>1, <2>6 DEF Return, Handled, Receive
    <2>11. PlayedOn
      BY <1>1, <1>3, <2>9, <2>10, Zenon DEF PlayedOn
    <2> QED
      BY <1>1, <2>11, Zenon DEF PlayerEffect
  <1> QED
    BY <1>2, <1>3

LEMMA StopThenDoes ==
    ASSUME NEW id \in {"key", "OPEN_ERROR"}, Receive(id),
           NEW after \in Stopping, StopThen(after),
           UNCHANGED <<lists, playing>>
    PROVE  PlayerEffect
  BY DEF StopThen, Stop, StopBegins, Receive, PlayerEffect

(* PlaySetStream with the player as it is found.                           *)
LEMMA PlayDoes ==
    ASSUME PlayerInv, ScreenInv, Receive("key"),
           Return(PlaySetStream(Player, playing')),
           UNCHANGED lists, CursorOK(lists, playing'),
           playing' = playing \/ slipped \/ m_CurrentState # "PAUSE",
           playing.list # 0 => playing'.list # 0,
           lists # <<>> => playing'.list # 0 \/ slipped
    PROVE  PlayerEffect
  <1>1. /\ Player \in PlayerRecord
        /\ Player.state = m_CurrentState /\ Player.uri = uri /\ Player.type = m_Type
        /\ Player.commands = commands /\ Player.slipped = slipped
        /\ Player.resume = resume
        /\ Player.events = Tail(events) /\ Player.wild = FALSE
    BY PlayerFields
  <1> HIDE DEF Player
  <1> QED
    BY <1>1, PlaySetStreamDoes

LEMMA KeyHandlers ==
    ASSUME PlayerInv, ScreenInv,
           NothingToPlay \/ PlayStopped \/ PlayPaused \/ PlayOther \/ PauseSame \/ PlayNotOpen
    PROVE  PlayerEffect /\ UNCHANGED <<lists, side, selection>> /\ CursorOK(lists, playing')
  <1>1. /\ Receive("key") /\ side = "elements" /\ UNCHANGED <<lists, side, selection>>
    BY DEF NothingToPlay, PlayStopped, PlayPaused, PlayOther, PauseSame, PlayNotOpen,
           SelectElement, Key, listVars
  <1>2. /\ CursorOK(lists, selection) /\ CursorOK(lists, playing) /\ selection.list # 0
        /\ m_CurrentState # "STOP" => playing.list # 0 \/ slipped
    BY <1>1, Cursors DEF ScreenInv, CursorInv, PlayerInv, PlayInv, Receive, AtURI, AtElement
  <1>3. CASE NothingToPlay
    BY <1>1, <1>2, <1>3, LeftAlone DEF NothingToPlay, listVars
  <1>4. CASE PlayStopped \/ PlayOther
    <2>1. /\ m_CurrentState # "PAUSE" /\ playing' = selection
          /\ Return(PlaySetStream(Player, playing'))
      BY <1>4 DEF PlayStopped, PlayOther, SelectElement, PlaySelection
    <2> QED
      BY <1>1, <1>2, <2>1, PlayDoes
  <1>5. CASE PlayPaused
    <2>1. CASE OtherSelected
      <3>1. /\ m_CurrentState = "PAUSE" /\ playing' = selection
            /\ Return(PlaySetStream(PlaySetStream(Player, playing), playing'))
        BY <1>5, <2>1 DEF PlayPaused, SelectElement, PlaySelection
      <3> QED
        BY <1>1, <1>2, <3>1, PlaySetStreamTwice
    <2>2. CASE ~OtherSelected
      <3>1. /\ playing' = playing /\ Return(PlaySetStream(Player, playing'))
            /\ m_CurrentState # "STOP"
        BY <1>5, <2>2 DEF PlayPaused, SelectElement
      <3> QED
        BY <1>1, <1>2, <3>1, PlayDoes
    <2> QED
      BY <2>1, <2>2
  <1>6. CASE PauseSame
    <2>1. m_CurrentState = "PLAY" /\ UNCHANGED <<lists, playing>>
      BY <1>6 DEF PauseSame, SelectElement, listVars
    <2>2. Return(Pause(Player)) \/ Return(Player)
      BY <1>6 DEF PauseSame
    <2> QED
      BY <1>1, <1>2, <2>1, <2>2, PauseDoes, LeftAlone
  <1>7. CASE PlayNotOpen
    <2>1. /\ playing' = playing /\ Return(PlaySetStream(Player, playing'))
          /\ m_CurrentState # "STOP"
      BY <1>7 DEF PlayNotOpen, listVars, SelectElement
    <2> QED
      BY <1>1, <1>2, <2>1, PlayDoes
  <1> QED
    BY <1>3, <1>4, <1>5, <1>6, <1>7

LEMMA RemoteHandlers ==
    ASSUME PlayerInv, ScreenInv, RemoteForward \/ RemoteBack \/ RemotePlay
    PROVE  PlayerEffect /\ UNCHANGED <<lists, side, selection>> /\ CursorOK(lists, playing')
  <1>1. Receive("key") /\ main = "receive" /\ UNCHANGED <<lists, side, selection>>
    BY DEF RemoteForward, RemoteBack, RemotePlay, Key, Receive
  <1>2. /\ CursorOK(lists, selection) /\ CursorOK(lists, playing) /\ CursorOK(lists, Cursor)
        /\ lists \in Lists /\ (lists # <<>> => Cursor.list # 0)
    BY Cursors
  <1>3. m_CurrentState # "STOP" => Cursor = playing \/ slipped
    BY <1>1 DEF PlayerInv, PlayInv, Cursor, AtURI, AtElement
  <1>4. CASE (RemoteForward \/ RemoteBack) /\ lists = <<>>
    <2>1. KeepsPlayer /\ playing' = Cursor
      BY <1>4 DEF RemoteForward, RemoteBack
    <2> QED
      BY <1>1, <1>2, <1>4, <2>1
         DEF KeepsPlayer, playerVars, decVars, Handled, Quieted, PlayerEffect
  <1>5. ASSUME NEW x, CursorOK(lists, x), PlayFrom(x), x.list # 0
        PROVE  PlayerEffect /\ CursorOK(lists, playing')
    <2>1. playing' = x
      BY <1>5 DEF PlayFrom
    <2>2. CASE m_CurrentState = "PAUSE"
      <3>1. Return(PlaySetStream(PlaySetStream(Player, x), playing'))
        BY <1>5, <2>1, <2>2 DEF PlayFrom
      <3> QED
        BY <1>1, <1>5, <2>1, <2>2, <3>1, PlaySetStreamTwice
    <2>3. CASE m_CurrentState # "PAUSE"
      <3>1. Return(PlaySetStream(Player, playing'))
        BY <1>5, <2>1, <2>3 DEF PlayFrom
      <3> QED
        BY <1>1, <1>5, <2>1, <2>3, <3>1, PlayDoes
    <2> QED
      BY <2>2, <2>3
  <1>6. CASE (RemoteForward \/ RemoteBack) /\ lists # <<>>
    <2>1. /\ CursorOK(lists, NextGlobalElement(lists, Cursor))
          /\ CursorOK(lists, PrevGlobalElement(lists, Cursor))
          /\ NextGlobalElement(lists, Cursor).list # 0
          /\ PrevGlobalElement(lists, Cursor).list # 0
      BY <1>2, <1>6, GlobalMoves
    <2>2. \/ PlayFrom(NextGlobalElement(lists, Cursor))
          \/ PlayFrom(PrevGlobalElement(lists, Cursor))
      BY <1>6 DEF RemoteForward, RemoteBack
    <2> QED
      BY <1>1, <1>5, <2>1, <2>2
  <1>7. CASE RemotePlay
    <2>1. CASE m_CurrentState = "STOP"
      <3>1. playing' = selection /\ Return(PlaySetStream(Player, playing'))
        BY <1>7, <2>1 DEF RemotePlay, PlaySelection
      <3>2. /\ lists # <<>> => selection.list # 0
            /\ playing.list # 0 => lists # <<>>
        BY Cursors DEF CursorOK, Indexers, Lists
      <3> QED
        BY <1>1, <1>2, <2>1, <3>1, <3>2, PlayDoes
    <2>2. CASE m_CurrentState = "PAUSE"
      <3>1. playing' = Cursor /\ Return(PlaySetStream(Player, playing'))
        BY <1>7, <2>2 DEF RemotePlay
      <3>2. playing.list # 0 => playing'.list # 0
        BY <3>1 DEF Cursor
      <3> QED
        BY <1>1, <1>2, <1>3, <2>2, <3>1, <3>2, PlayDoes
    <2>3. CASE m_CurrentState = "PLAY"
      <3>1. (playing' = playing \/ slipped) /\ playing' = Cursor /\ Return(Pause(Player))
        BY <1>3, <1>7, <2>3 DEF RemotePlay
      <3> QED
        BY <1>1, <1>2, <2>3, <3>1, PauseDoes
    <2> QED
      BY <2>1, <2>2, <2>3 DEF PlayerInv, PlayerTyped
  <1> QED
    BY <1>4, <1>6, <1>7

LEMMA ReportHandlers ==
    ASSUME PlayerInv, ScreenInv,
           \/ \E mode \in PlayModes : EOSHandler(mode)
           \/ \E titled \in BOOLEAN : OnDecoding(titled)
    PROVE  PlayerEffect /\ UNCHANGED <<lists, side, selection>> /\ CursorOK(lists, playing')
  <1>1. /\ lists \in Lists /\ CursorOK(lists, playing)
        /\ lists # <<>> => selection.list # 0
    BY Cursors
  <1>2. ASSUME NEW mode \in PlayModes, EOSHandler(mode)
        PROVE  PlayerEffect /\ UNCHANGED <<lists, side, selection>> /\ CursorOK(lists, playing')
    <2>1. /\ Receive("EOS") /\ UNCHANGED <<lists, side, selection>>
          /\ Player \in PlayerRecord
          /\ Player.state = m_CurrentState /\ Player.uri = uri /\ Player.type = m_Type
          /\ Player.commands = commands /\ Player.slipped = slipped
          /\ Player.resume = resume
          /\ Player.events = Tail(events) /\ Player.wild = FALSE
      <3>1. Receive("EOS") /\ UNCHANGED <<lists, side, selection>>
        BY <1>2 DEF EOSHandler
      <3> QED
        BY <3>1, PlayerFields
    <2>2. CASE mode = "SINGLE"
      <3>1. KeepsPlayer /\ UNCHANGED playing
        BY <1>2, <2>2 DEF EOSHandler
      <3> QED
        BY <1>1, <2>1, <3>1 DEF KeepsPlayer, playerVars, decVars, Handled, Quieted, PlayerEffect
    <2>3. CASE mode # "SINGLE"
      <3> DEFINE p == [Player EXCEPT !.slipped = @ \/ playing' # playing]
      <3>1. playing' = Following(mode, playing) /\ Return(PlaySetStream(p, playing'))
        BY <1>2, <2>3 DEF EOSHandler
      <3>2. CursorOK(lists, playing') /\ (playing.list # 0 => playing'.list # 0)
        <4>1. CASE playing.list = 0
          <5>1. Following(mode, playing) = playing
            BY <4>1 DEF Following, NextElement, NextGlobalElement, HasElements
          <5> QED
            BY <1>1, <3>1, <4>1, <5>1
        <4>2. CASE playing.list # 0
          BY <1>1, <3>1, <4>2, FollowingOK
        <4> QED
          BY <4>1, <4>2
      <3>3. /\ p \in PlayerRecord
            /\ p.state = m_CurrentState /\ p.uri = uri /\ p.type = m_Type
            /\ p.commands = commands /\ p.resume = resume
            /\ p.events = Tail(events) /\ p.wild = FALSE
            /\ playing' = playing => p.slipped = slipped
            /\ playing' # playing => p.slipped
        <4> DEFINE moved == playing' # playing
        <4> HIDE DEF Player, moved
        <4>1. /\ [Player EXCEPT !.slipped = TRUE] \in PlayerRecord
              /\ [Player EXCEPT !.slipped = TRUE].slipped = TRUE
              /\ [Player EXCEPT !.slipped = TRUE].state = m_CurrentState
              /\ [Player EXCEPT !.slipped = TRUE].uri = uri
              /\ [Player EXCEPT !.slipped = TRUE].type = m_Type
              /\ [Player EXCEPT !.slipped = TRUE].commands = commands
              /\ [Player EXCEPT !.slipped = TRUE].resume = resume
              /\ [Player EXCEPT !.slipped = TRUE].events = Tail(events)
              /\ [Player EXCEPT !.slipped = TRUE].wild = FALSE
          BY <2>1 DEF PlayerRecord
        <4>2. [Player EXCEPT !.slipped = @] = Player
          BY <2>1 DEF PlayerRecord
        <4>3. moved \in BOOLEAN /\ Player.slipped \in BOOLEAN
          BY <2>1 DEF moved, PlayerRecord
        <4>4. CASE moved
          <5>1. p = [Player EXCEPT !.slipped = TRUE]
            <6>1. (Player.slipped \/ playing' # playing) = TRUE
              BY <4>4 DEF moved
            <6> QED
              BY <6>1, Zenon
          <5> QED
            BY <4>1, <4>4, <5>1 DEF moved
        <4>5. CASE ~moved
          <5>1. p = Player
            <6>1. (Player.slipped \/ playing' # playing) = Player.slipped
              BY <4>3, <4>5, Zenon DEF moved
            <6> QED
              BY <4>2, <6>1, Zenon
          <5> QED
            BY <2>1, <4>5, <5>1 DEF moved
        <4> QED
          BY <4>4, <4>5
      <3> HIDE DEF p
      <3> QED
        BY <2>1, <3>1, <3>2, <3>3, PlaySetStreamDoes
    <2> QED
      BY <2>2, <2>3
  <1>3. ASSUME NEW titled \in BOOLEAN, OnDecoding(titled)
        PROVE  PlayerEffect /\ UNCHANGED <<lists, side, selection, playing>>
    <2>1. Receive("DECODING") /\ UNCHANGED <<lists, side, selection, playing>>
      BY <1>3 DEF OnDecoding, listVars
    <2>2. /\ Player \in PlayerRecord
          /\ Player.state = m_CurrentState /\ Player.uri = uri /\ Player.type = m_Type
          /\ Player.commands = commands /\ Player.slipped = slipped
          /\ Player.resume = resume
          /\ Player.events = Tail(events) /\ Player.wild = FALSE
      BY <2>1, PlayerFields
    <2>3. CASE Return(Player)
      BY <2>1, <2>3, LeftAlone
    <2>4. CASE Return([Player EXCEPT !.uri = Element(lists, playing)]) /\ AtElement(lists, playing)
      <3> DEFINE p == [Player EXCEPT !.uri = Element(lists, playing)]
      <3>1. /\ p.state = m_CurrentState /\ p.uri = Element(lists, playing) /\ p.type = m_Type
            /\ p.commands = commands /\ p.slipped = slipped
            /\ p.resume = resume
            /\ p.events = Tail(events) /\ p.wild = FALSE
        <4> HIDE DEF Player
        <4> QED
          BY <2>2 DEF PlayerRecord
      <3>2. Return(p)
        BY <2>4
      <3> HIDE DEF p
      <3>3. /\ UNCHANGED <<m_CurrentState, m_Type, commands, slipped, resume, main>>
            /\ uri' = Element(lists, playing) /\ events' = Tail(events)
        BY <2>1, <3>1, <3>2 DEF Return, Receive
      <3>4. Handled("DECODING")
        BY <2>1, <3>2 DEF Handled, Return
      <3> QED
        BY <2>1, <2>4, <3>3, <3>4 DEF Quieted, PlayerEffect
    <2>5. CASE Return(Wild(Player)) /\ ~AtElement(lists, playing)
      <3>1. /\ UNCHANGED <<m_CurrentState, uri, m_Type, commands, slipped, resume>>
            /\ events' = Tail(events) /\ main' = "wild"
        <4> HIDE DEF Player
        <4> DEFINE p == Wild(Player)
        <4>1. /\ p.state = Player.state /\ p.uri = Player.uri /\ p.type = Player.type
              /\ p.commands = Player.commands /\ p.slipped = Player.slipped
              /\ p.resume = Player.resume
              /\ p.events = Player.events /\ p.wild = TRUE
          BY <2>2, WildFields
        <4>2. Return(p)
          BY <2>5
        <4> HIDE DEF p
        <4> QED
          BY <2>2, <4>1, <4>2 DEF Return
      <3>2. slipped' \in BOOLEAN
        <4>1. slipped' = slipped
          BY <3>1
        <4> QED
          BY <4>1, Zenon DEF PlayerInv, PlayerTyped
      <3>3. Handled("DECODING")
        BY <2>1, <2>5 DEF Handled, Return
      <3> QED
        BY <1>1, <2>1, <2>5, <3>1, <3>2, <3>3 DEF Wilded, PlayerEffect, Receive
    <2> QED
      BY <1>3, <2>1, <2>3, <2>4, <2>5, Zenon DEF OnDecoding
  <1> QED
    BY <1>1, <1>2, <1>3

(* The handlers that stop the player, and that return from a Stop.         *)
LEMMA StopHandlers ==
    ASSUME PlayerInv, ScreenInv, StopKey \/ RefreshPlaylists \/ TakeScreenshot \/ OnOpenError
    PROVE  PlayerEffect /\ UNCHANGED <<lists, side, selection, playing>>
  <1>1. UNCHANGED <<lists, side, selection, playing>>
    BY DEF StopKey, RefreshPlaylists, TakeScreenshot, OnOpenError, listVars
  <1>2. \/ Receive("key") /\ KeepsPlayer
        \/ /\ \E id \in {"key", "OPEN_ERROR"} : Receive(id)
           /\ \E after \in Stopping : StopThen(after)
    BY DEF StopKey, RefreshPlaylists, TakeScreenshot, OnOpenError, Key, Stopping
  <1>3. CASE Receive("key") /\ KeepsPlayer
    BY <1>1, <1>3 DEF KeepsPlayer, playerVars, decVars, Handled, Quieted, PlayerEffect
  <1> QED
    BY <1>1, <1>2, <1>3, StopThenDoes

LEMMA ReturnHandlers ==
    ASSUME PlayerInv, ScreenInv, StopKeyReturns \/ StopReturns \/ RefreshReturns
    PROVE  PlayerEffect /\ CursorInv'
  <1>1. PlayerEffect
    BY DEF StopKeyReturns, StopReturns, RefreshReturns, Returned, PlayerEffect, Stopping
  <1>2. CASE StopKeyReturns \/ StopReturns
    BY <1>1, <1>2 DEF StopKeyReturns, StopReturns, listVars, ScreenInv, CursorInv
  <1>3. CASE RefreshReturns
    <2>1. lists' \in Lists /\ selection' = SelectionOf(lists') /\ playing' = Unset
          /\ side' = "containers"
      BY <1>3, PlayControlAssumption DEF RefreshReturns, PlayControlAssumption, Lists
    <2>2. /\ CursorOK(lists', SelectionOf(lists')) /\ CursorOK(lists', Unset)
          /\ lists' # <<>> => SelectionOf(lists').list # 0
      BY <2>1, SelectionOK
    <2> QED
      BY <1>1, <2>1, <2>2 DEF CursorInv
  <1> QED
    BY <1>1, <1>2, <1>3

LEMMA HandlerKeeps ==
    ASSUME PlayerInv, ScreenInv, HandlerStep
    PROVE  PlayerEffect /\ PlayerInv' /\ ScreenInv'
  <1>1. PlayerEffect /\ CursorInv'
    <2>1. CASE \/ Cancel \/ EnterContainer \/ ChangeScreen \/ OtherOption \/ OnStopped
               \/ \E n \in {1, 10} : MoveForward(n) \/ MoveBack(n)
      BY <2>1, QuietHandlers DEF ScreenInv
    <2>2. CASE \/ NothingToPlay \/ PlayStopped \/ PlayPaused \/ PlayOther \/ PauseSame \/ PlayNotOpen
               \/ RemoteForward \/ RemoteBack \/ RemotePlay
      <3>1. /\ PlayerEffect /\ CursorOK(lists, playing')
            /\ UNCHANGED <<lists, side>> /\ UNCHANGED selection
        BY <2>2, KeyHandlers, RemoteHandlers
      <3>2. CursorInv'
        BY <3>1, CursorsMove
      <3> QED
        BY <3>1, <3>2
    <2>3. CASE \/ \E mode \in PlayModes : EOSHandler(mode)
               \/ \E titled \in BOOLEAN : OnDecoding(titled)
               \/ StopKey \/ RefreshPlaylists \/ TakeScreenshot \/ OnOpenError
               \/ OnPowerEventResumeComplete
      <3>1. /\ PlayerEffect /\ UNCHANGED <<lists, side>> /\ UNCHANGED selection
            /\ UNCHANGED playing \/ CursorOK(lists, playing')
        BY <2>3, ReportHandlers, StopHandlers, ResumeHandler
      <3>2. CursorInv'
        BY <3>1, CursorsMove
      <3> QED
        BY <3>1, <3>2
    <2>4. CASE StopKeyReturns \/ StopReturns \/ RefreshReturns
      BY <2>4, ReturnHandlers
    <2> QED
      BY <2>1, <2>2, <2>3, <2>4 DEF HandlerStep
  <1>2. ScreenTyped'
    <2>1. ScreenTyped
      BY DEF ScreenInv
    <2>2. CASE \/ Cancel \/ EnterContainer \/ ChangeScreen \/ OtherOption \/ OnStopped
               \/ \E n \in {1, 10} : MoveForward(n) \/ MoveBack(n)
      BY <2>2, QuietHandlers DEF ScreenInv
    <2>3. CASE NothingToPlay \/ PlayStopped \/ PlayPaused \/ PlayOther \/ PauseSame \/ PlayNotOpen
      BY <2>1, <2>3 DEF NothingToPlay, PlayStopped, PlayPaused, PlayOther, PauseSame, PlayNotOpen,
         ScreenTyped, listVars, handlerVars, OnPause
    <2>4. CASE RemoteForward \/ RemoteBack \/ RemotePlay
      <3>1. UNCHANGED <<lists, side, screen>> /\ (UNCHANGED handlerVars \/ OnPause)
        BY <2>4 DEF RemoteForward, RemoteBack, RemotePlay, PlayerInv, PlayerTyped
      <3> QED
        BY <2>1, <3>1 DEF ScreenTyped, handlerVars, OnPause
    <2>5. CASE \/ \E mode \in PlayModes : EOSHandler(mode)
               \/ \E titled \in BOOLEAN : OnDecoding(titled)
               \/ StopKey \/ RefreshPlaylists \/ TakeScreenshot \/ OnOpenError
               \/ OnPowerEventResumeComplete
      BY <2>1, <2>5 DEF EOSHandler, OnDecoding, StopKey, RefreshPlaylists, TakeScreenshot, OnOpenError,
         OnPowerEventResumeComplete, ScreenTyped, listVars, handlerVars
    <2>6. CASE StopKeyReturns \/ StopReturns \/ RefreshReturns
      BY <2>1, <2>6 DEF StopKeyReturns, StopReturns, RefreshReturns,
         ScreenTyped, listVars, handlerVars
    <2> QED
      BY <2>2, <2>3, <2>4, <2>5, <2>6 DEF HandlerStep
  <1>3. PlayerInv'
    BY <1>1, EffectKeeps DEF ScreenInv
  <1> QED
    BY <1>1, <1>2, <1>3 DEF ScreenInv

-----------------------------------------------------------------------------
(* The decode thread.                                                      *)

LEMMA DecodeTyped ==
    ASSUME PlayerInv,
           DecodeStep \/ Opened \/ EndOfStream \/ ConnectionEnds
    PROVE  PlayerTyped' /\ DecoderTyped'
  <1>1. /\ commands \in Seq(Command) /\ events \in Seq(EventType)
        /\ commands # <<>> => Tail(commands) \in Seq(Command)
        /\ Append(commands, "START") \in Seq(Command)
        /\ Append(commands, "DECODE") \in Seq(Command)
    <2>1. commands \in Seq(Command) /\ events \in Seq(EventType)
      BY DEF PlayerInv, PlayerTyped
    <2> QED
      BY <2>1 DEF Command
  <1>2. KeepsMain
    BY DEF DecodeStep, Opened, EndOfStream, ConnectionEnds, Start, SendDecode, SendStart, SendToSelf,
           BeginDecoding, RetryStart, LeaveLoop, DecodeNothing, SeekDecoder, PauseDecoder, StopDecoder,
           CreateDecoder, OpenFails, OpenedInVain
  <1>3. commands' \in Seq(Command)
    BY <1>1
       DEF DecodeStep, Opened, EndOfStream, ConnectionEnds, Start, SendDecode, SendStart, SendToSelf,
           BeginDecoding, RetryStart, LeaveLoop, DecodeNothing, SeekDecoder, PauseDecoder, StopDecoder,
           CreateDecoder, OpenFails, OpenedInVain, Take
  <1>4. events' \in Seq(EventType)
    <2>1. \A id \in Reports : Append(events, Event(id)) \in Seq(EventType)
      <3>1. \A id \in Reports : Event(id) \in EventType
        BY EventTyped
      <3> QED
        BY <1>1, <3>1
    <2>2. UNCHANGED events \/ \E id \in Reports : events' = Append(events, Event(id))
      BY DEF DecodeStep, Opened, EndOfStream, ConnectionEnds, Start, SendDecode, SendStart, SendToSelf,
           BeginDecoding, RetryStart, LeaveLoop, DecodeNothing, SeekDecoder, PauseDecoder, StopDecoder,
           CreateDecoder, OpenFails, OpenedInVain, Report, Reports
    <2> QED
      BY <1>1, <2>1, <2>2
  <1>5. PlayerTyped'
    BY <1>2, <1>3, <1>4, Zenon DEF PlayerInv, PlayerTyped, KeepsMain
  <1>6. /\ okBlocker' \in 0..1
        /\ dec' \in {"receive", "opening", "sendDecode", "sendStart", "decoding", "crashed"}
        /\ target' \in Tracks \cup Nothing
        /\ heard' \in Tracks \cup Nothing
    BY DEF DecodeStep, Opened, EndOfStream, ConnectionEnds, Start, SendDecode, SendStart, SendToSelf,
           BeginDecoding, RetryStart, LeaveLoop, DecodeNothing, SeekDecoder, PauseDecoder, StopDecoder,
           CreateDecoder, OpenFails, OpenedInVain, DecGo, DeleteDecoder, Nothing,
           PlayerInv, PlayerTyped, DecoderTyped
  <1>7. bDecoderCreated' \in BOOLEAN
    BY Zenon DEF DecodeStep, Opened, EndOfStream, ConnectionEnds, Start, SendDecode, SendStart,
           SendToSelf, BeginDecoding, RetryStart, LeaveLoop, DecodeNothing, SeekDecoder, PauseDecoder, StopDecoder,
           CreateDecoder, OpenFails, OpenedInVain, PlayerInv, DecoderTyped
  <1>8. opened' \in BOOLEAN
    <2>1. opened' \in BOOLEAN \/ opened' = opened \/ opened' = (opened /\ heard = "none")
      BY Zenon DEF DecodeStep, Opened, EndOfStream, ConnectionEnds, Start, SendDecode, SendStart,
           SendToSelf, BeginDecoding, RetryStart, LeaveLoop, DecodeNothing, SeekDecoder, PauseDecoder, StopDecoder,
           CreateDecoder, OpenFails, OpenedInVain, DeleteDecoder
    <2> QED
      BY <2>1, Zenon DEF PlayerInv, DecoderTyped
  <1> QED
    BY <1>5, <1>6, <1>7, <1>8, Zenon DEF DecoderTyped

(* The steps by what they do to the queue of commands.                     *)
Taking ==
    \/ Start \/ BeginDecoding \/ RetryStart \/ SeekDecoder \/ PauseDecoder

Going ==
    \/ LeaveLoop \/ DecodeNothing \/ EndOfStream \/ ConnectionEnds
    \/ CreateDecoder \/ OpenFails \/ \E known \in BOOLEAN : OpenedInVain(known)

(* A command other than Stop is taken: no answer is due, and the player is *)
(* not at rest.                                                            *)
LEMMA TakenOff ==
    ASSUME PlayerInv, Taking
    PROVE  /\ dec = "receive" /\ commands # <<>> /\ commands' = Tail(commands) /\ okBlocker = 0
           /\ KeepsMain /\ UNCHANGED okBlocker
           /\ \A d : Has(commands', d) => Has(commands, d)
           /\ \A d : Has(commands, d) => Has(commands', d) \/ d = Head(commands)
           /\ Has(commands, Head(commands))
           /\ main = "receive" => m_CurrentState # "STOP"
           /\ StopInv'
  <1>1. /\ dec = "receive" /\ commands # <<>> /\ commands' = Tail(commands)
        /\ KeepsMain /\ UNCHANGED okBlocker /\ Head(commands) # "STOP"
    BY DEF Taking, Start, BeginDecoding, RetryStart, SeekDecoder, PauseDecoder, Take
  <1>2. okBlocker = 0
    BY <1>1 DEF PlayerInv, StopInv, DecoderTyped
  <1>3. commands \in Seq(Command)
    BY DEF PlayerInv, PlayerTyped
  <1>4. \A d : Has(commands, d) <=> Head(commands) = d \/ Has(Tail(commands), d)
    BY <1>1, <1>3, HasRest
  <1>5. main = "receive" => m_CurrentState # "STOP"
    BY <1>1 DEF PlayerInv, StopInv, StoppedIsSilent
  <1>6. StopInv'
    <2>1. UNCHANGED <<main, m_CurrentState>>
      BY <1>1 DEF KeepsMain
    <2>2. Waits' <=> Waits
      BY <2>1 DEF Waits, Stopping
    <2>3. Waits => m_CurrentState = "STOP" /\ Has(commands', "STOP")
      BY <1>1, <1>2, <1>4 DEF PlayerInv, StopInv
    <2>4. ASSUME NEW i \in DOMAIN commands', commands'[i] = "STOP"
          PROVE  Waits /\ i = Len(commands')
      <3>1. /\ i \in 1..(Len(commands) - 1) /\ i \in Nat /\ i + 1 \in DOMAIN commands
            /\ Len(commands') = Len(commands) - 1 /\ commands'[i] = commands[i + 1]
            /\ Len(commands) \in Nat
        BY <1>1, <1>3, <2>4
      <3>2. Waits /\ i + 1 = Len(commands)
        BY <2>4, <3>1 DEF PlayerInv, StopInv
      <3> QED
        BY <3>1, <3>2
    <2>5. okBlocker' = 0
      BY <1>1, <1>2
    <2> QED
      BY <1>5, <2>1, <2>2, <2>3, <2>4, <2>5 DEF StopInv, StoppedIsSilent
  <1> QED
    BY <1>1, <1>2, <1>4, <1>5, <1>6

LEMMA GoingOn ==
    ASSUME PlayerInv, Going
    PROVE  /\ dec # "receive" /\ okBlocker = 0 /\ UNCHANGED <<commands, okBlocker>>
           /\ KeepsMain /\ (main = "receive" => m_CurrentState # "STOP")
           /\ StopInv'
  <1>1. dec # "receive" /\ UNCHANGED <<commands, okBlocker>> /\ KeepsMain
    BY DEF Going, LeaveLoop, DecodeNothing, EndOfStream, ConnectionEnds, CreateDecoder, OpenFails,
           OpenedInVain, DecGo
  <1>2. okBlocker = 0
    BY <1>1 DEF PlayerInv, StopInv, DecoderTyped
  <1>3. main = "receive" => m_CurrentState # "STOP"
    BY <1>1 DEF PlayerInv, StopInv, StoppedIsSilent
  <1>4. StopInv'
    BY <1>1, <1>2, <1>3 DEF KeepsMain, PlayerInv, StopInv, StoppedIsSilent, Waits, Stopping
  <1> QED
    BY <1>1, <1>2, <1>3, <1>4

LEMMA DecodeKeepsDecoder ==
    ASSUME PlayerInv,
           DecodeStep \/ Opened \/ EndOfStream \/ ConnectionEnds
    PROVE  DecoderInv'
  <1> USE DEF PlayerInv
  <1>1. UNCHANGED <<uri, m_CurrentState, resume>>
    BY DEF DecodeStep, Opened, EndOfStream, ConnectionEnds, Start, SendDecode, SendStart, SendToSelf,
           BeginDecoding, RetryStart, LeaveLoop, DecodeNothing, SeekDecoder, PauseDecoder, StopDecoder,
           CreateDecoder, OpenFails, OpenedInVain, KeepsMain
  <1>2. CASE Taking
    <2>1. uri = "none" => UNCHANGED dec
      <3>1. /\ dec = "receive" /\ Has(commands, Head(commands))
        BY <1>2, TakenOff
      <3> QED
        BY <1>2, <3>1 DEF Taking, Start, BeginDecoding, RetryStart, SeekDecoder, PauseDecoder, DecoderInv, Take
    <2>2. \A d : Has(commands', d) => Has(commands, d)
      BY <1>2, TakenOff
    <2>3. /\ heard' # "none" => bDecoderCreated'
          /\ dec' = "decoding" => bDecoderCreated'
          /\ dec' = "opening" => heard' = "none" /\ target' = uri
      BY <1>2 DEF Taking, Start, BeginDecoding, RetryStart, SeekDecoder, PauseDecoder, DecoderInv, Take
    <2> QED
      BY <1>1, <2>1, <2>2, <2>3, <1>2, TakenOff DEF DecoderInv
  <1>3. CASE Going
    <2>1. dec # "receive" /\ UNCHANGED commands
      BY <1>3, GoingOn
    <2>2. uri # "none"
      BY <2>1 DEF DecoderInv
    <2>3. /\ heard' # "none" => bDecoderCreated'
          /\ dec' = "decoding" => bDecoderCreated'
          /\ dec' # "opening"
      BY <1>3 DEF Going, LeaveLoop, DecodeNothing, EndOfStream, ConnectionEnds, CreateDecoder,
         OpenFails, OpenedInVain, DecGo, DeleteDecoder, DecoderInv
    <2> QED
      BY <1>1, <2>2, <2>3 DEF DecoderInv
  <1>4. CASE SendDecode \/ SendStart
    <2>1. dec \in {"sendDecode", "sendStart"} /\ dec' = "receive" /\ UNCHANGED <<heard, bDecoderCreated>>
      BY <1>4 DEF SendDecode, SendStart, SendToSelf, DecGo
    <2>2. uri # "none"
      BY <2>1 DEF DecoderInv
    <2> QED
      BY <1>1, <2>1, <2>2 DEF DecoderInv
  <1>5. CASE StopDecoder
    <2>1. UNCHANGED <<dec, bDecoderCreated, target>> /\ commands' = Tail(commands) /\ commands # <<>>
          /\ dec = "receive"
      BY <1>5 DEF StopDecoder, Take
    <2>2. \A d : Has(commands', d) => Has(commands, d)
      BY <2>1, HasRest DEF PlayerTyped
    <2>3. heard' # "none" => bDecoderCreated'
      BY <1>5 DEF StopDecoder, DeleteDecoder, DecoderInv
    <2> QED
      BY <1>1, <2>1, <2>2, <2>3 DEF DecoderInv
  <1> QED
    BY <1>2, <1>3, <1>4, <1>5 DEF DecodeStep, Opened, Taking, Going

LEMMA DecodeKeepsStop ==
    ASSUME PlayerInv,
           DecodeStep \/ Opened \/ EndOfStream \/ ConnectionEnds
    PROVE  StopInv'
  <1>1. CASE SendDecode \/ SendStart
    <2>1. /\ dec # "receive" /\ main = "receive" /\ UNCHANGED <<main, okBlocker, m_CurrentState>>
          /\ \E c \in {"DECODE", "START"} : commands' = Append(commands, c)
      BY <1>1 DEF SendDecode, SendStart, SendToSelf, DecGo, LockIsFree, KeepsMain
    <2>2. m_CurrentState # "STOP"
      BY <2>1 DEF PlayerInv, StopInv, StoppedIsSilent
    <2>3. commands \in Seq(Command) /\ okBlocker = 0 /\ \A i \in DOMAIN commands : commands[i] # "STOP"
      BY <2>1, Receiving DEF PlayerInv, PlayerTyped
    <2>4. \A c \in {"DECODE", "START"} :
              \A i \in DOMAIN Append(commands, c) : Append(commands, c)[i] # "STOP"
      BY <2>3, NoStopAdded DEF Command
    <2>5. \A i \in DOMAIN commands' : commands'[i] # "STOP"
      BY <2>1, <2>4
    <2> QED
      BY <2>1, <2>2, <2>3, <2>5 DEF StopInv, StoppedIsSilent, Waits, Stopping
  <1>2. CASE StopDecoder
    <2>1. /\ commands # <<>> /\ Head(commands) = "STOP" /\ commands' = Tail(commands)
          /\ dec = "receive" /\ dec' = "receive" /\ okBlocker' = 1
          /\ UNCHANGED <<main, m_CurrentState>>
      BY <1>2 DEF StopDecoder, Take, KeepsMain
    <2>2. commands \in Seq(Command)
      BY DEF PlayerInv, PlayerTyped
    <2>3. 1 \in DOMAIN commands /\ commands[1] = "STOP"
      BY <2>1, <2>2
    <2>4. Waits /\ 1 = Len(commands)
      BY <2>3 DEF PlayerInv, StopInv
    <2>5. commands' = <<>>
      BY <2>1, <2>2, <2>4
    <2>6. heard' = "none"
      BY <1>2 DEF StopDecoder, DeleteDecoder, PlayerInv, DecoderInv
    <2>7. m_CurrentState = "STOP" /\ main # "receive"
      BY <2>4 DEF PlayerInv, StopInv, Waits, Stopping
    <2> QED
      BY <2>1, <2>4, <2>5, <2>6, <2>7 DEF StopInv, StoppedIsSilent, Waits, Stopping
  <1> QED
    BY <1>1, <1>2, TakenOff, GoingOn DEF DecodeStep, Opened, Taking, Going

LEMMA DecodeKeepsPlay ==
    ASSUME PlayerInv,
           DecodeStep \/ Opened \/ EndOfStream \/ ConnectionEnds
    PROVE  PlayInv'
  <1> SUFFICES ASSUME main' = "receive", m_CurrentState' # "STOP"
               PROVE  PlayInv'
    BY DEF PlayInv
  <1>1. KeepsMain
    BY DEF DecodeStep, Opened, EndOfStream, ConnectionEnds, Start, SendDecode, SendStart, SendToSelf,
           BeginDecoding, RetryStart, LeaveLoop, DecodeNothing, SeekDecoder, PauseDecoder, StopDecoder,
           CreateDecoder, OpenFails, OpenedInVain
  <1>2. /\ main = "receive" /\ m_CurrentState # "STOP"
        /\ UNCHANGED <<lists, playing, uri, slipped, main, m_CurrentState>>
    BY <1>1 DEF KeepsMain, listVars
  <1>3. ~slipped' => AtURI'
    BY <1>2 DEF PlayerInv, PlayInv, AtURI
  <1>4. Pending(events, "OPEN_ERROR") => Pending(events', "OPEN_ERROR")
    <2>1. UNCHANGED events \/ \E id \in Reports : events' = Append(events, Event(id))
      BY DEF DecodeStep, Opened, EndOfStream, ConnectionEnds, Start, SendDecode, SendStart, SendToSelf,
           BeginDecoding, RetryStart, LeaveLoop, DecodeNothing, SeekDecoder, PauseDecoder, StopDecoder,
           CreateDecoder, OpenFails, OpenedInVain, Report, Reports
    <2>2. \A id \in Reports : Event(id) \in EventType
      BY EventTyped
    <2>3. events \in Seq(EventType)
      BY DEF PlayerInv, PlayerTyped
    <2>4. \A id \in Reports : Pending(events, "OPEN_ERROR") => Pending(Append(events, Event(id)), "OPEN_ERROR")
      BY <2>2, <2>3, EventAppended
    <2> QED
      BY <2>1, <2>4
  <1>5. /\ ~slipped' /\ ~Has(commands', "START") =>
                heard' \in {"none", uri'} /\ (dec' = "opening" => target' = uri')
        /\ bDecoderCreated' /\ heard' = "none" =>
                Has(commands', "START") \/ dec' = "opening" \/ Pending(events', "OPEN_ERROR")
    <2>1. CASE Start
      BY <1>2, <2>1 DEF Start, PlayerInv, DecoderInv
    <2>2. CASE BeginDecoding \/ RetryStart \/ SeekDecoder \/ PauseDecoder
      <3>1. Has(commands', "START") <=> Has(commands, "START")
        <4>1. Taking /\ Head(commands) # "START"
          BY <2>2 DEF Taking, BeginDecoding, RetryStart, SeekDecoder, PauseDecoder, Take
        <4> QED
          BY <4>1, TakenOff
      <3>2. /\ UNCHANGED <<heard, bDecoderCreated, target>> /\ dec # "opening"
            /\ dec' # "opening"
        BY <2>2 DEF BeginDecoding, RetryStart, SeekDecoder, PauseDecoder, Take
      <3> QED
        BY <1>2, <1>4, <3>1, <3>2 DEF PlayerInv, PlayInv
    <2>3. CASE SendDecode \/ SendStart
      <3>1. Has(commands, "START") => Has(commands', "START")
        <4>1. \E c \in {"DECODE", "START"} : commands' = Append(commands, c)
          BY <2>3 DEF SendDecode, SendStart, SendToSelf
        <4>2. commands \in Seq(Command)
          BY DEF PlayerInv, PlayerTyped
        <4>3. \A c \in {"DECODE", "START"} : Has(commands, "START") => Has(Append(commands, c), "START")
          BY <4>2, CommandAdded DEF Command
        <4> QED
          BY <4>1, <4>3
      <3>2. UNCHANGED <<heard, bDecoderCreated, target>> /\ dec' # "opening" /\ dec # "opening"
        BY <2>3 DEF SendDecode, SendStart, SendToSelf, DecGo
      <3> QED
        BY <1>2, <1>4, <3>1, <3>2 DEF PlayerInv, PlayInv
    <2>4. CASE LeaveLoop \/ DecodeNothing \/ ConnectionEnds
      <3>1. /\ UNCHANGED <<heard, bDecoderCreated, target, commands>>
            /\ dec' # "opening" /\ dec # "opening"
        BY <2>4 DEF LeaveLoop, DecodeNothing, ConnectionEnds, DecGo
      <3> QED
        BY <1>2, <1>4, <3>1 DEF PlayerInv, PlayInv
    <2>5. CASE EndOfStream
      BY <2>5 DEF EndOfStream, DeleteDecoder, DecGo
    <2>6. CASE CreateDecoder
      <3>1. /\ heard' = target /\ dec = "opening" /\ dec' = "sendDecode" /\ UNCHANGED commands
            /\ target # "none"
        BY <2>6 DEF CreateDecoder, DecGo, PlayerInv, DecoderInv
      <3> QED
        BY <1>2, <3>1 DEF PlayerInv, PlayInv
    <2>7. CASE OpenFails
      <3>1. /\ UNCHANGED <<heard, commands>> /\ dec' = "receive" /\ heard = "none"
            /\ events' = Append(events, Event("OPEN_ERROR"))
        BY <2>7 DEF OpenFails, DecGo, Report, PlayerInv, DecoderInv
      <3>2. Pending(events', "OPEN_ERROR")
        <4>1. Event("OPEN_ERROR") \in EventType /\ Event("OPEN_ERROR").id = "OPEN_ERROR"
          BY EventTyped DEF Reports
        <4> QED
          BY <3>1, <4>1, EventAppended DEF PlayerInv, PlayerTyped
      <3> QED
        BY <3>1, <3>2
    <2>8. ASSUME NEW known \in BOOLEAN, OpenedInVain(known)
          PROVE  /\ heard' = "none" /\ dec' = "receive" /\ ~bDecoderCreated'
      BY <2>8 DEF OpenedInVain, DecGo, PlayerInv, DecoderInv
    <2>9. CASE StopDecoder
      <3>1. commands # <<>> /\ Head(commands) = "STOP"
        BY <2>9 DEF StopDecoder, Take
      <3>2. Has(commands, "STOP")
        BY <3>1, HasRest DEF PlayerInv, PlayerTyped
      <3> QED
        BY <1>2, <3>2, Receiving
    <2> QED
      BY <2>1, <2>2, <2>3, <2>4, <2>5, <2>6, <2>7, <2>8, <2>9 DEF DecodeStep, Opened
  <1> QED
    BY <1>3, <1>5 DEF PlayInv

-----------------------------------------------------------------------------
(* The whole.                                                              *)

LEMMA InitInv == Init => PlayerInv /\ ScreenInv
  <1> SUFFICES ASSUME Init
               PROVE  PlayerInv /\ ScreenInv
    OBVIOUS
  <1>1. PlayerTyped
    <2>1. <<>> \in Seq(Command) /\ <<>> \in Seq(EventType)
      OBVIOUS
    <2> QED
      BY <2>1, Zenon DEF Init, PlayerTyped, Nothing
  <1>2. DecoderTyped
    <2>1. okBlocker \in 0..1
      BY DEF Init
    <2> QED
      BY <2>1, Zenon DEF Init, DecoderTyped, Nothing
  <1>3. ScreenTyped
    BY DEF Init, ScreenTyped
  <1>4. lists \in Lists
    BY <1>3, PlayControlAssumption DEF ScreenTyped, PlayControlAssumption, Lists
  <1>5. CursorInv
    BY <1>4, SelectionOK DEF Init, CursorInv
  <1>6. StopInv
    BY DEF Init, StopInv, StoppedIsSilent, Waits, Stopping, NoneFresh
  <1>7. DecoderInv /\ PlayInv
    BY DEF Init, DecoderInv, PlayInv, Has
  <1> QED
    BY <1>1, <1>2, <1>3, <1>5, <1>6, <1>7 DEF PlayerInv, ScreenInv

(* The invariants of the queue and the decoder, when neither changes.      *)
LEMMA StopKept ==
    ASSUME StopInv, DecoderInv, NoneFresh(events) => NoneFresh(events'),
           UNCHANGED <<main, m_CurrentState, uri, commands, resume, okBlocker, dec, heard,
                       target, bDecoderCreated>>
    PROVE  StopInv' /\ DecoderInv'
  <1>1. /\ main' = main /\ m_CurrentState' = m_CurrentState /\ uri' = uri
        /\ commands' = commands /\ resume' = resume /\ okBlocker' = okBlocker /\ dec' = dec /\ heard' = heard
        /\ target' = target /\ (bDecoderCreated <=> bDecoderCreated')
    OBVIOUS
  <1>2. StopInv'
    BY <1>1 DEF StopInv, StoppedIsSilent, Waits, Stopping
  <1>3. DecoderInv'
    BY <1>1 DEF DecoderInv, Has
  <1> QED
    BY <1>2, <1>3

LEMMA ArrivalKeeps ==
    ASSUME PlayerInv, ScreenInv, NEW id \in {"key", "RESUMED"}, Arrives(id)
    PROVE  PlayerInv' /\ ScreenInv'
  <1>1. /\ events' = Append(events, Event(id))
        /\ UNCHANGED <<listVars, screen, handlerVars, playerVars, main, decVars>>
    BY DEF Arrives
  <1>2. /\ events' \in Seq(EventType) /\ (NoneFresh(events) => NoneFresh(events'))
        /\ Pending(events, "OPEN_ERROR") => Pending(events', "OPEN_ERROR")
    <2>1. events \in Seq(EventType) /\ Event(id) \in EventType /\ Event(id).id = id
      BY EventTyped DEF PlayerInv, PlayerTyped
    <2> QED
      BY <1>1, <2>1, EventAppended
  <1>3. ScreenInv'
    BY <1>1, Zenon DEF ScreenInv, ScreenTyped, CursorInv, listVars, handlerVars
  <1>4. PlayerTyped' /\ DecoderTyped'
    <2>1. PlayerTyped'
      BY <1>1, <1>2, Zenon DEF PlayerInv, PlayerTyped, playerVars
    <2>2. DecoderTyped'
      BY <1>1, Zenon DEF PlayerInv, DecoderTyped, decVars
    <2> QED
      BY <2>1, <2>2
  <1>5. UNCHANGED <<main, m_CurrentState, uri, commands, resume, okBlocker, dec, heard, target,
                  bDecoderCreated>>
    BY <1>1 DEF playerVars, decVars
  <1>6. StopInv' /\ DecoderInv'
    BY <1>2, <1>5, StopKept DEF PlayerInv
  <1>7. PlayInv'
    BY <1>1, <1>2, Zenon DEF PlayerInv, PlayInv, AtURI, playerVars, decVars, listVars
  <1> QED
    BY <1>3, <1>4, <1>6, <1>7 DEF PlayerInv

(* The power callback stops the player.                                    *)
LEMMA SuspendKeeps ==
    ASSUME PlayerInv, ScreenInv, Suspend
    PROVE  PlayerEffect /\ PlayerInv' /\ ScreenInv'
  <1>1. resume' \in {"play", "pause"}
    BY DEF Suspend
  <1>2. StopBegins
    BY <1>1 DEF Suspend, Stop, StopBegins, Stopping, listVars
  <1>3. PlayerInv'
    BY <1>2, EffectKeeps DEF PlayerEffect, ScreenInv
  <1>4. ScreenInv'
    BY Zenon DEF Suspend, ScreenInv, ScreenTyped, CursorInv, listVars, handlerVars
  <1> QED
    BY <1>2, <1>3, <1>4 DEF PlayerEffect

LEMMA NextKeeps ==
    ASSUME PlayerInv, ScreenInv, [Next]_vars
    PROVE  PlayerInv' /\ ScreenInv'
  <1>1. CASE DecodeStep \/ Opened \/ EndOfStream \/ ConnectionEnds
    <2>1. PlayerInv'
      BY <1>1, DecodeTyped, DecodeKeepsStop, DecodeKeepsDecoder, DecodeKeepsPlay DEF PlayerInv
    <2>2. KeepsMain
      BY <1>1 DEF DecodeStep, Opened, EndOfStream, ConnectionEnds, Start, SendDecode, SendStart,
         SendToSelf, BeginDecoding, RetryStart, LeaveLoop, DecodeNothing, SeekDecoder, PauseDecoder, StopDecoder,
         CreateDecoder, OpenFails, OpenedInVain
    <2>3. ScreenInv'
      BY <2>2, Zenon DEF KeepsMain, ScreenInv, ScreenTyped, CursorInv, listVars, handlerVars
    <2> QED
      BY <2>1, <2>3
  <1>2. CASE UNCHANGED vars
    <2>1. ScreenInv'
      BY <1>2, Zenon DEF vars, ScreenInv, ScreenTyped, CursorInv, listVars, handlerVars
    <2>2. PlayerTyped' /\ DecoderTyped'
      <3>1. PlayerTyped'
        BY <1>2, Zenon DEF vars, PlayerInv, PlayerTyped, playerVars
      <3>2. DecoderTyped'
        BY <1>2, Zenon DEF vars, PlayerInv, DecoderTyped, decVars
      <3> QED
        BY <3>1, <3>2
    <2>3. StopInv' /\ DecoderInv'
      <3>1. UNCHANGED <<main, m_CurrentState, uri, commands, resume, okBlocker, dec, heard,
                        target, bDecoderCreated>>
        BY <1>2 DEF vars, playerVars, decVars
      <3>2. NoneFresh(events) => NoneFresh(events')
        BY <1>2, Zenon DEF vars
      <3> QED
        BY <3>1, <3>2, StopKept DEF PlayerInv
    <2>4. PlayInv'
      BY <1>2, Zenon DEF vars, PlayerInv, PlayInv, AtURI, playerVars, decVars, listVars
    <2> QED
      BY <2>1, <2>2, <2>3, <2>4 DEF PlayerInv
  <1> QED
    BY <1>1, <1>2, ArrivalKeeps, SuspendKeeps, HandlerKeeps DEF Next, Press, ResumeComplete

LEMMA Invariance == Spec => [](PlayerInv /\ ScreenInv)
  <1>1. Init => PlayerInv /\ ScreenInv
    BY InitInv
  <1>2. PlayerInv /\ ScreenInv /\ [Next]_vars => (PlayerInv /\ ScreenInv)'
    BY NextKeeps
  <1> QED
    BY <1>1, <1>2, PTL DEF Spec

(* Every variable keeps its type, the cursors fit the lists they are for.  *)
THEOREM TypeCorrect == Spec => []TypeOK
  <1>1. PlayerInv /\ ScreenInv => TypeOK
    BY TypeParts DEF PlayerInv, ScreenInv
  <1> QED
    BY <1>1, Invariance, PTL

(* On the side of the elements there is a list, and no cursor into a list  *)
(* that has elements is off it: InputHandler follows none into nowhere.    *)
THEOREM CursorsAreHeld == Spec => []CursorsHold
  <1>1. PlayerInv /\ ScreenInv => CursorsHold
    BY DEF ScreenInv, CursorInv, CursorOK, CursorsHold
  <1> QED
    BY <1>1, Invariance, PTL

(* A stopped player has no decoder, and nothing under way that makes one.  *)
THEOREM SilenceAfterStop == Spec => []StoppedIsSilent
  <1>1. PlayerInv /\ ScreenInv => StoppedIsSilent
    BY DEF PlayerInv, StopInv
  <1> QED
    BY <1>1, Invariance, PTL

(* What is heard when all is handled is the stream's URI, and what the     *)
(* playing cursor is at, unless that slipped.                              *)
THEOREM ShownIsHeard == Spec => []HeardIsShown
  <1>1. PlayerInv /\ ScreenInv => HeardIsShown
    <2> SUFFICES ASSUME PlayerInv, Settled, m_CurrentState = "PLAY", dec = "decoding", ~slipped
                 PROVE  /\ heard = uri /\ AtElement(lists, playing)
                        /\ heard = Element(lists, playing)
      BY DEF HeardIsShown
    <2>1. ~Has(commands, "START") /\ ~Pending(events, "OPEN_ERROR")
      BY DEF Settled, Has, Pending
    <2>2. heard # "none"
      BY <2>1 DEF PlayerInv, PlayInv, DecoderInv, Settled
    <2> QED
      BY <2>1, <2>2 DEF PlayerInv, PlayInv, AtURI, Settled
  <1> QED
    BY <1>1, Invariance, PTL

(* While no list is empty a cursor is followed into nowhere only before a  *)
(* track was chosen from new lists: for a report on what was stopped, or   *)
(* with a player that a resume has made to play on.                        *)
THEOREM NowhereIsStale == Spec => CursorsLeadSomewhere
  <1>1. PlayerInv /\ ScreenInv /\ [Next]_vars =>
            [main' = "wild" /\ lists # <<>> /\ (\A i \in DOMAIN lists : lists[i] # <<>>) =>
                 (Head(events).stale \/ slipped) /\ playing.list = 0]_vars
    <2> SUFFICES ASSUME PlayerInv, ScreenInv, Next, main' = "wild", lists # <<>>,
                        \A i \in DOMAIN lists : lists[i] # <<>>
                 PROVE  (Head(events).stale \/ slipped) /\ playing.list = 0
      OBVIOUS
    <2>1. HandlerStep \/ Suspend \/ (UNCHANGED main /\ Alive)
      BY DEF Next, Press, ResumeComplete, Arrives, KeepsMain, DecodeStep, Opened, EndOfStream, Alive,
         ConnectionEnds, Start, SendDecode, SendStart, SendToSelf, BeginDecoding, RetryStart, Take,
         LeaveLoop, DecodeNothing, SeekDecoder, PauseDecoder, StopDecoder, CreateDecoder, OpenFails, OpenedInVain,
         DecGo
    <2>2. PlayerEffect
      BY <2>1, HandlerKeeps, SuspendKeeps DEF Alive
    <2>3. Wilded
      BY <2>2 DEF PlayerEffect, Quieted, Paused, Resumed, Started, PlayedOn, StopBegins, Stopping,
         Returned, Answered, Handled, Receive
    <2>4. PICK id \in {"key", "DECODING", "EOS"} : Handled(id)
      BY <2>3 DEF Wilded
    <2>5. main = "receive" /\ events # <<>> /\ Head(events).id = id
      BY <2>4, Handling
    <2>6. playing'.list = 0
      <3>1. lists \in Lists /\ CursorOK(lists, playing') /\ ~AtElement(lists, playing')
        BY <2>3, Cursors DEF Wilded
      <3>2. ~HasElements(lists, playing')
        BY <3>1 DEF CursorOK
      <3> QED
        BY <3>1, <3>2 DEF HasElements, CursorOK, Indexers, Lists
    <2>7. playing.list = 0 /\ (id # "key" \/ slipped)
      BY <2>3, <2>5, <2>6 DEF Wilded
    <2>8. CASE m_CurrentState # "STOP"
      <3>1. ~AtURI
        BY <2>7, Cursors DEF AtURI, AtElement, Lists
      <3> QED
        BY <2>5, <2>7, <2>8, <3>1 DEF PlayerInv, PlayInv
    <2>9. CASE m_CurrentState = "STOP"
      <3>1. NoneFresh(events) /\ events \in Seq(EventType)
        BY <2>5, <2>9 DEF PlayerInv, StopInv, PlayerTyped
      <3>2. id # "key" => Head(events).stale
        BY <2>5, <3>1, EventsRest
      <3> QED
        BY <2>7, <3>2
    <2> QED
      BY <2>8, <2>9
  <1> QED
    BY <1>1, Invariance, PTL DEF Spec, CursorsLeadSomewhere

-----------------------------------------------------------------------------
(* The sound object's view of the player.                                  *)

Asking(q) == Has(q, "START") \/ Has(q, "DECODE")

LEMMA AskedIs ==
    /\ PlayerTyped => IsAsked = Asking(commands)
    /\ PlayerTyped' => IsAsked' = Asking(commands')
  <1>1. PlayerTyped => DOMAIN commands = 1..Len(commands)
    BY DEF PlayerTyped
  <1>2. PlayerTyped' => DOMAIN commands' = 1..Len(commands')
    BY DEF PlayerTyped
  <1> QED
    BY <1>1, <1>2 DEF IsAsked, Asking, Has

LEMMA AskedAppended ==
    ASSUME NEW q \in Seq(Command), NEW c \in Command
    PROVE  /\ Asking(Append(q, c)) <=> Asking(q) \/ c \in {"START", "DECODE"}
           /\ Append(q, c) \in Seq(Command)
  <1>1. \A d \in {"START", "DECODE"} : Has(Append(q, c), d) <=> Has(q, d) \/ c = d
    BY HasAppended
  <1> QED
    BY <1>1 DEF Asking

LEMMA AskedRest ==
    ASSUME NEW q \in Seq(Command), q # <<>>
    PROVE  Asking(q) <=> Head(q) \in {"START", "DECODE"} \/ Asking(Tail(q))
  <1>1. \A d \in {"START", "DECODE"} : Has(q, d) <=> Head(q) = d \/ Has(Tail(q), d)
    BY HasRest
  <1> QED
    BY <1>1 DEF Asking

(* A step that neither asks nor works is none of the sound object's.       *)
LEMMA ObjectStutters ==
    ASSUME PlayerInv, PlayerInv', Asking(commands') <=> Asking(commands),
           UNCHANGED <<IsWorking, okBlocker, StoppedBy>>
    PROVE  UNCHANGED Object!vars
  <1>1. IsAsked' = IsAsked
    BY AskedIs DEF PlayerInv, Asking
  <1>2. IsWorking' = IsWorking /\ IsAnswered' = IsAnswered
    BY DEF IsAnswered
  <1> QED
    BY <1>1, <1>2 DEF Object!vars

(* What the handlers do to it, by their effects on the player.             *)
LEMMA EffectImplements ==
    ASSUME PlayerInv, PlayerInv', PlayerEffect
    PROVE  [Object!Next]_Object!vars
  <1>1. commands \in Seq(Command)
    BY DEF PlayerInv, PlayerTyped
  <1>2. IsAsked = Asking(commands) /\ IsAsked' = Asking(commands')
    BY AskedIs DEF PlayerInv
  <1>3. CASE Returned
    <2>1. /\ Waits /\ main' = "receive" /\ okBlocker > 0 /\ okBlocker' = okBlocker - 1
          /\ UNCHANGED <<commands, dec>>
      BY <1>3 DEF Returned, Answered, Waits, Stopping, playerVars
    <2>2. okBlocker' = 0
      BY <2>1 DEF PlayerInv, DecoderTyped
    <2>3. IsAnswered /\ IsAnswered' = FALSE /\ StoppedBy' = "free"
      BY <2>1, <2>2 DEF IsAnswered, StoppedBy, Stopping
    <2>4. IsAsked' = IsAsked /\ IsWorking' = IsWorking
      BY <2>1 DEF IsAsked, IsWorking
    <2>5. Object!Return
      BY <2>3, <2>4 DEF Object!Return
    <2> QED
      BY <2>5 DEF Object!Next
  <1>4. ASSUME NEW id, Handled(id)
        PROVE  /\ StoppedBy = "free" /\ UNCHANGED <<dec, okBlocker>>
               /\ IsWorking' = IsWorking /\ IsAnswered' = IsAnswered
    <2>1. main = "receive" /\ UNCHANGED <<dec, okBlocker>>
      BY <1>4, Handling
    <2> QED
      BY <2>1 DEF StoppedBy, Stopping, IsWorking, IsAnswered
  <1>5. CASE StopBegins
    <2>1. /\ StoppedBy = "free" /\ IsWorking' = IsWorking /\ IsAnswered' = IsAnswered
      BY <1>5 DEF StopBegins, decVars, StoppedBy, Stopping, IsWorking, IsAnswered
    <2>2. commands' = Append(commands, "STOP") /\ StoppedBy' \in {"main", "power"}
      BY <1>5 DEF StopBegins, StoppedBy, Stopping
    <2>3. Asking(commands') <=> Asking(commands)
      BY <1>1, <2>2, AskedAppended DEF Command
    <2>4. IsAsked' = IsAsked
      BY <1>2, <2>3 DEF Asking
    <2>5. Object!Stop(StoppedBy')
      BY <2>1, <2>2, <2>4 DEF Object!Stop
    <2> QED
      BY <2>2, <2>5 DEF Object!Next
  <1>6. CASE Quieted \/ Paused \/ Resumed \/ Started \/ Wilded \/ PlayedOn
    <2>1. PICK id : Handled(id)
      BY <1>6 DEF Quieted, Paused, Resumed, Started, Wilded, PlayedOn
    <2>2. StoppedBy = "free" /\ StoppedBy' = "free"
      <3>1. main' \in {"receive", "wild"}
        BY <1>6, <2>1, Handling DEF Quieted, Paused, Resumed, Started, Wilded, PlayedOn
      <3> QED
        BY <1>4, <2>1, <3>1 DEF StoppedBy, Stopping
    <2>3. \/ Asking(commands') <=> Asking(commands)
          \/ Asking(commands')
      <3>1. CASE commands' = commands
        BY <3>1
      <3>2. CASE \E c \in Command : commands' = Append(commands, c)
        BY <1>1, <3>2, AskedAppended
      <3>3. CASE commands' = Append(Append(commands, "DECODE"), "START")
        BY <1>1, <3>3, AskedAppended DEF Command
      <3> QED
        BY <1>6, <3>1, <3>2, <3>3 DEF Quieted, Paused, Resumed, Started, Wilded, PlayedOn, PlaysOn,
           Asking, Command
    <2>4. CASE Asking(commands') <=> Asking(commands)
      BY <1>4, <2>1, <2>2, <2>4, ObjectStutters
    <2>5. CASE Asking(commands')
      <3>1. IsAsked' = TRUE
        BY <1>2, <2>5
      <3>2. Object!Ask
        BY <1>4, <2>1, <2>2, <3>1 DEF Object!Ask
      <3> QED
        BY <3>2 DEF Object!Next
    <2> QED
      BY <2>3, <2>4, <2>5
  <1> QED
    BY <1>3, <1>5, <1>6 DEF PlayerEffect

(* What the decode thread does to it.                                      *)
LEMMA DecodeImplements ==
    ASSUME PlayerInv, PlayerInv',
           DecodeStep \/ Opened \/ EndOfStream \/ ConnectionEnds
    PROVE  [Object!Next]_Object!vars
  <1>1. commands \in Seq(Command)
    BY DEF PlayerInv, PlayerTyped
  <1>2. IsAsked = Asking(commands) /\ IsAsked' = Asking(commands')
    BY AskedIs DEF PlayerInv
  <1>3. StoppedBy' = StoppedBy
    <2>1. KeepsMain
      BY DEF DecodeStep, Opened, EndOfStream, ConnectionEnds, Start, SendDecode, SendStart,
         SendToSelf, BeginDecoding, RetryStart, LeaveLoop, DecodeNothing, SeekDecoder, PauseDecoder, StopDecoder,
         CreateDecoder, OpenFails, OpenedInVain
    <2> QED
      BY <2>1 DEF KeepsMain, StoppedBy
  <1>4. CASE Start \/ BeginDecoding \/ RetryStart
    <2>1. /\ commands # <<>> /\ Head(commands) \in {"START", "DECODE"}
          /\ UNCHANGED okBlocker /\ IsWorking = FALSE /\ IsWorking' = TRUE
      BY <1>4 DEF Start, BeginDecoding, RetryStart, Take, IsWorking
    <2>2. IsAsked /\ IsAsked' \in BOOLEAN /\ IsAnswered' = IsAnswered
      BY <1>1, <1>2, <2>1, AskedRest DEF IsAnswered, IsAsked
    <2>3. Object!Begin
      BY <1>3, <2>1, <2>2 DEF Object!Begin
    <2> QED
      BY <2>3 DEF Object!Next
  <1>5. CASE SeekDecoder \/ PauseDecoder
    <2>1. /\ commands # <<>> /\ Head(commands) \in {"SEEK", "PAUSE"} /\ commands' = Tail(commands)
          /\ UNCHANGED <<IsWorking, okBlocker>>
      BY <1>5 DEF SeekDecoder, PauseDecoder, Take, IsWorking
    <2>2. Asking(commands') <=> Asking(commands)
      BY <1>1, <2>1, AskedRest
    <2> QED
      BY <1>3, <2>1, <2>2, ObjectStutters
  <1>6. CASE SendDecode \/ SendStart
    <2>1. /\ main = "receive" /\ dec \in {"sendDecode", "sendStart"} /\ dec' = "receive"
          /\ \E c \in {"DECODE", "START"} : commands' = Append(commands, c)
          /\ UNCHANGED okBlocker
      BY <1>6 DEF SendDecode, SendStart, SendToSelf, DecGo, LockIsFree
    <2>2. IsAsked' = TRUE
      BY <1>1, <1>2, <2>1, AskedAppended DEF Command
    <2>3. IsWorking /\ IsWorking' = FALSE /\ IsAnswered' = IsAnswered /\ StoppedBy = "free"
      BY <2>1 DEF IsWorking, IsAnswered, StoppedBy, Stopping
    <2>4. Object!AskItself
      BY <1>3, <2>2, <2>3 DEF Object!AskItself
    <2> QED
      BY <2>4 DEF Object!Next
  <1>7. CASE StopDecoder
    <2>1. /\ commands # <<>> /\ Head(commands) = "STOP" /\ commands' = Tail(commands)
          /\ dec = "receive" /\ UNCHANGED dec /\ okBlocker' = 1
      BY <1>7 DEF StopDecoder, Take
    <2>2. 1 \in DOMAIN commands /\ commands[1] = "STOP"
      BY <1>1, <2>1
    <2>3. Waits /\ 1 = Len(commands)
      BY <2>2 DEF PlayerInv, StopInv
    <2>4. okBlocker = 0
      BY <2>1 DEF PlayerInv, StopInv, DecoderTyped
    <2>5. ~IsAsked /\ IsAsked' = IsAsked
      <3>1. \A i \in DOMAIN commands : commands[i] = "STOP"
        BY <1>1, <2>2, <2>3
      <3>2. ~Asking(commands)
        BY <3>1 DEF Asking, Has
      <3>3. ~Asking(commands')
        BY <1>1, <2>1, <3>2, AskedRest
      <3> QED
        BY <1>2, <3>2, <3>3 DEF IsAsked
    <2>6. /\ StoppedBy # "free" /\ ~IsAnswered /\ IsAnswered' = TRUE
          /\ ~IsWorking /\ IsWorking' = IsWorking
      BY <2>1, <2>3, <2>4 DEF StoppedBy, Waits, Stopping, IsAnswered, IsWorking
    <2>7. Object!Answer
      BY <1>3, <2>5, <2>6 DEF Object!Answer
    <2> QED
      BY <2>7 DEF Object!Next
  <1>8. CASE Going
    <2>1. UNCHANGED <<commands, okBlocker>>
      BY <1>8, GoingOn
    <2>2. IsAsked' = IsAsked /\ IsAnswered' = IsAnswered
      BY <2>1 DEF IsAsked, IsAnswered
    <2>3. IsWorking' = IsWorking \/ (IsWorking /\ IsWorking' = FALSE)
      BY <1>8 DEF Going, LeaveLoop, DecodeNothing, EndOfStream, ConnectionEnds, CreateDecoder,
         OpenFails, OpenedInVain, DecGo, IsWorking
    <2>4. CASE IsWorking' = IsWorking
      BY <1>3, <2>2, <2>4 DEF Object!vars
    <2>5. CASE IsWorking /\ IsWorking' = FALSE
      <3>1. Object!End
        BY <1>3, <2>2, <2>5 DEF Object!End
      <3> QED
        BY <3>1 DEF Object!Next
    <2> QED
      BY <2>3, <2>4, <2>5
  <1> QED
    BY <1>4, <1>5, <1>6, <1>7, <1>8 DEF DecodeStep, Opened, Going

(* Whatever the handlers of keys and reports do, the sound object of the   *)
(* player keeps its promise: what works was asked for, and when Stop       *)
(* returns to the handler nothing is left of what was asked for before.    *)
THEOREM PlayerImplementsObject == Spec => ImplementsObject
  <1>1. Init => Object!Init
    <2> SUFFICES ASSUME Init PROVE Object!Init
      OBVIOUS
    <2>1. IsAsked = FALSE
      BY DEF Init, IsAsked
    <2>2. IsWorking = FALSE /\ StoppedBy = "free" /\ IsAnswered = FALSE
      BY DEF Init, IsWorking, StoppedBy, Stopping, IsAnswered
    <2> QED
      BY <2>1, <2>2 DEF Object!Init
  <1>2. PlayerInv /\ ScreenInv /\ [Next]_vars => [Object!Next]_Object!vars
    <2> SUFFICES ASSUME PlayerInv, ScreenInv, [Next]_vars
                 PROVE  [Object!Next]_Object!vars
      OBVIOUS
    <2>1. PlayerInv'
      BY NextKeeps
    <2>2. CASE Press \/ ResumeComplete \/ UNCHANGED vars
      <3>1. UNCHANGED <<commands, dec, okBlocker, main>>
        BY <2>2 DEF Press, ResumeComplete, Arrives, vars, playerVars, decVars
      <3>2. StoppedBy' = StoppedBy /\ IsWorking' = IsWorking
        BY <3>1 DEF StoppedBy, IsWorking
      <3> QED
        BY <2>1, <3>1, <3>2, ObjectStutters
    <2>3. CASE HandlerStep \/ Suspend
      BY <2>1, <2>3, HandlerKeeps, SuspendKeeps, EffectImplements
    <2>4. CASE DecodeStep \/ Opened \/ EndOfStream \/ ConnectionEnds
      BY <2>1, <2>4, DecodeImplements
    <2> QED
      BY <2>2, <2>3, <2>4 DEF Next
  <1> QED
    BY Invariance, <1>1, <1>2, PTL DEF Spec, ImplementsObject, Object!Spec

=============================================================================
