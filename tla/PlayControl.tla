----------------------------- MODULE PlayControl -----------------------------
(***************************************************************************)
(* What the user plays: the main thread's event loop                       *)
(* (CPSPRadio::ProcessEvents) with the playlist screen it hands keys and   *)
(* the stream's events to (ScreenHandler/PlayListScreen.cpp), the options  *)
(* that bear on them, and the decode thread at the other end of two queues.*)
(*                                                                         *)
(* The main thread handles one event at a time, except that Stop, within a *)
(* handler, waits for the decode thread; what that thread reports in the   *)
(* meantime queues up behind the event being handled.  Reports are not     *)
(* told apart by stream: one that was queued before the user stopped or    *)
(* chose another track is handled as if it were about the present one.     *)
(*                                                                         *)
(* When the console is suspended the thread of its power callback stops    *)
(* the player, and an event tells the main thread to go on with it later.  *)
(* The main thread is taken to handle nothing while the other waits in its *)
(* Stop; that both are in the player at once is PSPSound's matter.         *)
(*                                                                         *)
(* Queues are those of EventQ as meant; a playlist's own contents (a URL   *)
(* that names another) and the drawing are left out.  Once a pointer or an *)
(* iterator that leads nowhere is followed nothing more is said.           *)
(***************************************************************************)
EXTENDS Naturals, Sequences, Playlists

CONSTANTS
    Tracks,     \* what the lists may hold
    Files,      \* those that are local files, the others are URLs
    Library,    \* what a load from the directory may find
    MaxEvents,  \* bound: keys and resumes come while fewer events are queued
    MaxCommands \* bound: and fewer commands to the decode thread

ASSUME PlayControlAssumption ==
    /\ Files \subseteq Tracks
    /\ "none" \notin Tracks
    /\ Library \subseteq Seq(Seq(Tracks))
    /\ MaxEvents \in Nat
    /\ MaxCommands \in Nat

VARIABLES
    lists,          \* m_Lists: the containers of the playlist screen
    side,           \* m_CurrentSide: "containers" or "elements"
    selection,      \* m_CurrentSelectionIndexer
    playing,        \* m_PlayingTrackIndexer
    screen,         \* m_CurrentScreen: "playlist" or "options"
    m_RequestOnPlayOrStop,
    OldPlayState,   \* static in OnPlayStateChange: "PAUSE", or "other"
    m_CurrentState, \* of CPSPSound: "PLAY", "PAUSE" or "STOP"
    uri,            \* of the stream's metadata, or "none"
    m_Type,         \* of the stream: "file" or "url"
    commands,       \* events sent to the decode thread
    events,         \* events sent to the main thread
    main,           \* the main thread: in Receive, or a Stop it is kept by
    resume,         \* m_PowerEventData: what a resume is to do, "no" for nothing
    okBlocker,      \* the answer to SendAndWaitForOK
    dec,            \* the decode thread
    target,         \* the URI that Open was called for
    bDecoderCreated,
    heard,          \* the track the decoder decodes, "none" without decoder
    opened,         \* m_State of the stream is OPEN
    slipped         \* history: played, though the playing cursor is elsewhere

listVars   == <<lists, side, selection, playing>>
handlerVars == <<m_RequestOnPlayOrStop, OldPlayState>>
playerVars == <<m_CurrentState, uri, m_Type, commands, slipped, resume>>
decVars    == <<okBlocker, dec, target, bDecoderCreated, heard, opened>>
vars == <<listVars, screen, handlerVars, playerVars, events, main, decVars>>

(* What the decode thread reports, and MID_SOUND_STOPPED.                  *)
Reports == {"DECODING", "EOS", "OPEN_ERROR", "STOPPED"}

(* The queue holds these and keys; which key it is matters only when it is *)
(* handled.  An event is stale once what it reports on has been stopped or *)
(* replaced; the code knows nothing of that.                               *)
Event(id) == [id |-> id, stale |-> FALSE]

Outdated(q) == [i \in DOMAIN q |-> [q[i] EXCEPT !.stale = TRUE]]

Init ==
    /\ lists \in Library
    /\ side = "containers"
    /\ selection = SelectionOf(lists)
    /\ playing = Unset
    /\ screen = "playlist"
    /\ m_RequestOnPlayOrStop = "NOTHING"
    /\ OldPlayState = "other"
    /\ m_CurrentState = "STOP"
    /\ uri = "none"
    /\ m_Type = "file"
    /\ commands = <<>>
    /\ events = <<>>
    /\ main = "receive"
    /\ resume = "no"
    /\ okBlocker = 0
    /\ dec = "receive"
    /\ target = "none"
    /\ bDecoderCreated = FALSE
    /\ heard = "none"
    /\ opened = FALSE
    /\ slipped = FALSE

(* The program runs until it follows what leads nowhere.                   *)
Alive == main # "wild" /\ dec # "crashed"

Arrives(id) ==
    /\ Alive
    /\ Len(events) < MaxEvents
    /\ Len(commands) < MaxCommands
    /\ events' = Append(events, Event(id))
    /\ UNCHANGED <<listVars, screen, handlerVars, playerVars, main, decVars>>

(* CPSPApp::Run finds a key released.                                      *)
Press == Arrives("key")

(* powerCallback, PSP_POWER_CB_RESUME_COMPLETE; it may still be in a Stop. *)
ResumeComplete == main # "suspend" /\ Arrives("RESUMED")

-----------------------------------------------------------------------------
(* The player, as one handler may change it several times:                 *)
(* [state, uri, type, commands, slipped, resume, events, wild].            *)
Player ==
    [state |-> m_CurrentState, uri |-> uri, type |-> m_Type, commands |-> commands,
     slipped |-> slipped, resume |-> resume, events |-> Tail(events), wild |-> FALSE]

(* The handler leaves the player as p, and returns.                        *)
Return(p) ==
    /\ m_CurrentState' = p.state
    /\ uri' = p.uri
    /\ m_Type' = p.type
    /\ commands' = p.commands
    /\ slipped' = p.slipped
    /\ resume' = p.resume
    /\ events' = p.events
    /\ main' = IF p.wild THEN "wild" ELSE "receive"
    /\ UNCHANGED decVars

Wild(p) == [p EXCEPT !.wild = TRUE]

(* CPSPSound::Play.                                                        *)
Play(p) ==
    [p EXCEPT !.state = "PLAY",
              !.commands = Append(@, IF p.state = "PAUSE" THEN "DECODE" ELSE "START")]

SetURI(p, track) ==
    [p EXCEPT !.uri = track, !.type = IF track \in Files THEN "file" ELSE "url",
              !.slipped = FALSE, !.events = Outdated(@)]

(* PlayListScreen::PlaySetStream with the playing cursor x: *x is followed *)
(* without a check of whether it leads to an element.                      *)
PlaySetStream(p, x) ==
    IF p.state = "PAUSE" THEN Play(p)
    ELSE IF ~AtElement(lists, x) THEN Wild(p)
    ELSE Play(SetURI(p, Element(lists, x)))

(* CPSPSound::Pause.                                                       *)
Pause(p) == [p EXCEPT !.state = "PAUSE", !.commands = Append(@, "PAUSE")]

(* CPSPSound::Seek, which only the resume of a file calls.                 *)
Seek(p) == [p EXCEPT !.commands = Append(@, "SEEK")]

-----------------------------------------------------------------------------
(* The event loop: the first event goes to its handler.                    *)
Receive(id) ==
    /\ Alive
    /\ main = "receive"
    /\ events # <<>>
    /\ Head(events).id = id

(* A key on the playlist screen, other than those that change screens.     *)
Key == Receive("key") /\ screen = "playlist"

KeepsPlayer ==
    /\ events' = Tail(events)
    /\ UNCHANGED <<playerVars, main, decVars>>

(* OnPlayStateChange(PLAYSTATE_PAUSE), which the keys that pause call.     *)
OnPause ==
    /\ m_RequestOnPlayOrStop' = "NOTHING"
    /\ OldPlayState' = "PAUSE"

Cancel ==
    /\ Key
    /\ side' = "containers"
    /\ KeepsPlayer
    /\ UNCHANGED <<lists, selection, playing, screen, handlerVars>>

(* BTN_FWD moves the selection by one, BTN_PGDN by ten.                    *)
MoveForward(n) ==
    /\ Key
    /\ selection' = IF side = "containers" THEN NextContainer(lists, selection, n)
                    ELSE NextElement(lists, selection, n)
    /\ KeepsPlayer
    /\ UNCHANGED <<lists, side, playing, screen, handlerVars>>

(* BTN_BACK and BTN_PGUP.                                                  *)
MoveBack(n) ==
    /\ Key
    /\ selection' = IF side = "containers" THEN PrevContainer(lists, selection, n)
                    ELSE PrevElement(lists, selection, n)
    /\ KeepsPlayer
    /\ UNCHANGED <<lists, side, playing, screen, handlerVars>>

(* BTN_OK on the containers: the cursor goes into the one selected.        *)
EnterContainer ==
    /\ Key /\ side = "containers"
    /\ IF lists = <<>> THEN UNCHANGED <<selection, side>>
       ELSE /\ selection' = AssociateElementList(lists, selection)
            /\ side' = "elements"
    /\ KeepsPlayer
    /\ UNCHANGED <<lists, playing, screen, handlerVars>>

(* Is what is selected another URI than the stream's?                      *)
OtherSelected == uri # Element(lists, selection)

PlaySelection(p) ==
    /\ playing' = selection
    /\ Return(PlaySetStream(p, selection))

(* BTN_OK on the elements.  GetElementList() is not tested for NULL.       *)
NothingToPlay ==
    /\ Key /\ side = "elements" /\ ~HasElements(lists, selection)
    /\ Return(IF selection.list = 0 THEN Wild(Player) ELSE Player)
    /\ UNCHANGED <<listVars, screen, handlerVars>>

SelectElement == Key /\ side = "elements" /\ HasElements(lists, selection)

PlayStopped ==
    /\ SelectElement /\ m_CurrentState = "STOP"
    /\ PlaySelection(Player)
    /\ UNCHANGED <<lists, side, selection, screen, handlerVars>>

PlayPaused ==
    /\ SelectElement /\ m_CurrentState = "PAUSE"
    /\ IF OtherSelected
       THEN PlaySelection(PlaySetStream(Player, playing))
       ELSE Return(PlaySetStream(Player, playing)) /\ UNCHANGED playing
    /\ UNCHANGED <<lists, side, selection, screen, handlerVars>>

PlayOther ==
    /\ SelectElement /\ m_CurrentState = "PLAY" /\ opened /\ OtherSelected
    /\ PlaySelection(Player)
    /\ UNCHANGED <<lists, side, selection, screen, handlerVars>>

(* A file is paused, a URL plays on.                                       *)
PauseSame ==
    /\ SelectElement /\ m_CurrentState = "PLAY" /\ opened /\ ~OtherSelected
    /\ IF m_Type = "file" THEN Return(Pause(Player)) /\ OnPause
       ELSE Return(Player) /\ UNCHANGED handlerVars
    /\ UNCHANGED <<listVars, screen>>

(* "this shouldn't happen": the stream is still being opened, or again     *)
(* closed.  The playing cursor stays where it is.                          *)
PlayNotOpen ==
    /\ SelectElement /\ m_CurrentState = "PLAY" /\ ~opened
    /\ Return(PlaySetStream(Player, playing))
    /\ UNCHANGED <<listVars, screen, handlerVars>>

(* Sound.Stop: the caller waits, then goes on as `after' says.             *)
Stop(after) ==
    /\ m_CurrentState' = "STOP"
    /\ commands' = Append(commands, "STOP")
    /\ main' = after
    /\ UNCHANGED <<uri, m_Type, slipped, decVars>>

StopThen(after) == Stop(after) /\ events' = Tail(events) /\ UNCHANGED resume

StopKey ==
    /\ Key
    /\ IF m_CurrentState = "STOP" THEN KeepsPlayer ELSE StopThen("stopKey")
    /\ UNCHANGED <<listVars, screen, handlerVars>>

-----------------------------------------------------------------------------
(* The remote's keys, OnHPRMReleased.                                      *)

(* "Make the play index be whatever is selected" when there is none.       *)
Cursor == IF playing.list = 0 THEN selection ELSE playing

(* From a pause the stream goes on, and is then replaced.                  *)
PlayFrom(x) ==
    /\ playing' = x
    /\ Return(IF m_CurrentState = "PAUSE"
              THEN PlaySetStream(PlaySetStream(Player, x), x)
              ELSE PlaySetStream(Player, x))

RemoteForward ==
    /\ Key
    /\ IF lists = <<>> THEN playing' = Cursor /\ KeepsPlayer
       ELSE PlayFrom(NextGlobalElement(lists, Cursor))
    /\ UNCHANGED <<lists, side, selection, screen, handlerVars>>

RemoteBack ==
    /\ Key
    /\ IF lists = <<>> THEN playing' = Cursor /\ KeepsPlayer
       ELSE PlayFrom(PrevGlobalElement(lists, Cursor))
    /\ UNCHANGED <<lists, side, selection, screen, handlerVars>>

RemotePlay ==
    /\ Key
    /\ CASE m_CurrentState = "STOP"
              -> PlaySelection(Player) /\ UNCHANGED handlerVars
         [] m_CurrentState = "PAUSE"
              -> /\ playing' = Cursor
                 /\ Return(PlaySetStream(Player, Cursor))
                 /\ UNCHANGED handlerVars
         [] m_CurrentState = "PLAY"
              -> playing' = Cursor /\ Return(Pause(Player)) /\ OnPause
    /\ UNCHANGED <<lists, side, selection, screen>>

-----------------------------------------------------------------------------
(* The options screen.                                                     *)

ChangeScreen ==
    /\ Receive("key")
    /\ screen' = IF screen = "playlist" THEN "options" ELSE "playlist"
    /\ KeepsPlayer
    /\ UNCHANGED <<listVars, handlerVars>>

(* Every other key there moves its cursor, changes an option, or, from the *)
(* remote, starts the network: OnHPRMReleased is called through a slot of  *)
(* the table of another class.  Of the options the play mode matters here: *)
(* as the user may change it at any time, the end of a stream finds any.   *)
OtherOption ==
    /\ Receive("key") /\ screen = "options"
    /\ KeepsPlayer
    /\ UNCHANGED <<listVars, screen, handlerVars>>

RefreshPlaylists ==
    /\ Receive("key") /\ screen = "options"
    /\ StopThen("refresh")
    /\ UNCHANGED <<listVars, screen, handlerVars>>

(* CommonInputHandler, on any screen: "Stop stream if playing, else the    *)
(* event queue can back-up".  The button has no other meaning.             *)
TakeScreenshot ==
    /\ Receive("key")
    /\ StopThen("return")
    /\ UNCHANGED <<listVars, screen, handlerVars>>

-----------------------------------------------------------------------------
(* Power events.                                                           *)

(* OnPowerEvent, of the callback's thread: of the two flags it sets, that  *)
(* of a pause decides, even when both are set.                             *)
Suspend ==
    /\ Alive
    /\ main = "receive"
    /\ m_CurrentState # "STOP"
    /\ resume' = IF "PAUSE" = m_CurrentState \/ resume = "pause" THEN "pause" ELSE "play"
    /\ Stop("suspend")
    /\ UNCHANGED <<listVars, screen, handlerVars, events>>

(* Is the playing cursor at the track that the URI names?                  *)
AtURI == AtElement(lists, playing) /\ uri = Element(lists, playing)

(* Play, whatever the state is by now, Seek and Pause.  No screen is told. *)
ResumePlay ==
    LET playedOn == Play([Player EXCEPT !.resume = "no", !.slipped = @ \/ ~AtURI])
        sought   == IF m_Type = "file" THEN Seek(playedOn) ELSE playedOn
    IN  IF resume = "pause" THEN Pause(sought) ELSE sought

OnPowerEventResumeComplete ==
    /\ Receive("RESUMED")
    /\ Return(IF resume = "no" THEN Player ELSE ResumePlay)
    /\ UNCHANGED <<listVars, screen, handlerVars>>

-----------------------------------------------------------------------------
(* What the decode thread reports.                                         *)

(* OnPlayStateChange(PLAYSTATE_PLAY): after anything but a pause, if the   *)
(* stream has no title of its own, all of the metadata, the URI included,  *)
(* is copied from the element the playing cursor is at.                    *)
OnDecoding(titled) ==
    /\ Receive("DECODING")
    /\ Return(IF OldPlayState = "PAUSE" \/ titled THEN Player
              ELSE IF AtElement(lists, playing)
              THEN [Player EXCEPT !.uri = Element(lists, playing)]
              ELSE Wild(Player))
    /\ m_RequestOnPlayOrStop' = "NOTHING"
    /\ OldPlayState' = "other"
    /\ UNCHANGED <<listVars, screen>>

OnStopped ==
    /\ Receive("STOPPED")
    /\ KeepsPlayer
    /\ m_RequestOnPlayOrStop' = "NOTHING"
    /\ OldPlayState' = "other"
    /\ UNCHANGED <<listVars, screen>>

(* MID_DECODE_STREAM_OPEN_ERROR: whatever plays by now is stopped.         *)
OnOpenError ==
    /\ Receive("OPEN_ERROR")
    /\ StopThen("return")
    /\ UNCHANGED <<listVars, screen, handlerVars>>

PlayModes == {"NORMAL", "SINGLE", "REPEAT", "GLOBAL_NEXT"}

Following(mode, x) ==
    CASE mode = "NORMAL" -> NextElement(lists, x, 1)
      [] mode = "GLOBAL_NEXT" -> NextGlobalElement(lists, x)
      [] OTHER -> x

(* Mutant: the track is started before the cursor moves.                   *)
EOSHandlerAgain(mode) ==
    /\ Receive("EOS")
    /\ IF mode = "SINGLE" THEN KeepsPlayer /\ UNCHANGED playing
       ELSE /\ playing' = Following(mode, playing)
            /\ Return(PlaySetStream(Player, playing))
    /\ UNCHANGED <<lists, side, selection, screen, handlerVars>>

(* EOSHandler goes by the play mode, not by the play state.                *)
EOSHandler(mode) ==
    /\ Receive("EOS")
    /\ IF mode = "SINGLE" THEN KeepsPlayer /\ UNCHANGED playing
       ELSE /\ playing' = Following(mode, playing)
            /\ Return(PlaySetStream(
                   [Player EXCEPT !.slipped = @ \/ playing' # playing], playing'))
    /\ UNCHANGED <<lists, side, selection, screen, handlerVars>>

-----------------------------------------------------------------------------
(* Stop returns: MID_SOUND_STOPPED is sent, and the handler goes on.       *)
Answered(after) ==
    /\ Alive
    /\ main = after
    /\ okBlocker > 0
    /\ okBlocker' = okBlocker - 1
    /\ main' = "receive"
    /\ events' = Append(Outdated(events), Event("STOPPED"))
    /\ UNCHANGED <<playerVars, dec, target, bDecoderCreated, heard, opened>>

StopKeyReturns ==
    /\ Answered("stopKey")
    /\ m_RequestOnPlayOrStop' = "STOP_REQUEST"
    /\ UNCHANGED <<listVars, screen, OldPlayState>>

(* After the Stop nothing is left to do that matters here.                 *)
StopReturns ==
    /\ Answered("return") \/ Answered("suspend")
    /\ UNCHANGED <<listVars, screen, handlerVars>>

(* LoadLists: Clear, load, and the side of the containers.                 *)
RefreshReturns ==
    /\ Answered("refresh")
    /\ lists' \in Library
    /\ side' = "containers"
    /\ selection' = SelectionOf(lists')
    /\ playing' = Unset
    /\ UNCHANGED <<screen, handlerVars>>

HandlerStep ==
    \/ Cancel \/ EnterContainer \/ StopKey
    \/ \E n \in {1, 10} : MoveForward(n) \/ MoveBack(n)
    \/ NothingToPlay \/ PlayStopped \/ PlayPaused \/ PlayOther \/ PauseSame
    \/ PlayNotOpen
    \/ RemoteForward \/ RemoteBack \/ RemotePlay
    \/ ChangeScreen \/ OtherOption
    \/ RefreshPlaylists
    \/ \E titled \in BOOLEAN : OnDecoding(titled)
    \/ OnStopped \/ OnOpenError \/ \E mode \in PlayModes : EOSHandler(mode)
    \/ TakeScreenshot \/ OnPowerEventResumeComplete
    \/ StopKeyReturns \/ StopReturns \/ RefreshReturns

-----------------------------------------------------------------------------
(* The decode thread, ThDecode, as far as the main thread can tell.        *)
DecGo(from, to) == Alive /\ dec = from /\ dec' = to

Take(command) ==
    /\ Alive
    /\ dec = "receive"
    /\ commands # <<>>
    /\ Head(commands) = command

KeepsMain ==
    UNCHANGED <<listVars, screen, handlerVars, m_CurrentState, uri, m_Type,
                slipped, resume, main>>

Report(id) == events' = Append(events, Event(id))

(* With its decoder goes the decoder's reader, which closes the stream.    *)
DeleteDecoder ==
    /\ heard' = "none"
    /\ opened' = (opened /\ heard = "none")

(* MID_DECODER_START up to the Open, which begins with a close.            *)
Start ==
    /\ Take("START")
    /\ commands' = Tail(commands)
    /\ dec' = "opening"
    /\ target' = uri
    /\ opened' = FALSE
    /\ heard' = IF bDecoderCreated THEN "none" ELSE heard
    /\ UNCHANGED <<okBlocker, bDecoderCreated, events>>
    /\ KeepsMain

(* Open succeeds for a stream that a decoder is there for.                 *)
CreateDecoder ==
    /\ DecGo("opening", "sendDecode")
    /\ opened' = TRUE
    /\ heard' = target
    /\ target' = "none"
    /\ bDecoderCreated' = TRUE
    /\ UNCHANGED <<okBlocker, commands, events>>
    /\ KeepsMain

OpenFails ==
    /\ DecGo("opening", "receive")
    /\ Report("OPEN_ERROR")
    /\ target' = "none"
    /\ UNCHANGED <<okBlocker, commands, bDecoderCreated, heard, opened>>
    /\ KeepsMain

(* AAC is refused with an error; what is not recognised, without a word.   *)
OpenedInVain(known) ==
    /\ DecGo("opening", "receive")
    /\ opened' = TRUE
    /\ bDecoderCreated' = FALSE
    /\ IF known THEN Report("OPEN_ERROR") ELSE UNCHANGED events
    /\ target' = "none"
    /\ UNCHANGED <<okBlocker, commands, heard>>
    /\ KeepsMain

(* Mutant: Send does not take the lock.                                    *)
LockIsAny == main # "wild"

(* "We send an event to ourselves": the lock of the queue is needed, which *)
(* Stop holds while it waits.                                              *)
LockIsFree == main = "receive"

SendToSelf(from, command) ==
    /\ DecGo(from, "receive")
    /\ LockIsFree
    /\ commands' = Append(commands, command)
    /\ UNCHANGED <<okBlocker, bDecoderCreated, heard, opened, events, target>>
    /\ KeepsMain

SendDecode == SendToSelf("sendDecode", "DECODE")
SendStart  == SendToSelf("sendStart", "START")

(* MID_DECODER_DECODE.                                                     *)
BeginDecoding ==
    /\ Take("DECODE") /\ bDecoderCreated
    /\ commands' = Tail(commands)
    /\ Report("DECODING")
    /\ dec' = "decoding"
    /\ UNCHANGED <<okBlocker, bDecoderCreated, heard, opened, target>>
    /\ KeepsMain

(* Mutant: DECODE without a decoder does nothing.                          *)
NoRetry ==
    /\ Take("DECODE") /\ ~bDecoderCreated
    /\ commands' = Tail(commands)
    /\ opened' = FALSE
    /\ dec' = "receive"
    /\ UNCHANGED <<okBlocker, bDecoderCreated, heard, events, target>>
    /\ KeepsMain

RetryStart ==
    /\ Take("DECODE") /\ ~bDecoderCreated
    /\ commands' = Tail(commands)
    /\ opened' = FALSE
    /\ dec' = "sendStart"
    /\ UNCHANGED <<okBlocker, bDecoderCreated, heard, events, target>>
    /\ KeepsMain

(* The loop is left when there is a command; else Decode is called, through*)
(* a pointer that may be NULL.                                             *)
LeaveLoop ==
    /\ commands # <<>>
    /\ DecGo("decoding", "receive")
    /\ UNCHANGED <<commands, okBlocker, bDecoderCreated, heard, opened, events, target>>
    /\ KeepsMain

DecodeNothing ==
    /\ commands = <<>> /\ heard = "none"
    /\ DecGo("decoding", "crashed")
    /\ UNCHANGED <<commands, okBlocker, bDecoderCreated, heard, opened, events, target>>
    /\ KeepsMain

EndOfStream ==
    /\ commands = <<>> /\ heard # "none"
    /\ DecGo("decoding", "receive")
    /\ DeleteDecoder
    /\ bDecoderCreated' = FALSE
    /\ Report("EOS")
    /\ UNCHANGED <<commands, okBlocker, target>>
    /\ KeepsMain

(* A connection that gives no more closes the stream under the decoder.    *)
ConnectionEnds ==
    /\ Alive
    /\ dec = "decoding" /\ heard # "none" /\ m_Type = "url" /\ opened
    /\ opened' = FALSE
    /\ UNCHANGED <<commands, okBlocker, dec, bDecoderCreated, heard, events, target>>
    /\ KeepsMain

PauseDecoder ==
    /\ Take("PAUSE")
    /\ commands' = Tail(commands)
    /\ UNCHANGED <<okBlocker, dec, bDecoderCreated, heard, opened, events, target>>
    /\ KeepsMain

(* MID_DECODER_SEEK, which goes by the flag.                               *)
SeekDecoder ==
    /\ Take("SEEK")
    /\ commands' = Tail(commands)
    /\ dec' = IF bDecoderCreated /\ heard = "none" THEN "crashed" ELSE "receive"
    /\ UNCHANGED <<okBlocker, bDecoderCreated, heard, opened, events, target>>
    /\ KeepsMain

(* Mutant: the answer, and decoding goes on.                               *)
StopLater ==
    /\ Take("STOP")
    /\ commands' = Tail(commands)
    /\ okBlocker' = 1
    /\ dec' = IF heard = "none" THEN "receive" ELSE "decoding"
    /\ UNCHANGED <<bDecoderCreated, heard, opened, events, target>>
    /\ KeepsMain

(* bDecoderCreated stays.                                                  *)
StopDecoder ==
    /\ Take("STOP")
    /\ commands' = Tail(commands)
    /\ IF bDecoderCreated THEN DeleteDecoder ELSE UNCHANGED <<heard, opened>>
    /\ okBlocker' = 1
    /\ UNCHANGED <<dec, bDecoderCreated, events, target>>
    /\ KeepsMain

Opened ==
    CreateDecoder \/ OpenFails \/ \E known \in BOOLEAN : OpenedInVain(known)

DecodeStep ==
    \/ Start \/ SendDecode \/ SendStart \/ BeginDecoding \/ RetryStart
    \/ LeaveLoop \/ DecodeNothing \/ SeekDecoder \/ PauseDecoder \/ StopDecoder

-----------------------------------------------------------------------------
Next ==
    \/ Press
    \/ Suspend \/ ResumeComplete
    \/ HandlerStep
    \/ DecodeStep \/ Opened
    \/ EndOfStream \/ ConnectionEnds

Spec == Init /\ [][Next]_vars

(* The main thread handles what is queued, the decode thread what it is    *)
(* sent, and an Open comes to an end.  A user need not press a key, the    *)
(* console need not be suspended, and a stream need not end.               *)
Fairness ==
    /\ WF_vars(HandlerStep)
    /\ WF_vars(DecodeStep \/ Opened)

FairSpec == Spec /\ Fairness

-----------------------------------------------------------------------------
Nothing == {"none"}

(* Where the main thread is during a Stop.                                 *)
Stopping == {"stopKey", "return", "refresh", "suspend"}

(* Every variable keeps its type, and the cursors stay within the lists.   *)
TypeOK ==
    /\ lists \in Library
    /\ side \in {"containers", "elements"}
    /\ selection \in Indexers(lists)
    /\ playing \in Indexers(lists)
    /\ screen \in {"playlist", "options"}
    /\ m_RequestOnPlayOrStop \in {"NOTHING", "STOP_REQUEST"}
    /\ OldPlayState \in {"PAUSE", "other"}
    /\ m_CurrentState \in {"PLAY", "PAUSE", "STOP"}
    /\ uri \in Tracks \cup Nothing
    /\ m_Type \in {"file", "url"}
    /\ commands \in Seq({"START", "DECODE", "SEEK", "PAUSE", "STOP"})
    /\ events \in Seq([id : {"key", "RESUMED"} \cup Reports, stale : BOOLEAN])
    /\ main \in {"receive", "wild"} \cup Stopping
    /\ resume \in {"no", "play", "pause"}
    /\ okBlocker \in 0..1
    /\ dec \in {"receive", "opening", "sendDecode", "sendStart", "decoding", "crashed"}
    /\ target \in Tracks \cup Nothing
    /\ bDecoderCreated \in BOOLEAN
    /\ heard \in Tracks \cup Nothing
    /\ opened \in BOOLEAN
    /\ slipped \in BOOLEAN

(* The keys follow no cursor that leads nowhere: on the side of the        *)
(* elements there is a list, and a cursor into a list that has elements is *)
(* at one of them, however often the lists were loaded anew.               *)
CursorsHold ==
    /\ side = "elements" => selection.list # 0
    /\ \A x \in {selection, playing} :
           HasElements(lists, x) => AtElement(lists, x)
    /\ selection.list = 0 => lists = <<>>

(* Nothing is under way between the threads.                               *)
Settled == main = "receive" /\ events = <<>> /\ commands = <<>>

(* When all is handled and a track plays, it is the one the URI names, and *)
(* the one the playing cursor is at, unless the end of a stream that had   *)
(* been paused meanwhile has moved the cursor, or a resume played what it  *)
(* had left.                                                               *)
HeardIsShown ==
    Settled /\ m_CurrentState = "PLAY" /\ dec = "decoding" /\ ~slipped =>
        /\ heard = uri
        /\ AtElement(lists, playing)
        /\ heard = Element(lists, playing)

(* A player that is stopped, with no Stop in progress, has no decoder and  *)
(* nothing on its way that could make one.                                 *)
StoppedIsSilent ==
    main = "receive" /\ m_CurrentState = "STOP" =>
        heard = "none" /\ dec = "receive" /\ commands = <<>>

(* As long as no list is empty no cursor is followed into nowhere, but for *)
(* one that was unset when the lists were loaded anew, by a report on what *)
(* played before or on what a resume went on to play.                      *)
CursorsLeadSomewhere ==
    [][main' = "wild" /\ lists # <<>> /\ (\A i \in DOMAIN lists : lists[i] # <<>>) =>
           (Head(events).stale \/ slipped) /\ playing.list = 0]_vars

(* What is asked of the decode thread is done in the end: it decodes, or   *)
(* the stream is given up with an error, unless the stream is opened and   *)
(* not recognised, of which nobody is told.  Otherwise only Stop changes   *)
(* the matter, or a pause.                                                 *)
Asked ==
    m_CurrentState = "PLAY" /\ \E i \in DOMAIN commands : commands[i] \in {"START", "DECODE"}

NotRecognised == dec = "receive" /\ opened /\ heard = "none"

PlayIsAnswered ==
    Asked ~> \/ dec = "decoding"
             \/ NotRecognised
             \/ m_CurrentState # "PLAY"
             \/ ~Alive

-----------------------------------------------------------------------------
(* PlayControl implements SoundObject: where main is in a Stop, its thread *)
(* or that of the power callback has the lock of the queue.                *)
IsAsked == \E i \in 1..Len(commands) : commands[i] \in {"START", "DECODE"}
IsWorking == dec \in {"opening", "sendDecode", "sendStart", "decoding"}
StoppedBy == CASE main = "suspend" -> "power"
               [] main \in Stopping \ {"suspend"} -> "main"
               [] OTHER -> "free"
IsAnswered == okBlocker > 0

Object == INSTANCE SoundObject
    WITH Callers <- {"main", "power"}, Nobody <- "free",
         asked <- IsAsked, working <- IsWorking, stopping <- StoppedBy,
         answered <- IsAnswered

(* Whichever handler stops, and whatever has been reported meanwhile, Stop *)
(* is final and nothing works that was not asked for.                      *)
ImplementsObject == Object!Spec

=============================================================================
