------------------------------ MODULE PSPSound ------------------------------
(***************************************************************************)
(* CPSPSound (SharedLib/PSPApp/PSPSound.cpp) with the stream it plays      *)
(* (PSPStream.cpp): Play, Pause, Stop and Seek are called by the main      *)
(* thread, Stop also by the thread of the power callback; the decode       *)
(* thread handles what they send, opens and closes the stream and owns the *)
(* decoder.                                                                *)
(*                                                                         *)
(* The queue between them is the one of EventQ as it is meant to work: an  *)
(* event is there once and in order.  Its lock stays: SendAndWaitForOK     *)
(* holds it while it waits.                                                *)
(***************************************************************************)
EXTENDS Naturals, Sequences

CONSTANTS
    Types,      \* what the user plays: a subset of {"file", "url"}
    Contents,   \* what a stream may turn out to be, out of AllContents
    MaxCalls    \* bound: calls of the clients

Main == "main"
Power == "power"
Decode == "decode"
Clients == {Main, Power}

(* "audio": MPEG, OGG or no content type; "other": AAC or not recognised;  *)
(* "playlist": its first entry is played in its stead.                     *)
AllContents == {"audio", "other", "playlist"}

ASSUME PSPSoundAssumption ==
    /\ Types \subseteq {"file", "url"}
    /\ Contents \subseteq AllContents
    /\ MaxCalls \in Nat

VARIABLES
    m_CurrentState,  \* "PLAY", "PAUSE" or "STOP"
    todo,            \* what each client still has to do in its present call
    queue,           \* m_EventToDecTh
    lock,            \* holder of the queue's lock across steps, or "free"
    okBlocker,       \* the queue's m_RcvOKBlocker
    decPc,           \* the decode thread
    Decoder,         \* "live" or "NULL"
    bDecoderCreated,
    m_Type,          \* the stream: type of the URI set last
    m_State,         \* "CLOSED" or "OPEN"
    content,         \* content type in the stream's metadata
    m_pfd,           \* a file is open
    m_fdSocket,      \* a socket is open
    opening,         \* the type Open has switched on
    resume,          \* m_PowerEventData: "no", "play" or "pause"
    calls            \* number of calls begun

streamVars  == <<m_Type, m_State, content, m_pfd, m_fdSocket, opening>>
decoderVars == <<Decoder, bDecoderCreated>>
queueVars   == <<queue, lock, okBlocker>>
clientVars  == <<todo, resume, calls>>
vars == <<m_CurrentState, clientVars, queueVars, decPc, decoderVars, streamVars>>

Events == {"START", "DECODE", "SEEK", "PAUSE", "STOP"}

Init ==
    /\ m_CurrentState = "STOP"
    /\ todo = [c \in Clients |-> <<>>]
    /\ queue = <<>>
    /\ lock = "free"
    /\ okBlocker = 0
    /\ decPc = "receive"
    /\ Decoder = "NULL"
    /\ bDecoderCreated = FALSE
    /\ m_Type = "none"
    /\ m_State = "CLOSED"
    /\ content = "audio"
    /\ m_pfd = FALSE
    /\ m_fdSocket = FALSE
    /\ opening = "none"
    /\ resume = "no"
    /\ calls = 0

-----------------------------------------------------------------------------
(* The calls.  Each is a sequence of what it does to the shared state, one *)
(* action for each: [do |-> ..., arg |-> ...].                             *)

SetURI(t)   == [do |-> "seturi", arg |-> t]
SetState(s) == [do |-> "state",  arg |-> s]
Send(e)     == [do |-> "send",   arg |-> e]
SendAndWaitForOK(e) == [do |-> "sendwait", arg |-> e]
WaitOK      == [do |-> "wait",   arg |-> "STOP"]
Play        == [do |-> "play",   arg |-> "PLAY"]
Recheck     == [do |-> "recheck", arg |-> "PAUSE"]

(* Mutant: Stop changes the state when it has its answer.                  *)
StopLater == <<SendAndWaitForOK("STOP"), SetState("STOP")>>

Pause == <<SetState("PAUSE"), Send("PAUSE")>>
Stop  == <<SetState("STOP"), SendAndWaitForOK("STOP")>>
Seek  == <<Send("SEEK")>>

Call(c, ops) ==
    /\ todo[c] = <<>>
    /\ calls < MaxCalls
    /\ calls' = calls + 1
    /\ todo' = [todo EXCEPT ![c] = ops]

Rest == UNCHANGED <<m_CurrentState, queueVars, decPc, decoderVars, streamVars>>

(* PlayListScreen::PlaySetStream: when playing or stopped, a new URI.      *)
PlaySetStream(t) ==
    /\ Call(Main, IF m_CurrentState = "PAUSE" THEN <<Play>> ELSE <<SetURI(t), Play>>)
    /\ UNCHANGED resume
    /\ Rest

(* The pause key pauses what plays.                                        *)
CallPause ==
    /\ m_CurrentState = "PLAY"
    /\ Call(Main, Pause)
    /\ UNCHANGED resume
    /\ Rest

(* The stop key, MID_DECODE_STREAM_OPEN_ERROR, the screenshot keys and the *)
(* options screen.                                                         *)
CallStop ==
    /\ Call(Main, Stop)
    /\ UNCHANGED resume
    /\ Rest

(* OnPowerEvent, suspending: stop what plays; then the same for a pause.   *)
Suspend ==
    /\ Call(Power, IF m_CurrentState = "PLAY" THEN Stop \o <<Recheck>> ELSE <<Recheck>>)
    /\ resume' = IF m_CurrentState = "PLAY" /\ resume = "no" THEN "play" ELSE resume
    /\ Rest

(* OnPowerEventResumeComplete, by an event to the main thread.             *)
Resume ==
    /\ resume # "no"
    /\ todo[Power] = <<>>
    /\ Call(Main, <<Play>> \o (IF m_Type = "file" THEN Seek ELSE <<>>)
                           \o (IF resume = "pause" THEN Pause ELSE <<>>))
    /\ resume' = "no"
    /\ Rest

-----------------------------------------------------------------------------
(* The steps of a call.                                                    *)

Next1(c, what) == todo[c] # <<>> /\ Head(todo[c]).do = what
Arg(c) == Head(todo[c]).arg
Done(c) == todo' = [todo EXCEPT ![c] = Tail(@)]
Instead(c, ops) == todo' = [todo EXCEPT ![c] = ops \o Tail(@)]

(* SetURI clears the metadata, the content type with it.                   *)
DoSetURI(c) ==
    /\ Next1(c, "seturi")
    /\ m_Type' = Arg(c)
    /\ content' = "audio"
    /\ Done(c)
    /\ UNCHANGED <<m_CurrentState, resume, calls, queueVars, decPc, decoderVars,
                   m_State, m_pfd, m_fdSocket, opening>>

(* Play's switch on the state; what it sends and sets follows.             *)
DoPlay(c) ==
    /\ Next1(c, "play")
    /\ Instead(c, <<Send(IF m_CurrentState = "PAUSE" THEN "DECODE" ELSE "START"),
                    SetState("PLAY")>>)
    /\ UNCHANGED <<m_CurrentState, resume, calls, queueVars, decPc, decoderVars,
                   streamVars>>

DoSetState(c) ==
    /\ Next1(c, "state")
    /\ m_CurrentState' = Arg(c)
    /\ Done(c)
    /\ UNCHANGED <<resume, calls, queueVars, decPc, decoderVars, streamVars>>

(* Mutant: Send does not take the lock.                                    *)
DoSendUnlocked(c) ==
    /\ Next1(c, "send")
    /\ queue' = Append(queue, Arg(c))
    /\ Done(c)
    /\ UNCHANGED <<m_CurrentState, resume, calls, lock, okBlocker, decPc, decoderVars,
                   streamVars>>

DoSend(c) ==
    /\ Next1(c, "send")
    /\ lock = "free"
    /\ queue' = Append(queue, Arg(c))
    /\ Done(c)
    /\ UNCHANGED <<m_CurrentState, resume, calls, lock, okBlocker, decPc, decoderVars,
                   streamVars>>

DoSendAndWait(c) ==
    /\ Next1(c, "sendwait")
    /\ lock = "free"
    /\ lock' = c
    /\ queue' = Append(queue, Arg(c))
    /\ Instead(c, <<WaitOK>>)
    /\ UNCHANGED <<m_CurrentState, resume, calls, okBlocker, decPc, decoderVars,
                   streamVars>>

DoWaitOK(c) ==
    /\ Next1(c, "wait")
    /\ okBlocker > 0
    /\ okBlocker' = okBlocker - 1
    /\ lock' = "free"
    /\ Done(c)
    /\ UNCHANGED <<m_CurrentState, resume, calls, queue, decPc, decoderVars, streamVars>>

DoRecheck(c) ==
    /\ Next1(c, "recheck")
    /\ IF m_CurrentState = "PAUSE"
       THEN Instead(c, Stop) /\ resume' = "pause"
       ELSE Done(c) /\ UNCHANGED resume
    /\ UNCHANGED <<m_CurrentState, calls, queueVars, decPc, decoderVars, streamVars>>

ClientStep(c) ==
    \/ DoSetURI(c) \/ DoPlay(c) \/ DoSetState(c) \/ DoSend(c)
    \/ DoSendAndWait(c) \/ DoWaitOK(c) \/ DoRecheck(c)

-----------------------------------------------------------------------------
(* CPSPStream, as the decode thread uses it.                               *)

(* Close looks at the type of the URI set last, not at what is open.       *)
CloseStream ==
    /\ m_pfd' = (m_pfd /\ ~(m_State = "OPEN" /\ m_Type = "file"))
    /\ m_fdSocket' = (m_fdSocket /\ ~(m_State = "OPEN" /\ m_Type = "url"))
    /\ m_State' = "CLOSED"

KeepStream == UNCHANGED <<m_State, m_pfd, m_fdSocket>>

(* The decoder's reader closes the stream when it is deleted.              *)
DeleteDecoder ==
    /\ Decoder' = "NULL"
    /\ IF Decoder = "live" THEN CloseStream ELSE KeepStream

-----------------------------------------------------------------------------
(* ThDecode.                                                               *)

DecGo(from, to) == decPc = from /\ decPc' = to

Receive ==
    /\ queue # <<>>
    /\ DecGo("receive", Head(queue))
    /\ queue' = Tail(queue)
    /\ UNCHANGED <<m_CurrentState, clientVars, lock, okBlocker, decoderVars, streamVars>>

(* MID_DECODER_START: the old decoder goes first; bDecoderCreated stays.   *)
Start ==
    /\ DecGo("START", "open")
    /\ IF bDecoderCreated
       THEN DeleteDecoder /\ UNCHANGED bDecoderCreated
       ELSE KeepStream /\ UNCHANGED decoderVars
    /\ UNCHANGED <<m_CurrentState, clientVars, queueVars, m_Type, content, opening>>

(* Open: what is open is closed, then the switch on the type.              *)
OpenBegin ==
    /\ DecGo("open", "opening")
    /\ opening' = m_Type
    /\ content' = "audio"
    /\ IF m_State = "OPEN" THEN CloseStream ELSE KeepStream
    /\ UNCHANGED <<m_CurrentState, clientVars, queueVars, decoderVars, m_Type>>

(* http_open or fopen returns, the response of the server has named the    *)
(* content.  A descriptor variable is overwritten whatever it held; only   *)
(* http_open's failure sets m_State.                                       *)
OpenEnd(ok, c) ==
    /\ DecGo("opening", "opened")
    /\ opening = "none" => ~ok
    /\ opening # "url" => c = "audio"
    /\ m_pfd' = IF opening = "file" THEN ok ELSE m_pfd
    /\ m_fdSocket' = IF opening = "url" THEN ok ELSE m_fdSocket
    /\ m_State' = IF ok THEN "OPEN" ELSE IF opening = "url" THEN "CLOSED" ELSE m_State
    /\ content' = IF ok THEN c ELSE content
    /\ UNCHANGED <<m_CurrentState, clientVars, queueVars, decoderVars, m_Type, opening>>

(* The rest of the handler, by the content type.  Not open: MAIN is told   *)
(* of the error and nothing else changes.                                  *)
NotOpened ==
    /\ DecGo("opened", "receive")
    /\ m_State = "CLOSED"
    /\ UNCHANGED <<m_CurrentState, clientVars, queueVars, decoderVars, streamVars>>

CreateDecoder ==
    /\ DecGo("opened", "senddecode")
    /\ m_State = "OPEN" /\ content = "audio"
    /\ Decoder' = "live"
    /\ bDecoderCreated' = TRUE
    /\ UNCHANGED <<m_CurrentState, clientVars, queueVars, streamVars>>

NotSupported ==
    /\ DecGo("opened", "receive")
    /\ m_State = "OPEN" /\ content = "other"
    /\ bDecoderCreated' = FALSE
    /\ UNCHANGED <<m_CurrentState, clientVars, queueVars, Decoder, streamVars>>

(* A playlist is read; its first entry, if it has one, becomes the URI.    *)
(* A server that sends less than was asked for makes Read close the stream.*)
ReadPlaylist(t, short) ==
    /\ DecGo("opened", "sendplaylist")
    /\ m_State = "OPEN" /\ content = "playlist"
    /\ bDecoderCreated' = FALSE
    /\ IF short /\ m_Type = "url" THEN CloseStream ELSE KeepStream
    /\ m_Type' = t
    /\ content' = "audio"
    /\ UNCHANGED <<m_CurrentState, clientVars, queueVars, Decoder, opening>>

EmptyPlaylist ==
    /\ DecGo("opened", "receive")
    /\ m_State = "OPEN" /\ content = "playlist"
    /\ bDecoderCreated' = FALSE
    /\ CloseStream
    /\ UNCHANGED <<m_CurrentState, clientVars, queueVars, Decoder, m_Type, content,
                   opening>>

(* "We send an event to ourselves": the queue's lock is needed.            *)
SendToSelf(from, e) ==
    /\ DecGo(from, "receive")
    /\ lock = "free"
    /\ queue' = Append(queue, e)
    /\ UNCHANGED <<m_CurrentState, clientVars, lock, okBlocker, decoderVars, m_Type,
                   content, opening>>

SendDecode == SendToSelf("senddecode", "DECODE") /\ KeepStream
SendRetry  == SendToSelf("sendretry", "START") /\ KeepStream

(* The playlist's reader is deleted after the event is sent.               *)
SendPlaylistStart == SendToSelf("sendplaylist", "START") /\ CloseStream

(* MID_DECODER_DECODE.                                                     *)
BeginDecoding ==
    /\ bDecoderCreated
    /\ DecGo("DECODE", "decoding")
    /\ UNCHANGED <<m_CurrentState, clientVars, queueVars, decoderVars, streamVars>>

RetryStart ==
    /\ ~bDecoderCreated
    /\ DecGo("DECODE", "sendretry")
    /\ CloseStream
    /\ UNCHANGED <<m_CurrentState, clientVars, queueVars, decoderVars, m_Type, content,
                   opening>>

(* The loop goes on while the queue is empty; Decode is called through the *)
(* pointer, whatever it holds.                                             *)
LoopAgain ==
    /\ queue = <<>>
    /\ DecGo("decoding", IF Decoder = "live" THEN "indecode" ELSE "crashed")
    /\ UNCHANGED <<m_CurrentState, clientVars, queueVars, decoderVars, streamVars>>

DecodeReturns ==
    /\ DecGo("indecode", "decoding")
    /\ UNCHANGED <<m_CurrentState, clientVars, queueVars, decoderVars, streamVars>>

(* Read closes the stream when the connection gives less than asked for.   *)
ConnectionEnds ==
    /\ decPc = "indecode"
    /\ m_Type = "url" /\ m_State = "OPEN"
    /\ CloseStream
    /\ UNCHANGED <<m_CurrentState, clientVars, queueVars, decPc, decoderVars, m_Type,
                   content, opening>>

EndOfStream ==
    /\ DecGo("indecode", "receive")
    /\ DeleteDecoder
    /\ bDecoderCreated' = FALSE
    /\ UNCHANGED <<m_CurrentState, clientVars, queueVars, m_Type, content, opening>>

LeaveLoop ==
    /\ queue # <<>>
    /\ DecGo("decoding", "receive")
    /\ UNCHANGED <<m_CurrentState, clientVars, queueVars, decoderVars, streamVars>>

(* MID_DECODER_SEEK, too, goes by the flag.                                *)
SeekDecoder ==
    /\ DecGo("SEEK", IF bDecoderCreated /\ Decoder = "NULL" THEN "crashed" ELSE "receive")
    /\ UNCHANGED <<m_CurrentState, clientVars, queueVars, decoderVars, streamVars>>

PauseDecoder ==
    /\ DecGo("PAUSE", "receive")
    /\ UNCHANGED <<m_CurrentState, clientVars, queueVars, decoderVars, streamVars>>

(* Mutant: the answer without the deletion.                                *)
StopAndKeep ==
    /\ DecGo("STOP", "receive")
    /\ okBlocker' = 1
    /\ UNCHANGED <<m_CurrentState, clientVars, queue, lock, decoderVars, streamVars>>

(* Mutant: an answer only when there was something to stop.                *)
StopDecoderOnly ==
    /\ DecGo("STOP", "receive")
    /\ IF bDecoderCreated THEN DeleteDecoder ELSE KeepStream /\ UNCHANGED Decoder
    /\ okBlocker' = IF bDecoderCreated THEN 1 ELSE 0
    /\ UNCHANGED <<m_CurrentState, clientVars, queue, lock, bDecoderCreated, m_Type,
                   content, opening>>

(* MID_DECODER_STOP_NEEDOK: again bDecoderCreated stays.                   *)
StopDecoder ==
    /\ DecGo("STOP", "receive")
    /\ IF bDecoderCreated THEN DeleteDecoder ELSE KeepStream /\ UNCHANGED Decoder
    /\ okBlocker' = 1
    /\ UNCHANGED <<m_CurrentState, clientVars, queue, lock, bDecoderCreated, m_Type,
                   content, opening>>

DecodeStep ==
    \/ Receive \/ Start \/ OpenBegin
    \/ \E ok \in BOOLEAN, c \in Contents : OpenEnd(ok, c)
    \/ NotOpened \/ CreateDecoder \/ NotSupported
    \/ \E t \in Types, short \in BOOLEAN : ReadPlaylist(t, short)
    \/ EmptyPlaylist \/ SendPlaylistStart \/ SendDecode
    \/ BeginDecoding \/ RetryStart \/ SendRetry
    \/ LoopAgain \/ DecodeReturns \/ LeaveLoop
    \/ SeekDecoder \/ PauseDecoder \/ StopDecoder

StreamEnds == ConnectionEnds \/ EndOfStream

-----------------------------------------------------------------------------
Next ==
    \/ \E t \in Types : PlaySetStream(t)
    \/ CallPause \/ CallStop \/ Suspend \/ Resume
    \/ \E c \in Clients : ClientStep(c)
    \/ DecodeStep
    \/ StreamEnds

Spec == Init /\ [][Next]_vars

(* Where the decode thread waits for a server, for ever if need be: in     *)
(* readstring, which tries again after each timeout, and in SocketRead,    *)
(* which gives up only when the state is STOP, even on a descriptor that   *)
(* is closed.  Read goes by the type of the URI set last.                  *)
AwaitsServer ==
    \/ decPc = "opening" /\ opening = "url"
    \/ /\ m_CurrentState # "STOP"
       /\ "url" \in {opening, m_Type}
       /\ decPc = "indecode" \/ (decPc = "opened" /\ content = "playlist")

(* A call that is begun is gone on with, and the decode thread handles     *)
(* what it is sent, unless it waits for a server.  Nobody has to call, and *)
(* a stream need not end.                                                  *)
Fairness ==
    /\ \A c \in Clients :
           WF_vars(ClientStep(c)) /\ SF_vars(DoSendAndWait(c)) /\ SF_vars(DoSend(c))
    /\ WF_vars(~AwaitsServer /\ DecodeStep)

FairSpec == Spec /\ Fairness

-----------------------------------------------------------------------------
DecLabels == Events \cup
    {"receive", "open", "opening", "opened", "senddecode", "sendplaylist",
     "sendretry", "decoding", "indecode", "crashed"}

Op == [do : {"seturi", "state", "send", "sendwait", "wait", "play", "recheck"},
       arg : Events \cup {"PLAY", "file", "url"}]

(* Every variable keeps its type.                                          *)
TypeOK ==
    /\ m_CurrentState \in {"PLAY", "PAUSE", "STOP"}
    /\ todo \in [Clients -> Seq(Op)]
    /\ queue \in Seq(Events)
    /\ lock \in Clients \cup {"free"}
    /\ okBlocker \in 0..1
    /\ decPc \in DecLabels
    /\ Decoder \in {"live", "NULL"}
    /\ bDecoderCreated \in BOOLEAN
    /\ m_Type \in {"none", "file", "url"}
    /\ m_State \in {"CLOSED", "OPEN"}
    /\ content \in AllContents
    /\ m_pfd \in BOOLEAN
    /\ m_fdSocket \in BOOLEAN
    /\ opening \in {"none", "file", "url"}
    /\ resume \in {"no", "play", "pause"}
    /\ calls \in 0..MaxCalls

(* When Stop gets its answer the decoder is gone, nothing is queued that   *)
(* would bring one back, and the decode thread waits for an event: no      *)
(* answer is ever taken for that to another Stop.                          *)
Waiting(c) == Next1(c, "wait")

StopLeavesQuiet ==
    okBlocker > 0 =>
        /\ \E c \in Clients : Waiting(c)
        /\ queue = <<>>
        /\ decPc = "receive"
        /\ Decoder = "NULL"

(* A decoder is never lost: while there is one the flag says so, so that   *)
(* the next START or STOP deletes it.                                      *)
DecoderIsKept == Decoder = "live" => bDecoderCreated

(* Once no call is in progress and no event is queued, what the state says *)
(* stopped neither decodes nor opens a stream that it would decode,        *)
(* whichever thread's Stop or Play was last.                               *)
Settled == (\A c \in Clients : todo[c] = <<>>) /\ queue = <<>>

AtWork ==
    decPc \in {"START", "open", "opening", "opened", "senddecode", "sendplaylist",
               "DECODE", "sendretry", "decoding", "indecode"}

StoppedIsQuiet == Settled /\ m_CurrentState = "STOP" => ~AtWork

(* Stop waits for ever for one of three reasons only: the decode thread    *)
(* has to send to its own queue, whose lock Stop holds; it waits for a     *)
(* silent server; or it has called through a decoder that START or STOP    *)
(* deleted without clearing its flag.  Nothing else, such as the other     *)
(* thread's Stop, does more than delay it.                                 *)
SendingToSelf == decPc \in {"senddecode", "sendplaylist", "sendretry"}

StopReturnsUnlessStuck ==
    \A c \in Clients :
        Waiting(c) ~> \/ ~Waiting(c)
                      \/ SendingToSelf
                      \/ AwaitsServer
                      \/ decPc = "crashed"

-----------------------------------------------------------------------------
(* PSPSound implements SoundObject.  Stop is called when it takes the lock *)
(* of the queue, and returns when it gives it back.                        *)
IsAsked == \E i \in 1..Len(queue) : queue[i] \in {"START", "DECODE"}
IsAnswered == okBlocker > 0

Object == INSTANCE SoundObject
    WITH Callers <- Clients, Nobody <- "free",
         asked <- IsAsked, working <- AtWork, stopping <- lock, answered <- IsAnswered

(* Whatever the two threads call and wherever the decode thread is, Stop   *)
(* is final and nothing works that was not asked for.                      *)
ImplementsObject == Object!Spec

-----------------------------------------------------------------------------
(* What the code says of itself and does not keep.                         *)

(* Stop waits and then has its "OK received", at least where nothing but   *)
(* files is played.                                                        *)
StopReturns == \A c \in Clients : Waiting(c) ~> ~Waiting(c)

=============================================================================
