# PSPRadio: specification and proofs

PSPRadio is an Internet radio and music player for the Sony PSP. It is a C++
program of a few threads that talk through event queues, share some state
without locks, and talk to servers that may answer late, in pieces or not at
all. This directory holds TLA+ modules of its core, TLC configurations that
check them on small instances, and proofs of the properties that matter most
for every value of the constants.

Paths below are relative to `src/`; `PSPApp/` stands for `SharedLib/PSPApp/`.

## 1. The system

### Threads

| thread | code | does |
|---|---|---|
| main | `PSPRadio/PSPRadio.cpp` `ProcessEvents` | receives keys, end of stream, errors and power events; calls the screens, which call `CPSPSound` |
| decode | `PSPApp/PSPSound.cpp` `ThDecode` | opens and reads the stream, decodes, pushes PCM frames |
| play | `PSPApp/PSPSound.cpp` `ThPlayAudio` | pops device buffers and hands them to the hardware |
| power callback | `PSPRadio/PSPRadio.cpp` `OnPowerEvent` | stops the player before the machine suspends; what the player and the network did, main takes up again after it |
| Run | `PSPApp/PSPApp.cpp` `Run` | reads keys, remote, clock and battery once a frame and sends them to main |
| render, HSM | `Plugins/UI_Text3D/` | the one sends an event per picture, the other handles it and what main sends, and draws |
| plugins | `Plugins/` | servers and applications with threads of their own, which call `PSPRadio/PSPRadio_Exports.cpp` |

The priorities are configurable. `PSPRadio/PSPRadio.cfg` ships main 35, decode
40, play 32 (a smaller number runs first).

### Components

**Event queue** (`PSPApp/PSPEventQ.*`, `PSPSema.h`).
State: a `std::list` of events, a lock, a semaphore on which the receiver
sleeps, one on which a sender waits for an answer. Operations: `Send`,
`SendAndWaitForOK`, `Receive`, `SendReceiveOK`, `Size`, `Clear`. Senders hold
the lock; the receiver takes none, tests the size, pops, and wakes itself when
more is waiting. Hard: pushes and pops of one list overlap; wake-ups can be
lost or doubled; a sender sleeps with the lock held; one semaphore carries the
answers to all senders. Correct when: one sender at a time, no wake-up lost,
events in order, none lost, and an answer belongs to the event it answers.

**Sound buffer** (`PSPApp/PSPSoundBuffer.*`).
State: a list of device buffers, a counter of them, its maximum, the static
buffer being filled, whether the player is buffering. Operations:
`PushPCMFrame` (decode thread), `PopDeviceBuffer` (play thread),
`ChangeBufferSize`, `SampleRateChange`, `Empty`. Hard: counter and list are
updated by both threads without a lock and drift apart; waiting is polling; a
pending event breaks the decoder's wait. Correct when: the counter is at least
the list's length, the list is bounded, the counter does not wrap, and neither
thread polls for ever.

**Sound control** (`PSPApp/PSPSound.*`, `PSPSoundDecoder.*`).
State: PLAY, PAUSE or STOP; the decoder and a flag that it was created; the
decode thread's queue. Operations: `Play`, `Pause`, `Stop`, `Seek`, and the
events START, DECODE, SEEK, PAUSE and STOP of the decode thread. Hard: main and
power thread call at once; the decode thread sends to itself; the state is
written by the callers and read in the decode loop; opening a stream takes as
long as the server likes. Correct when: an answered `Stop` leaves nothing that
could decode, what is stopped or paused is silent, no decoder leaks or is used
after deletion, and `Stop` returns.

**Stream** (`PSPApp/PSPStream.*`, `httpget.cpp`, `bstdfile.cpp`,
`ID3Parser.cpp`). State: URI and its type, OPEN or CLOSED, file and socket
descriptors, content type, metadata interval; in the reader the running count
between metadata blocks. Operations: `SetURI`, `Open`, `Close`, `http_open`
with redirections and a proxy, `Read`, `SocketRead`, `Seek`. Hard: `recv` gives
pieces, nothing, or a time-out; `SetURI` runs on the main thread while the
decode thread opens, reads or closes; `Close` goes by the type set last.
Correct when: metadata is taken out of the audio and nothing else is, what was
opened is closed, and every wait on a server ends when the user stops.

**Codecs** (`PSPSoundDecoder_MAD.cpp`, `_OGG.cpp`). Loops around libmad and
Tremor. To the rest they are: `Decode` returns after pushing some frames, or
reports the end.

**Main event loop and power** (`PSPRadio/PSPRadio.cpp`, `PSPApp/PSPApp.cpp`).
State: the queue of the program, the pointer to the UI, whether Run polls and
whether it passes keys on. Operations: one handler per event; `OnPowerEvent` and
its completion. Hard: reports of the decode thread that were queued before the
user chose something else, and are not told apart by stream; `Stop` waits within
a handler while more reports queue up behind it; a back-log of more than 100
events ends the program; power events come on a thread of their own, and a resume
plays on whatever the user has done since. Correct
when: what is heard is what is shown, what is stopped is silent, and no old
report acts on a new stream.

**Screens** (`PSPRadio/ScreenHandler/`). State: the current screen, a request
that outlives its handler, the play mode, the play state seen last, the UI
that is loaded. Operations: the keys, by screen; the remote's keys; the answers
to a stream that starts, stops, fails or ends; `StartUI`. Hard: six ways to
start a track, each of which moves the playing cursor, the URI or both; events
for one kind of screen delivered to another; a UI replaced while keys for the
old one are queued. Correct when: the cursors lead to tracks, an old pointer is
not used, and the polling that a switch stops starts again.

**Playlists** (`PSPRadio/MetaDataContainer.*`). State: containers of elements,
with a selection and a playing cursor. Operations: moves around the containers,
around one list and over all of them; loading and clearing. Hard: any list may
be empty; cursors outlive the list they point into. Correct when: a cursor into
a list that has elements is at one of them.

**Keys** (`PSPApp/PSPKeyHandler.*`, `Run` in `PSPApp.cpp`). State: IDLE or
PRESSED, the buttons stored, when to repeat, how often that was done; a flag
that keys are withheld and the combination that ends this. Operations: a pass of
`Run`, which reads what the firmware has latched since the last, or looks for
the combination; `StopKeyLatch` and `StartKeyLatch` on other threads. Hard:
buttons come and go between passes; press and release can be in one reading; two
stores of a call that a pass may fall between, and which may fall between the
steps of a pass. Correct when: a release names what was pressed, and the keys
return only when the combination was pressed.

**Network** (`PSPApp/PSPApp_Network.cpp`). State: enabled or not, profile,
resolver. Operations: enable, disable, `ConnectWithTimeout`. Hard: time-outs
against late answers, teardown by the power thread under an open socket.

**Plugins** (`PSPApp/PRXLoader.*`, `PSPRadio/PSPRadio_Exports.cpp`). State: per
type the module loaded; which type had exclusive access last. Operations: load,
start, stop, unload; request and give up exclusive access; exit. Hard: the
plugin's own thread reads and changes the host's state; what it sends names a
type; partial failure of load and start. Correct when: the keys come back.

**FTP server** (`Plugins/FSServer_FTPD/`). State: the listening socket, a
session with its connection, its data and passive socket, the passive port,
user and directory. Operations: listen and accept; one handler per command;
data connections that the client or the server opens. Hard: one thread does it
all, in calls that block; descriptors are kept after they are closed, and closed
again when the network stack may have given them to something else; any step of
a transfer may fail after the reply before it was sent. Correct when: the session
keeps its sockets and loses none, replies match commands, the port promised is
the one listened at, and a session whose client has left ends.

**User interfaces** (`Plugins/UI_Text3D/`; `UI_Text`, `UI_Graphics` are others).
State: of the 3D text interface a message box, a hierarchical state machine with
the texts and the places of its panels, two boxes that fade in and out, the
threads. Operations: the calls of main, each of which sends events; a picture;
initialisation, also for another skin; destruction. Hard: events are handled
later than they are sent, by a thread of their own; a change of skin starts
another one; the destructor has to get that thread out of its wait. Correct
when: the window shows in the end what was asked for last, one thread is at
work at a time, and the destructor ends.

**Others**: USB storage, visualizer, logging, configuration, on-screen keyboard, vendored applications.
`PROJECT.json` lists each with its status and the reason.

## 2. Modules

| module | models | state and actions in the code |
|---|---|---|
| `EventChannel` | what the users of `CPSPEventQ` count on: a first-in first-out channel, which may lose events once it is `broken` | `Send`, `Deliver`, and the two ways to lose |
| `EventQ` | `CPSPEventQ` at the grain of list links and semaphores; implements `EventChannel` | `m_EventList`, `m_lock`, `m_RcvBlocker`, `m_RcvOKBlocker` are the members; `pc` is each thread's place in `Send`, `SendAndWaitForOK` or `Receive`; `PushBegin`/`PushEnd` and `PopBegin`/`PopEnd` are the load and the stores of `push_back` and `pop_front` |
| `SoundBuffer` | `CPSPSoundBuffer` between decode and play thread | the list as its length, the counter with the registers of its `++` and `--`; `WaitForRoom`, `Emit`, `Hook`, `LoadCount`, `StoreCount` are `PushPCMFrame`, `Enter` to `PlayStore` `PopDeviceBuffer` |
| `SoundObject` | what the callers of `CPSPSound` count on: only what was asked for is worked on, and `Stop` is final | `Ask` is `Play`, `Begin` the receipt of a START or DECODE, `AskItself` what `ThDecode` sends to itself, `Answer` its `SendReceiveOK`; `Stop` and `Return` are the two ends of the wait in `Stop` |
| `PSPSound` | `CPSPSound`, `ThDecode`, `CPSPStream`'s type, state and descriptors, and the callers in `PSPRadio.cpp` and `PlayListScreen.cpp`; implements `SoundObject` | `todo` is what a caller has still to do in its present call, one step for each access to shared state; `decPc` is the event or the place in `ThDecode` |
| `StreamReader` | `CPSPStreamReader::Read` and `SocketRead`, with the server of an ICY stream | `run` is `m_iRunningCountModMetadataInterval`, `size` what `SocketRead` has counted, `pos` the server's place in its frame of audio and metadata; one action for each `recv` and for each stretch of `Read` between two of its `SocketRead`s |
| `HttpOpen` | `http_open`, `readstring` and `ConnectWithTimeout`, with `Open` and `Close` around them | `phase` is the place in `http_open`; `sock`, `relocate`, `purl`, `numrelocs` are its variables; `open` are the descriptors of the network stack, `rest` what the server's side of the connection still gives |
| `Playlists` | `CMetaDataContainer` and its indexers, as operators | a cursor is a record of the three iterators; 0 stands for NULL and for an iterator that leads nowhere |
| `PlayControl` | `ProcessEvents`, `PlayListScreen`, the play options, the screenshot's stop, the power callback's, and `ThDecode` as main sees it; uses `Playlists`, implements `SoundObject` | `events` and `commands` are the two queues; one action for each handler and each branch of it, `Answered` where `Stop` returns in the middle of one; `Suspend` and `resume` are `OnPowerEvent` and what it leaves for `OnPowerEventResumeComplete`; `dec` is the place in `ThDecode` |
| `PluginHost` | `StartUI`, `LoadPlugin`, `UnloadPlugin`, `PSPRadio_Exports.cpp`, `Run` and the events that concern them | `m_UI` is the pointer, `live` the object that exists; `main` is the place in `StartUI`, `thread` that of each plugin's thread |
| `FtpServer` | `ftpdLoop`, `mftpClientHandler`, `mftpDispatch` and the data connections, with a client and a network stack | `use` and `listens` are the stack's descriptors; `comSocket`, `dataSocket`, `pasvSocket`, `usePASV`, `pasvPort` are the session's; `pc` is the call the thread is in; one action for each command, or for commands whose replies alone differ |
| `FtpPaths` | `mftpCommandCWD`'s walk along a path, as operators, with what a path means beside it | a directory or path is the sequence of what stands between its slashes |
| `Keys` | `CPSPKeyHandler` and `Run`, under buttons, a clock and calls of `StopKeyLatch` and `StartKeyLatch` | `uiMake` and `uiBreak` are the firmware's latch; one action for each outcome of a pass that reads the latch, and four for one that looks for the combination: reading flag and buttons, comparing, resetting the flag, sending; one for each of the two stores of a call |
| `WindowHandler` | `CTextUI3D` and `WindowHandlerHSM` (`UI_Text3D`), with their two kinds of threads and the calls of main | `todo` are the events main has yet to dispatch in its call; `mbx` are the message boxes made so far; `hsm` is the place of each thread that `Initialize` has started; a state is its path from `top`, and `Trans` applies the exits and entries along the two paths to `panels` |
| `EventQProofs`, `SoundBufferProofs`, `PSPSoundProofs`, `StreamReaderProofs`, `PlayControlProofs`, `PluginHostProofs` | theorems of the module named | |
| `NetworkProofs` | theorems of `FtpServer`, `FtpPaths` and `HttpOpen`, the users of the network's descriptors | |
| `InterfaceProofs` | theorems of `Keys` and `WindowHandler`, what the user presses and sees | |
| `MCEventQ`, `MCSoundBuffer`, `MCPSPSound`, `MCStreamReader`, `MCHttpOpen`, `MCPlayControl`, `MCPluginHost`, `MCFtpServer`, `MCKeys`, `MCWindowHandler` | sets for TLC; `MCFtpServer` puts `FtpServer` and `FtpPaths` together | |

`PSPSound` uses the queue as `EventQ` shows it to be when no push meets the pop
of a single node: in order and nothing lost. It keeps the queue's lock, since
`SendAndWaitForOK` sleeps with it. In `SoundBuffer` and `StreamReader` the rest
of the program is reduced to what reaches them: pending events, the play state,
the URI.

`PlayControl` and `PSPSound` are two views of the same sound object. `PSPSound`
has two callers, the main and the power thread, interleaved at every access to
shared state, and takes the main thread's calls as they come. `PlayControl` has
one of them in the player at a time: main, whose handlers are then atomic but
for the wait in `Stop`, or the power callback, while it waits in its `Stop`,
during which main is taken to handle nothing. It asks why they make those calls:
it adds the reports that come back, the cursors and the screens. It keeps the
lock that makes `Stop` and the decode thread wait on each other, and so has that
deadlock too. What the two have in common is `SoundObject`, which both
implement. In `PSPSound` a caller is in `Stop` while it holds the lock of the
queue; in `PlayControl` main is where it waits within a handler, and the power
callback where it waits. That `Stop` returns is no part of `SoundObject`, since
it need not.

`PluginHost` stops and starts the key latch in one step and asks who has the
keys; `Keys` has the two stores of each call and asks what a pass of `Run`
between them does.

`PluginHost` has the user interface as an object that exists or not; whether it
does and shows what it is told, and can be deleted, is `WindowHandler`'s matter,
which takes main's calls as they come.

Definitions marked *Mutant* are bugs that could have been made in the
definition that follows them; each property of a passing run is violated with
one of them put in.

### What is abstracted

* A received event that is handled twice by a receiver woken for nothing stays
  in `EventQ`; `PSPSound` does not have it.
* Overlapping `push_back` and `pop_front` are a load and the stores; that the
  memory of a popped node may already be something else is the variable
  `severed`: nothing more comes out of the list.
* Buffers and PCM frames are counted, not filled. `m_mult` and `m_div` are the
  number of frames one push may add.
* A server's stream is a place in a periodic frame. The wrap of a `size_t` that
  counts 2^32 failed `recv`s is left out.
* The text of metadata, ID3 tags, the event of new metadata, and, outside of
  `HttpOpen`, that the program is exiting are left out.
* A line of the HTTP dialogue is its meaning. Whether a proxy is used changes
  the text of the request and the memory that is freed, neither of which is
  modelled, and nothing else. The content type and the interval that a header
  brings are `PSPSound`'s and `StreamReader`'s. That nothing but this thread
  sets the `errno` of `ConnectWithTimeout` is assumed.
* A track is what its URI names; titles and lengths are left out, but that a
  stream may bring a title of its own, which decides whether main copies the
  metadata of the list. The play mode is any at each end of a stream, as the
  user may change it at any time. A URI that names a playlist is in `PSPSound`. In
  `PlayControl` an event is marked `stale` when what it reports on has been
  stopped or replaced: a history variable, which no action reads.
* Of a key in `PluginHost` only what its handler does with the UI and with
  plugins is kept; every event that `Run` sends is taken to use the UI. A pass
  of `Run` tests `m_Polling` and then `m_StopKeyLatch`, and sends up to four
  events: a key or the combination, the time, the battery, a key of the remote. A plugin whose start
  fails is one that is stopped at once. A module that is stopped takes its
  thread with it, which is the firmware's doing; the second that `Unload` sleeps
  is taken to be enough for a thread that is about to exit to send what it has
  to send, and the 50 ms of `StopPolling` to be longer than a pass of Run.
* In `FtpServer` replies are preliminary or final, files and directories are
  left out, and a transfer is one step that ends. A client that has left sends
  no more commands; data connections it has begun remain. The network stack
  gives any free descriptor, or none. The directory is not part of its state:
  `CWD` alone changes it and no socket depends on it.
* `Keys` leaves out the remote control, the clock and the battery, which `Run`
  also reads, and time passes only where the handler looks at it. Of the
  firmware it assumes that the latch's `uiPress`, which the code takes for the
  buttons that are down (`PSPKeyHandler.cpp:43`), is what is held when the latch
  is read. A pass that has not found the flag set is one step, as it does not
  look again at what the calls of the latch assign.
* `WindowHandler` tells texts apart by the call they came with, and has one kind
  of playlist screen, since the three have the same states. Icons, title, play
  time, progress bar and what is drawn are left out; the fullscreen visualizer,
  which also draws the boxes, is a picture like others. The box's counts of
  pictures are constants (`Fade`, `Hold`). Where a panel is on the screen is left
  out. Of the calls that make `m_state` ACTIVE only the change of skin is there:
  `OnScreenshot`, `RequestExclusiveAccess` and `PrepareShutdown` keep the render
  thread from sending for a while, which it may put off in any case. The firmware hands an event to a
  thread that waits, or keeps it; that main waits after Activate is a delay.
* Once main or a plugin's thread has followed a pointer or an iterator that
  leads nowhere, or the decode thread a null decoder, `PlayControl` and
  `PluginHost` stop: nothing is claimed of what comes then.

## 3. Runs

| run | checks | shows |
|---|---|---|
| `eventq` | `NoLostWakeup`, `Received`, `OKReturns`, `ImplementsChannel` | two senders, one of which waits for answers, and a handler that sends to its own queue: no wake-up is lost in spite of the unlocked `Receive`, the queue is a channel that breaks only where a push meets the pop of the only node; until then events are received and answers come, unless a handler sends while a sender waits |
| `buffer` | `CountCovers`, `EventReceived`, `PlayerProgress` | with the play thread first the counter never falls behind the list; under any priorities a pending event is received and the player goes on |
| `sound` | `StopLeavesQuiet`, `StoppedIsQuiet`, `ImplementsObject`, `StopReturnsUnlessStuck` | all orders of four calls of two callers: when `Stop` returns nothing is decoded, or opened to be decoded, and while the program shows STOP it stays so, unless something more is due; every step of the two callers and the decode thread is one of `SoundObject` or none; `Stop` returns unless the two threads wait on each other or a null decoder was called |
| `sound_stop` | `StopReturns` (violated) | with files only: `Stop` and the decode thread wait on each other |
| `reader` | `Undamaged`, `StopEndsRead`, `EndEndsRead` | reads cut up at will, with time-outs, hang-ups, stops, new URIs and readers of a file that have a connection left over: audio and metadata are told apart but for four causes that are named |
| `open` | `ReturnedIsAnswered`, `LossesAreNamed`, `HangupEndsOpen` | servers that refuse, redirect, hang up anywhere or say nothing: what is returned is the socket of the server that took the request; sockets are lost in three ways and no other; a call ends, except in a header that is cut short |
| `radio` | `HeardIsShown`, `StoppedIsSilent`, `CursorsLeadSomewhere`, `ImplementsObject`, `PlayIsAnswered` | keys, remote, options, suspensions and reports of any age in any order: what is heard is what is shown but for two exceptions that are named, a late end of stream in a pause and a resume; a stopped player is silent; cursors lead to tracks unless they were unset by a load; whichever handler plays or stops does no more than `SoundObject` allows; and what the decode thread is asked for is done, given up or, for an unknown kind of stream, dropped |
| `ui` | `PointerSettles`, `KeysMeetAUI`, `PollingResumes`, `KeysComeBack` | UIs switched with keys and pointers queued, plugins started, stopped, killed and exiting: the pointer comes right, no key finds no UI but those that `Run` sends between the null pointer and the end of the wait in `StopPolling`, polling and keys come back |
| `ftp` | `LifeLines`, `InStep`, `PromiseKept`, `NoneLost`, `CwdLeadsWhereItSays`, `SessionEnds` | a client that sends any commands, makes its data connections or not, and leaves: descriptors closed twice never hit the session's own, replies are in step with commands, the promised port is listened at, no socket is lost with a client that uses what it asks for, `CWD` leads where its path says, and the session ends but for one wait |
| `ftp_exit` | `ExitIsNotified` (violated) | the end of a session deletes the server's thread before it has told PSPRadio |
| `keys` | `ReleaseNamesTheKeys`, `StuckOnlyAfterTap`, `ComboWasPressed` | buttons that move at will between passes: what a release names was pressed, only a tap leaves the handler in PRESSED, and a plugin loses the keys to a combination that the pass has seen down, but for a pass that a step of `StopKeyLatch` or `StartKeyLatch` has met |
| `window` | `ShowsWhatIsAsked`, `OneAtWork`, `DestructorEnds` | calls of main, pictures and events in any order, with a change of skin and an unload: when all is handled the window shows the screen, side and texts asked for last and no other panel, one thread at a time is at work unless the skin was changed while one was, and the destructor ends unless it cancels a wait that has not begun |

The type invariants of all state machines, and `OneSender`,
`Bounded`, `NoUnderflow`, `SilenceOnlyAfterRace`, `DecoderIsKept` and
`CursorsHold`, are proved for all values of the
constants (section 4) and take no run.

`CHECK_DEADLOCK FALSE` stands where the bounded supply of sends or calls runs
out, and in `PSPSound`, `PlayControl`, `PluginHost`, `FtpServer` and
`WindowHandler` also because the code really can stop for good (the FTP server's
thread is deleted, the interface is unloaded or its destructor waits for ever),
or because nothing is said after a wild pointer. The
sound buffer and `http_open` have no such end, and their runs check for
deadlock.

### Bounds

* `EventQ`: two senders, two sends each (`MaxSends`), five of the handlers
  (`MaxResends`). Two senders give every order of two threads at the lock;
  two sends of one thread give an event behind one that is being popped, and an
  answer left over for the next send. Five resends are more than the sends and
  their repetitions call for, so no run ends by that bound.
* `SoundBuffer`: three buffers of two frames, two to be awaited, one pending
  event (`MaxEvents`), at most five counted (`MaxCount`). The list is empty, has
  one node, more, and is full; pushes of no, one and two frames leave the static
  buffer empty, half full and full. Whether the play thread comes first is
  chosen in `Init`.
* `PSPSound`: four calls (`MaxCalls`) of two callers. Play, Play of something
  else, Pause, Stop in any order, with another call of the power thread in
  between. The counterexamples need two to four. Every kind of stream occurs.
* `StreamReader`: icy-metaint 2 or 4, none, or a left-over value of 0, 2 or 9;
  blocks empty or of two bytes; reads of one or three bytes, so that a read ends
  before, on and behind the metadata; one time-out per connection
  (`MaxFailures`), any number of connections.
* `HttpOpen`: two relocations and two tries of a connection (the code has five
  of each), any number of calls. Four descriptors: three connections are the
  most a call may make, so that a fourth is told from running out; later calls
  run out of them.
* `PlayControl`: a file and a URL: no list, two lists of which the second is
  empty, or one list. A key or the end of a suspension comes when both queues
  are empty (`MaxEvents` and `MaxCommands` are 1), which does not bound their
  number. Reports still queue up behind a key or a resume, and behind the event
  of a handler that waits in `Stop`; commands queue up behind a slow open; the
  power callback stops the player with anything queued. Two tracks tell the old
  from the new, and moves over all lists meet the empty one. A key behind a
  report, and a list on either side of an empty one, are outside of these bounds
  and left to the proofs, which have none.
* `PluginHost`: three UIs (`MaxUI`), so two switches, the second of which can
  fall before the pointers of the first are handled; two other plugins
  (`MaxPlugins`), one behind the other or side by side; three of both together
  (`MaxLoads`): two switches, one and a plugin, or two plugins. `Run` finds
  something while fewer than two events are queued (`MaxEvents`), which does not
  bound what the other threads send: a key before or behind the null pointer, or
  two of one pass.
* `FtpServer`: four descriptors beside stdin (`MaxFd`): listening, connection,
  passive and data socket, so that the stack also runs out; four ports
  (`PortSpan`) instead of 65536, listening at 1 and passive from 2 on, so that
  the number runs over, to 0 and to the port in use, after two and three
  passive connections. There is one session, as its end is the server's.
* `FtpPaths`: two names, paths of up to three parts (`MaxPath`) from any
  directory up to three deep (`MaxDepth`): a path can go up past the root and
  down again.
* `Keys`: three buttons, of which two are the combination and one does not
  repeat; an interval of two ticks (`Interval`) and two repeats to a long press
  (`LongPress`), watched for the four ticks (`MaxTime`) that a long press takes.
* `WindowHandler`: one playlist screen and the options, which are different
  depths of the hierarchy; two threads (`MaxThreads`), so one change of skin;
  two calls of main besides the activations that these bring (`MaxCalls`), of
  which the second can overtake the handling of the first; a box that takes one
  picture to appear and one to go (`Fade`, `Hold`). Pictures are not bounded.

### Fairness

* `EventQ`: every thread that is ready runs in the end, and the lock is granted
  (`SF`) as the kernel's semaphores wake their waiters in order. All threads
  wait on a semaphore or sleep again and again, so that a lower priority is a
  delay. Nobody has to send.
* `SoundBuffer`: `WF` of the player. The decode thread runs only while the play
  thread sleeps when that one comes first, hence `SF`. A call of `Decode`
  returns, and every few frames of input give one of output.
* `PSPSound`: a call goes on once begun; the decode thread handles its events,
  except while it waits for a server (`AwaitsServer`), which nothing bounds.
  Nobody has to call and no stream has to end.
* `StreamReader`: a `recv` returns, since `http_open` sets `SO_RCVTIMEO` to
  three seconds; the decode thread runs. No data has to come: when the failures
  are used up in state PLAY the model lets data arrive, and both liveness
  properties are about a stopped stream or an ended connection, where that plays
  no part.
* `HttpOpen`: the decode thread runs, a `recv` returns, and the resolver, which
  is given two seconds and three tries, does so too. Nothing is assumed of
  servers: neither that they answer nor that they hang up.
* `PlayControl`: the main thread handles what is queued, the decode thread what
  it is sent, and an open ends, with or without success (which `PSPSound` and
  `HttpOpen` have exceptions to). No key need be pressed, no stream need end and
  the console need not be suspended.
* `PluginHost`: the main thread handles what is queued and loading ends; Run
  ends a pass it has begun; a thread that has said that it exits does so. No key
  need be pressed and no plugin need end.
* `FtpServer`: the thread runs when it is not in a call that waits, and a
  transfer ends. Nothing is assumed of the client: it need not send, connect or
  leave. `FtpPaths` has no steps, and `Keys` states no liveness.
* `WindowHandler`: main goes on with a call, the render thread and the threads
  of the state machine run and end their handling of an event. Each sleeps once
  a picture or waits for an event. Nobody has to call, and the interface need
  not be unloaded.

## 4. Proofs

All are for any constants that meet the modules' named assumptions.

| module | theorem | property | argument |
|---|---|---|---|
| `EventQProofs` | `TypeCorrect`, `MutualExclusion`, `NoWakeupIsLost`, `QueueImplementsChannel`, `OrderIsKept`, `LossNeedsARace` | `TypeOK`, `OneSender`, `NoLostWakeup`, `ImplementsChannel`, `InOrder`, `NothingLost` | whoever sends has an event, the receiver alone shortens the list, so it is not empty between test and pop; what push and pop have loaded is true of the list as long as nothing has raced. The refinement has one lemma for each action: a step of the channel or a stutter. Order and completeness follow from the numbers that a sender's events have in and behind the list |
| `SoundBufferProofs` | `TypeCorrect`, `CounterCoversList`, `BufferIsBounded`, `CounterDoesNotWrap`, `SilenceNeedsARace` | `TypeOK`, `CountCovers`, `Bounded`, `NoUnderflow`, `SilenceOnlyAfterRace` | what the registers of `++` and `--` may hold: with the play thread first the decoder's is out of date upwards only, the player's never |
| `PSPSoundProofs` | `TypeCorrect`, `NoDecoderIsLost`, `StopIsFinal`, `StoppedBecomesQuiet`, `SoundImplementsObject` | `TypeOK`, `DecoderIsKept`, `StopLeavesQuiet`, `StoppedIsQuiet`, `ImplementsObject` | a STOP is last in the queue, or being handled with nothing behind it, or answered; one of them at a time, while its sender holds the lock. When the state says STOP and a start is queued or something is at work, some caller has yet to send a STOP, to wait for its answer or to set another state (`Owes`), since each step of a call that brings this about is followed by one of those. For the refinement the first invariant says that nothing is asked for when a STOP is answered, and that what is sent for an answer is a STOP |
| `StreamReaderProofs` | `TypeCorrect`, `MetadataIsTakenOut` | `TypeOK`, `Undamaged` | in each of the four `SocketRead`s the running count and the server's place are a fixed distance apart, as long as more can arrive; a connection that outlives its reader is still that of the server whose interval the stream has |
| `PlayControlProofs` | `TypeCorrect`, `CursorsAreHeld`, `SilenceAfterStop`, `ShownIsHeard`, `NowhereIsStale`, `PlayerImplementsObject` | `TypeOK`, `CursorsHold`, `StoppedIsSilent`, `HeardIsShown`, `CursorsLeadSomewhere`, `ImplementsObject` | lemmas on the moves of a cursor (each is in the list it says, at an element if there is one), then one invariant: which commands and places of the decode thread belong to which state, which of the last START, the target and the decoder carries the URI, and which reports are stale. The refinement goes by the eight effects that a handler or the power callback may have on the player (`PlayerEffect`) and by what a step of the decode thread does to the commands |
| `PluginHostProofs` | `TypeCorrect`, `PointerComesRight`, `OnlyGapKeysMeetNone` | `TypeOK`, `PointerSettles`, `KeysMeetAUI` | while nothing is being switched the program polls and the last pointer in the queue is the right one; so a switch announces itself behind all older pointers, or finds none in the queue. From the end of the wait in `StopPolling` to the event with the new pointer no pass of `Run` is under way, so that a key that comes behind a null pointer in the queue, or while it is current, was sent before that (`GapInv`) |
| `NetworkProofs` | `TypeCorrect`, `LifeLinesStay`, `RepliesInStep`, `PromiseIsKept`, `NoSocketIsLost` | `TypeOK`, `LifeLines`, `InStep`, `PromiseKept`, `NoneLost` | of the FTP server: descriptors that were closed can be given again within a session to its own data and passive sockets only, so closing them once more hits no other; the passive port does not move between its 227 and the listening; a transfer from the listening socket was begun by a connection to it |
| | `AnyPathLeads`, `CwdStaysADirectory`, `CwdAlwaysLeads` | `LeadsWhereItSays`, `CwdLeadsWhereItSays` | of `CWD`, for paths and directories of any length: by the least prefix of the path for which it fails. After each component the directory is the stack of the steps that stay (`Stack`), and the step at place k has one net step down for each place from k on; so a ".." takes back the last one and no other, and an empty stack has as many steps up as down |
| | `OpenTypeCorrect`, `OpenedIsAnswered`, `ConnectionsAreBounded`, `LossesAreKnown` | `OpenTypeOK`, `ReturnedIsAnswered`, `BoundedConnections`, `LossesAreNamed` | of `http_open`: what each phase of the call says of the descriptor in hand, of the status read and of the number of connections |
| `InterfaceProofs` | `KeysTypeCorrect`, `ReleasesAreNamed`, `OnlyTapsStick`, `KeysComeByCombo` | `KeysTypeOK`, `ReleaseNamesTheKeys`, `StuckOnlyAfterTap`, `ComboWasPressed` | of the key handler: what PRESSED has stored is what is down or was let go since the latch was read, but for newer presses in the latch; the combination is in place while the flag is set and no call is half done, and a pass that no call has met compares with it |
| | `WindowTypeCorrect`, `OneThreadAtWork`, `WindowShowsWhatIsAsked` | `TypeOK`, `OneAtWork`, `ShowsWhatIsAsked` | of the text interface: events sit in the newest box or in the hand of its one thread, or a thread waits there and the box is empty (`WInv`). The window, led through the event in hand and those that are queued, one view after the other, comes to what main has asked for (`Follows`): an event that main sends adds a view at the end, one that is handled takes the first away, and nothing else changes a view |

None of the properties but the types is inductive by itself: each speaks of the
moment when things have gone wrong, and the invariant of what holds before. TLC
checks the properties on the bounds above; the invariants that are said here to
carry `StoppedIsQuiet` and `KeysMeetAUI` were run through it too before they
were proved.

Where `CWD` leads is a statement about every path, so by induction, and the
library's induction theorems take an operator as a parameter. `NetworkProofs`
goes by a set instead: the prefixes for which the statement fails would have a
least element (`Least`, from the well-foundedness of the natural numbers), which
is not the empty one and whose predecessor meets the statement. That the
function `Walk` exists is shown in the same way. The text of a path, and the
`MAX_PATH_LENGTH` it has to fit in, are not in the model, so neither are they in
the theorem.

The assumptions: senders are not the receiver (`EventQAssumption`); maxima and
lengths are positive, and a buffer is awaited before the maximum
(`SoundBufferAssumption`); the kinds of streams are those of the code
(`PSPSoundAssumption`); the intervals and sizes are positive and a block's
length byte is below 128, as `Read` keeps it in a signed `char`
(`StreamReaderAssumption`); -1 is no descriptor (`HttpOpenAssumption`); files are
tracks and a library is made of lists of them (`PlayControlAssumption`); the
bounds are natural numbers (`PluginHostAssumption`); the server's port and the
first passive one are port numbers, the former not 0 (`FtpServerAssumption`);
no directory is called by the empty string or by dots (`FtpPathsAssumption`);
combination and unrepeated buttons are buttons, intervals natural numbers
(`KeysAssumption`); the options are no list, a box's times are natural numbers
and there is a thread (`WindowAssumption`).
TLC evaluates them in every run.

Every invariant and every action property that a run checks is proved. Only
model-checked are the liveness properties (`Received`, `OKReturns`,
`EventReceived`, `PlayerProgress`, `StopReturnsUnlessStuck`, `StopEndsRead`,
`EndEndsRead`, `HangupEndsOpen`, `PlayIsAnswered`, `PollingResumes`,
`KeysComeBack`, `SessionEnds`, `DestructorEnds`): liveness and `ENABLED`
are out of reach of the provers used. `InOrder`, `NothingLost` and
`BoundedConnections` are proved and have no run of their own: the first two are
what `ImplementsChannel` says in other words. No module declares a `RECURSIVE`
operator.

## 5. Findings

1. `Stop` can wait for ever (`sound_stop`). `SendAndWaitForOK` keeps the queue's
   lock; a decode thread in the middle of START has to send DECODE to itself and
   needs that lock. Main and decode thread are then stuck.
2. The FTP server ends with its first session (`ftp_exit`): the client's handler,
   which once had a thread of its own, ends with `sceKernelExitDeleteThread`
   (`ftp.cpp:1025`), and that thread is now the server's. The notice at
   `ftp_main.cpp:119` is never sent and the listening socket stays open.

Met while modelling, and kept in the models without a run of their own:

* A null decoder is called: START and STOP set `Decoder` to NULL and leave
  `bDecoderCreated` set (`PSPSound.cpp:346`, `:488`). When `Open` then fails, a
  DECODE or SEEK left in the queue goes through it. `StopReturnsUnlessStuck`
  makes an exception (`crashed`).
* The destructor of the text interface cancels the `Receive` of its thread
  (`TextUI3D_WindowManager_HSM.cpp:194`). If that has tested `m_HSMActive` and
  does not wait yet, the two wait on each other for ever; `DestructorEnds` makes
  an exception (`missed`).
* A change of skin initialises the same object again (`:263` of that file): a
  second message box, what is in the first is lost, and a second thread, the
  first of which waits at the old box for ever, or is at work in the same state
  machine. `OneAtWork` and `ShowsWhatIsAsked` make an exception (`overlap`).
* An error that vanishes puts the panel of the message away (`:1034`), and a
  message that is dispatched behind another before that is handled replaces its
  text. `ClearList` reads an item after it has freed it (`:914`); lists sent
  while the options are shown are freed by nobody.
* A stream plays on in state PAUSE when the PAUSE came during opening: the decode
  thread's own DECODE is queued behind it (`PSPSound.cpp:419`).
* A `Read` that ends just where metadata begins returns the block as audio
  (`PSPStream.cpp:396`); `Undamaged` makes an exception (`edge`).
* An end of stream that was queued before the user's Stop starts the next track
  after it (`PlayListScreen.cpp:521`): `EOSHandler` does not look at the play
  state or at the request. No property forbids it; `HeardIsShown` says that what
  is started so is shown.
* A resume plays the URI that was left (`PSPRadio.cpp:711`, `:719`), whatever the
  state, the playing cursor and the lists are by then. A key or an end of stream
  handled before it may have started another track or set the cursor elsewhere;
  and when the playlists were loaded anew in between, the report of what then
  plays follows a cursor that is unset. No screen is told of the resume.
  `HeardIsShown` and `CursorsLeadSomewhere` make an exception of a resume whose
  track the cursor is not at (`slipped`).
* `Run` tests the flag (`PSPApp.cpp:188`), compares with the combination (`:195`)
  and resets the flag (`:197`) without a lock, and sends an event for which the
  plugin that has the keys is killed. It finds an empty combination pressed,
  with no button down, in three ways: in a pass between the two stores of
  `StopKeyLatch` (`:153`); in a pass that has found the flag set when the main
  thread, which goes before it, runs all of `StartKeyLatch` before the compare;
  and after the two calls have crossed, which leaves the flag set with no
  combination. `ComboWasPressed` makes an exception of these (`met`) and shows
  that there is no other.
* A press and release between two passes leave the key handler in PRESSED until
  the next button (`PSPKeyHandler.cpp:47`); `StuckOnlyAfterTap` says that
  nothing else does.
* The FTP server accepts a data connection in a call without a time limit
  (`ftp.cpp:121`): a client that does not make it stops the server.
* A second PASV loses the socket of the first, and a data connection that is
  refused loses its own (`ftp.cpp:86`); `NoneLost` makes an exception of both.
* HELP and SITE HELP end with two final replies and an empty line has none
  (`ftp.cpp:653`, `:907`); 226 is sent whether or not the transfer went well
  (`ftp.cpp:415`).
* `CWD` ignores what follows a step above the root, and `pasvPort` stays on a
  port that is in use (`ftp.cpp:231`, `:97`).
* A push that meets the pop of the only node is lost or severs the list
  (`PSPEventQ.cpp:135`); the same in the sound buffer (`PSPSoundBuffer.cpp:200`).
* `Receive` can be woken with nothing there and returns the previous event. One
  that waits for an answer is then answered twice, and the second answer lets a
  later `SendAndWaitForOK` return before its event is received.
* A pending event lets a push through at the buffer's maximum
  (`PSPSoundBuffer.cpp:144`); the test for equality stops no later one until the
  list has drained to the maximum.
* `ChangeBufferSize` ignores its argument (`PSPSoundBuffer.cpp:72`), so that the
  configured `SOUND_BUFFERSIZE` has no effect.
* `Close` goes by the type of the URI set last, and leaves the other descriptor
  open (`PSPStream.cpp:179`).
* A server that sends no `icy-metaint` is read with the interval of the server
  before, or an uninitialised one; with 0 nothing but "metadata" is read.
* A time-out in the middle of a read counts as -1 byte (`PSPStream.cpp:505`).
* When the connection ends in audio that metadata should follow, `Read` closes
  the socket and goes on to read the length byte from it, until the user stops
  (`PSPStream.cpp:404`). `EndEndsRead` makes an exception of it.
* A socket on which the server has answered with an error, not at all, or with
  another address is never closed (`httpget.cpp:546`, `:567`, `:626`, `:631`),
  nor is one in use when the program exits. `LossesAreNamed` says that there is
  no fourth way.
* When the connection ends in the header `http_open` reads empty lines until
  the program exits (`httpget.cpp:625`); `HangupEndsOpen` makes an exception.
* The address of a relocation keeps its line end, which then stands in the
  request (`httpget.cpp:586`), and the check for ftp without a proxy is not
  made again for it.
* A stream that is closed when its type says FILE already keeps the socket of
  its connection, and the reader of the file copies it (`PSPStream.cpp:297`).
  When SetURI names a URL while that file is open, `Read` reads on from the old
  connection with a running count of 0, wherever in its frame the server is:
  `Undamaged` makes an exception of such a reader (`midway`), unless it starts
  at a frame's beginning. Without a connection left over it reads from socket -1
  and spins until the user stops.
* An end of stream that comes when the user has just paused moves the playing
  cursor and resumes, as `PlaySetStream` does not set a URI in state PAUSE: the
  list shows one track, the URI names another. `HeardIsShown` makes an exception
  (`slipped`).
* A stream of an unknown kind leaves the player in PLAY and tells nobody
  (`PSPSound.cpp:409`); `PlayIsAnswered` makes an exception.
* `EOSHandler`, `OnPlayStateChange` and `PlaySetStream` follow the playing
  iterator without a test (`PlayListScreen.cpp:432`, `:573`); after a refresh of
  the playlists, or in an empty list, it leads nowhere.
* While the options are shown a key of the remote calls a method of another class
  through a slot of its table (`ScreenHandler.cpp:307`).
* What `Run` sends while the UI is being switched, up to the end of the pass in
  which `StopPolling` finds it, is handled while `m_UI` is NULL
  (`ScreenHandler.cpp:158`, `PSPApp.cpp:99`): the null pointer is sent before the
  polling is stopped. `KeysMeetAUI` says that nothing else is. After two switches in a row the pointer of the first is current again for a while though
  its UI is deleted (`PSPRadio.cpp:468`).
* `MID_PLUGINEXITED` names a type (`PSPRadio.cpp:458`): one that is handled after
  another plugin of the type was started unloads that one.
* `MID_GIVEUPEXCLISIVEACCESS` comes from any plugin that exits and from a new
  skin too, not only when the 'User: 1- killed a plugin or 2-selected to switch
  to pspradio from a plugin' (`PSPRadio.cpp:439`): an application that runs with
  exclusive access then shares the keys with the radio.
* `PSPRadioExport_RequestExclusiveAccess` tests `m_UI` and reads it again to call
  it, on the plugin's thread (`PSPRadio_Exports.cpp:76`).

## 6. Not modelled

* The other two user interfaces: `UI_Text` draws what is marked dirty on a render
  thread, `UI_Graphics` within its calls. Their objects as the program sees them
  are in `PluginHost`.
* What is in the files and directories that an FTP client works on.
* The codecs, the visualizer, drawing, parsing of playlists, configuration, ID3
  tags and addresses: conversions of data without behaviour over time.
* The access point and the drivers (`PSPApp_Network.cpp`, `PSPUSBStorage.cpp`):
  blocking sequences of firmware calls. What a socket call does when the power
  thread takes the network down is the firmware's.
* The exit at a back-log of 100 events: whether it is reached depends on rates
  that the code does not fix.
* The on-screen keyboard and the vendored programs (Links, Retawq, an instant
  messenger, a game, SDL, libmad, Tremor) are programs of their own. They make up
  nearly all of the lines of the repository.

## 7. What could come next

`HttpOpen` composed with `StreamReader`, for the interval and the content type a
reader starts with, and a bounded buffer that `SoundBuffer` implements.
