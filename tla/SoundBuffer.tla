---------------------------- MODULE SoundBuffer ----------------------------
(***************************************************************************)
(* CPSPSoundBuffer (SharedLib/PSPApp/PSPSoundBuffer.cpp): the decode       *)
(* thread pushes PCM frames, the play thread pops device buffers.  Neither *)
(* takes a lock: the std::list of buffers and m_DeviceBufferCount, which   *)
(* counts them a second time, are written by both threads.  An update of   *)
(* the counter is a load and a store, and so is one of the list's links.   *)
(*                                                                         *)
(* The buffers are interchangeable here: the list is its length.           *)
(***************************************************************************)
EXTENDS Naturals

CONSTANTS
    DEFAULT_NUM_BUFFERS,       \* m_BufferListMaxSize of a fresh buffer
    PSP_BUFFER_SIZE_IN_FRAMES, \* frames in a device buffer (2048)
    Prebuffer,   \* buffers awaited before the play thread starts (10)
    FrameCounts, \* frames one PushPCMFrame may add, by m_mult and m_div
    MaxEvents,   \* bound: events pending for the decode thread
    MaxCount     \* bound: counted buffers

ASSUME SoundBufferAssumption ==
    /\ DEFAULT_NUM_BUFFERS \in Nat \ {0}
    /\ Prebuffer \in 1..DEFAULT_NUM_BUFFERS
    /\ PSP_BUFFER_SIZE_IN_FRAMES \in Nat \ {0}
    /\ FrameCounts \subseteq 0..PSP_BUFFER_SIZE_IN_FRAMES
    /\ MaxEvents \in Nat
    /\ MaxCount \in Nat

VARIABLES
    size,                \* length of m_DeviceBufferList
    severed,             \* the list has lost its links: it looks empty for good
    m_DeviceBufferCount,
    m_BufferListMaxSize,
    m_bBuffering,
    buffer_index,        \* frames in the decode thread's static buffer
    decEvents,           \* events pending in the decode thread's queue
    decPc,               \* the decode thread
    decReg,              \* its register in m_DeviceBufferCount++
    tailSeen,            \* its load in push_back: "anchor", "node", or "gone"
    playPc,              \* the play thread
    playReg,             \* its register in m_DeviceBufferCount--
    nextSeen,            \* its load in pop_front: "anchor" or "node"
    lastTook,            \* history: the last thing played was a pushed buffer
    raced,               \* history: updates of the list or the counter met
    overran,             \* history: an event let the decoder push beyond the maximum
    PlayFirst            \* the configured priorities.  TRUE: the play thread
                         \* preempts the decode thread, never the reverse, as
                         \* in the default and the shipped configuration

listVars   == <<size, severed, tailSeen, nextSeen>>
configVars == <<m_BufferListMaxSize, PlayFirst>>
history    == <<lastTook, raced, overran>>
countVars  == <<m_DeviceBufferCount, m_bBuffering>>
decVars    == <<buffer_index, decEvents, decPc, decReg>>
playVars   == <<playPc, playReg>>
vars == <<listVars, configVars, history, countVars, decVars, playVars>>

DecLabels == {"receive", "loop", "wait", "emit", "hook", "load", "store", "pushed"}

PlayLabels == {"enter", "fill", "fillsleep", "drain", "drainsleep", "take",
               "unhook", "load", "store", "output", "silence"}

(* Where the play thread is not ready to run: in sceKernelDelayThread or   *)
(* in sceAudioOutputPannedBlocking.                                        *)
Asleep == {"fillsleep", "drainsleep", "output", "silence"}

-----------------------------------------------------------------------------
Init ==
    /\ size = 0
    /\ severed = FALSE
    /\ m_DeviceBufferCount = 0
    /\ m_BufferListMaxSize = DEFAULT_NUM_BUFFERS
    /\ m_bBuffering = TRUE
    /\ buffer_index = 0
    /\ decEvents = 0
    /\ decPc = "receive"
    /\ decReg = 0
    /\ tailSeen = "anchor"
    /\ playPc = "enter"
    /\ playReg = 0
    /\ nextSeen = "anchor"
    /\ lastTook = FALSE
    /\ raced = FALSE
    /\ overran = FALSE
    /\ PlayFirst \in BOOLEAN

-----------------------------------------------------------------------------
(* The rest of the program.                                                *)

(* Another thread sends an event to the decode thread.                     *)
SendToDecoder ==
    /\ decEvents < MaxEvents
    /\ decEvents' = decEvents + 1
    /\ UNCHANGED <<listVars, configVars, history, countVars,
                   buffer_index, decPc, decReg, playVars>>

(* The main thread's set-up, before anything has been decoded.  The size   *)
(* asked for is not used: m_NumBuffers keeps its default.                  *)
ChangeBufferSize ==
    /\ decPc = "receive" /\ decEvents = 0 /\ buffer_index = 0
    /\ size = 0 /\ m_DeviceBufferCount = 0 /\ playPc \in {"enter", "fillsleep"}
    /\ m_BufferListMaxSize' = DEFAULT_NUM_BUFFERS
    /\ m_bBuffering' = TRUE
    /\ UNCHANGED <<listVars, history, PlayFirst, m_DeviceBufferCount, decVars, playVars>>

-----------------------------------------------------------------------------
(* The decode thread.                                                      *)

MayDecode == PlayFirst => playPc \in Asleep

DecGo(from, to) == MayDecode /\ decPc = from /\ decPc' = to

(* Receive returns an event; its handler begins to decode, or goes back to *)
(* Receive.                                                                *)
Receive ==
    /\ MayDecode
    /\ \/ decPc = "receive"
       \/ decPc = "loop"
    /\ decEvents > 0
    /\ decEvents' = decEvents - 1
    /\ decPc' \in {"receive", "loop"}
    /\ UNCHANGED <<listVars, configVars, history, countVars,
                   buffer_index, decReg, playVars>>

(* while (0 == Size()): with no event pending, decode on; at the end of    *)
(* the stream, go back to Receive.                                         *)
Decode ==
    /\ decEvents = 0
    /\ DecGo("loop", "wait")
    /\ UNCHANGED <<listVars, configVars, history, countVars,
                   buffer_index, decEvents, decReg, playVars>>

EndOfStream ==
    /\ DecGo("loop", "receive")
    /\ decEvents = 0
    /\ UNCHANGED <<listVars, configVars, history, countVars,
                   buffer_index, decEvents, decReg, playVars>>

(* Mutant: pending events are not looked at while the buffer is full.      *)
WaitForRoomOnly ==
    /\ m_DeviceBufferCount # m_BufferListMaxSize
    /\ DecGo("wait", "emit")
    /\ UNCHANGED <<listVars, configVars, history, countVars,
                   buffer_index, decEvents, decReg, playVars>>

(* PushPCMFrame waits only while the count is exactly the maximum and no   *)
(* event is pending.                                                       *)
WaitForRoom ==
    /\ ~(m_DeviceBufferCount = m_BufferListMaxSize /\ decEvents = 0)
    /\ DecGo("wait", "emit")
    /\ overran' = (overran \/ m_DeviceBufferCount >= m_BufferListMaxSize)
    /\ UNCHANGED <<listVars, configVars, lastTook, raced, countVars,
                   buffer_index, decEvents, decReg, playVars>>

(* The resampled frame goes into the static buffer, k times.  A full       *)
(* buffer is pushed; push_back first reads the list's last node.           *)
Emit(k) ==
    /\ LET n == buffer_index + k
           full == n >= PSP_BUFFER_SIZE_IN_FRAMES IN
       /\ full => m_DeviceBufferCount < MaxCount /\ size < MaxCount
       /\ DecGo("emit", IF full THEN "hook" ELSE "pushed")
       /\ buffer_index' = IF full THEN n - PSP_BUFFER_SIZE_IN_FRAMES ELSE n
       /\ tailSeen' = IF ~full THEN tailSeen ELSE IF size = 0 THEN "anchor" ELSE "node"
    /\ UNCHANGED <<size, severed, nextSeen, configVars, history,
                   countVars, decEvents, decReg, playVars>>

(* push_back's stores.  Hooked behind a node that has been freed since the *)
(* load, the new node and all later ones cannot be reached.                *)
Hook ==
    /\ DecGo("hook", "load")
    /\ size' = IF severed \/ tailSeen = "gone" THEN size ELSE size + 1
    /\ severed' = (severed \/ tailSeen = "gone")
    /\ raced' = (raced \/ tailSeen = "gone")
    /\ tailSeen' = "anchor"
    /\ UNCHANGED <<nextSeen, configVars, lastTook, overran, countVars,
                   buffer_index, decEvents, decReg, playVars>>

LoadCount ==
    /\ DecGo("load", "store")
    /\ decReg' = m_DeviceBufferCount
    /\ UNCHANGED <<listVars, configVars, history, countVars,
                   buffer_index, decEvents, playVars>>

(* Mutant: m_DeviceBufferCount = m_DeviceBufferCount++.                    *)
StoreOldCount ==
    /\ DecGo("store", "pushed")
    /\ m_DeviceBufferCount' = decReg
    /\ decReg' = 0
    /\ UNCHANGED <<listVars, configVars, history, m_bBuffering,
                   buffer_index, decEvents, playVars>>

StoreCount ==
    /\ DecGo("store", "pushed")
    /\ m_DeviceBufferCount' = decReg + 1
    /\ raced' = (raced \/ m_DeviceBufferCount # decReg)
    /\ decReg' = 0
    /\ UNCHANGED <<listVars, configVars, lastTook, overran, m_bBuffering,
                   buffer_index, decEvents, playVars>>

(* PushPCMFrame returns: the decoder has another frame, or Decode returns. *)
NextFrame ==
    /\ DecGo("pushed", "wait")
    /\ UNCHANGED <<listVars, configVars, history, countVars, buffer_index, decEvents,
                   decReg, playVars>>

DecodeReturns ==
    /\ DecGo("pushed", "loop")
    /\ UNCHANGED <<listVars, configVars, history, countVars, buffer_index, decEvents,
                   decReg, playVars>>

-----------------------------------------------------------------------------
(* The play thread: MID_PLAY_START's loop, PopDeviceBuffer and the output. *)
(* After the one MID_PLAY_START of Initialize nobody sends to its queue.   *)

PlayGo(from, to) == playPc = from /\ playPc' = to

Enter ==
    /\ PlayGo("enter", IF m_bBuffering THEN "fill" ELSE "drain")
    /\ UNCHANGED <<listVars, configVars, history, countVars, decVars, playReg>>

(* Mutant: buffering goes on until there are more than the maximum.        *)
FillOver ==
    /\ IF m_DeviceBufferCount <= m_BufferListMaxSize
       THEN PlayGo("fill", "fillsleep") /\ UNCHANGED m_bBuffering
       ELSE PlayGo("fill", "take") /\ m_bBuffering' = FALSE
    /\ UNCHANGED <<listVars, configVars, history,
                   m_DeviceBufferCount, decVars, playReg>>

(* Buffering: poll until enough buffers are counted.                       *)
Fill ==
    /\ IF m_DeviceBufferCount < Prebuffer
       THEN /\ PlayGo("fill", "fillsleep")
            /\ UNCHANGED m_bBuffering
       ELSE /\ PlayGo("fill", "take")
            /\ m_bBuffering' = FALSE
    /\ UNCHANGED <<listVars, configVars, history,
                   m_DeviceBufferCount, decVars, playReg>>

FillSleep ==
    /\ PlayGo("fillsleep", "fill")
    /\ UNCHANGED <<listVars, configVars, history, countVars, decVars, playReg>>

(* Not buffering: poll while nothing is counted, and fill again next time. *)
Drain ==
    /\ PlayGo("drain", IF m_DeviceBufferCount = 0 THEN "drainsleep" ELSE "take")
    /\ UNCHANGED <<listVars, configVars, history, countVars, decVars, playReg>>

DrainSleep ==
    /\ PlayGo("drainsleep", "drain")
    /\ m_bBuffering' = TRUE
    /\ UNCHANGED <<listVars, configVars, history,
                   m_DeviceBufferCount, decVars, playReg>>

(* The list itself decides what is played: its first buffer, with the load *)
(* of pop_front, or silence.                                               *)
Take ==
    /\ PlayGo("take", IF size > 0 THEN "unhook" ELSE "silence")
    /\ nextSeen' = IF size > 1 THEN "node" ELSE "anchor"
    /\ lastTook' = (size > 0)
    /\ UNCHANGED <<size, severed, tailSeen, configVars,
                   raced, overran, countVars, decVars, playReg>>

(* pop_front's stores.  If the node was the last when it was looked at,    *)
(* whatever has been hooked behind it since is unlinked too.               *)
Unhook ==
    /\ PlayGo("unhook", "load")
    /\ size' = IF nextSeen = "node" THEN size - 1 ELSE 0
    /\ raced' = (raced \/ (nextSeen = "anchor" /\ size > 1))
    /\ tailSeen' = IF size' = 0 /\ decPc = "hook" /\ tailSeen = "node"
                   THEN "gone" ELSE tailSeen
    /\ nextSeen' = "anchor"
    /\ UNCHANGED <<severed, configVars, lastTook, overran, countVars, decVars, playReg>>

PlayLoad ==
    /\ PlayGo("load", "store")
    /\ playReg' = m_DeviceBufferCount
    /\ UNCHANGED <<listVars, configVars, history, countVars, decVars>>

(* size_t: a decrement of 0 would wrap around.  NoUnderflow shows that it  *)
(* is not reached.                                                         *)
PlayStore ==
    /\ PlayGo("store", "output")
    /\ m_DeviceBufferCount' = playReg - 1
    /\ raced' = (raced \/ m_DeviceBufferCount # playReg)
    /\ playReg' = 0
    /\ UNCHANGED <<listVars, configVars, lastTook, overran, m_bBuffering, decVars>>

Output ==
    /\ \/ PlayGo("output", "enter")
       \/ PlayGo("silence", "enter")
    /\ UNCHANGED <<listVars, configVars, history, countVars, decVars, playReg>>

-----------------------------------------------------------------------------
Decoder ==
    \/ Receive \/ Decode \/ EndOfStream \/ WaitForRoom
    \/ \E k \in FrameCounts : Emit(k)
    \/ Hook \/ LoadCount \/ StoreCount \/ NextFrame \/ DecodeReturns

Player ==
    \/ Enter \/ Fill \/ FillSleep \/ Drain \/ DrainSleep
    \/ Take \/ Unhook \/ PlayLoad \/ PlayStore \/ Output

Next ==
    \/ Decoder
    \/ Player
    \/ SendToDecoder
    \/ ChangeBufferSize

Spec == Init /\ [][Next]_vars

(* The play thread sleeps for 50us at a time, or for the 46ms of a device  *)
(* buffer; the decode thread is ready again and again meanwhile, and then  *)
(* the only one that is.  A call of Decode pushes finitely many frames,    *)
(* and a rate's m_mult and m_div let every few of them through.  That the  *)
(* decoder's input arrives is taken for granted here: see AwaitsServer in  *)
(* PSPSound.                                                               *)
Fairness ==
    /\ WF_vars(Player)
    /\ SF_vars(Decoder)
    /\ SF_vars(DecodeReturns)
    /\ SF_vars(\E k \in FrameCounts \ {0} : Emit(k))

FairSpec == Spec /\ Fairness

-----------------------------------------------------------------------------
(* Every variable keeps its type.                                          *)
TypeOK ==
    /\ size \in Nat
    /\ severed \in BOOLEAN
    /\ m_DeviceBufferCount \in Nat
    /\ m_BufferListMaxSize \in Nat \ {0}
    /\ m_bBuffering \in BOOLEAN
    /\ buffer_index \in 0..PSP_BUFFER_SIZE_IN_FRAMES-1
    /\ decEvents \in 0..MaxEvents
    /\ decPc \in DecLabels
    /\ decReg \in Nat
    /\ tailSeen \in {"anchor", "node", "gone"}
    /\ playPc \in PlayLabels
    /\ playReg \in Nat
    /\ nextSeen \in {"anchor", "node"}
    /\ lastTook \in BOOLEAN
    /\ raced \in BOOLEAN
    /\ overran \in BOOLEAN
    /\ PlayFirst \in BOOLEAN

(* The counter m_DeviceBufferCount never falls behind the list, however    *)
(* the play thread cuts into a push: a decrement can be lost, an increment *)
(* cannot.  So the play thread, which tests the counter, never sleeps on a *)
(* buffer it could play.  It takes the default priorities.                 *)
Pushing == IF decPc \in {"load", "store"} THEN 1 ELSE 0
Popping == IF playPc \in {"load", "store"} THEN 1 ELSE 0

CountCovers == PlayFirst => m_DeviceBufferCount + Pushing >= size + Popping

(* PushPCMFrame tests the count for equality with the maximum.  That keeps *)
(* the list within the maximum as long as no pending event has let the     *)
(* decoder through at the maximum.                                         *)
Bounded == PlayFirst /\ ~overran => size <= m_BufferListMaxSize

(* The decrement of the counter never starts from 0, under any priorities: *)
(* it would wrap around to the largest size_t, a buffer full for ever.     *)
NoUnderflow == playPc = "store" => playReg > 0

(* Silence is played only after updates of the two threads have met: by    *)
(* the tests of the count alone, a buffer that is counted is there.        *)
SilenceOnlyAfterRace == playPc = "silence" => raced

(* A pending event always reaches the decode thread's Receive, be the      *)
(* buffer full, the count wrong or the list severed.                       *)
EventReceived == decEvents = MaxEvents ~> decEvents < MaxEvents

(* While the decode thread decodes undisturbed, the play thread goes on    *)
(* taking buffers: it is not left waiting for buffers that are not counted *)
(* while the decoder waits for room, unless updates have met.              *)
PlayerProgress ==
    []<>(playPc = "unhook" \/ decPc = "receive" \/ decEvents > 0 \/ raced)

=============================================================================
