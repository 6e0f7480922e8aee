------------------------- MODULE SoundBufferProofs -------------------------
(***************************************************************************)
(* Proofs about CPSPSoundBuffer for any maximum, buffer length, resampling *)
(* and number of events: what its unprotected counter still guarantees.    *)
(***************************************************************************)
EXTENDS SoundBuffer, TLAPS

(* The play thread decides to play by the counter and pops by the list;    *)
(* from the decision to the decrement the counter stays positive.          *)
TakeInv ==
    /\ playPc \in {"take", "unhook", "load"} => m_DeviceBufferCount > 0
    /\ playPc = "unhook" => size > 0
    /\ playPc = "unhook" /\ nextSeen = "node" => size > 1

(* What the two registers hold under the default priorities: the decode    *)
(* thread's may be out of date upwards, the play thread's is not.          *)
RegisterInv ==
    PlayFirst =>
        /\ decPc = "store" => decReg >= m_DeviceBufferCount
        /\ playPc = "store" => playReg = m_DeviceBufferCount

(* Room was seen before the push that is under way.                        *)
RoomInv ==
    PlayFirst /\ ~overran =>
        /\ m_DeviceBufferCount <= m_BufferListMaxSize
        /\ decPc \in {"emit", "hook", "load"} => m_DeviceBufferCount < m_BufferListMaxSize
        /\ decPc = "store" => decReg < m_BufferListMaxSize

(* Until updates meet, the counter is the length of the list but for the   *)
(* updates under way.                                                      *)
ExactInv ==
    ~raced =>
        /\ ~severed
        /\ m_DeviceBufferCount + Pushing = size + Popping

IInv ==
    /\ TypeOK
    /\ TakeInv
    /\ NoUnderflow
    /\ RegisterInv
    /\ CountCovers
    /\ RoomInv
    /\ ExactInv
    /\ SilenceOnlyAfterRace

(* The initial state satisfies the invariant.                              *)
LEMMA InitIInv == Init => IInv
<1> SUFFICES ASSUME Init PROVE IInv
    OBVIOUS
<1>1. TypeOK
  <2>1. 0 \in 0..PSP_BUFFER_SIZE_IN_FRAMES-1 /\ 0 \in 0..MaxEvents
    BY SoundBufferAssumption
  <2> QED
    BY <2>1, SoundBufferAssumption DEF Init, TypeOK, DecLabels, PlayLabels
<1>2. TakeInv /\ NoUnderflow /\ SilenceOnlyAfterRace
    BY DEF Init, TakeInv, NoUnderflow, SilenceOnlyAfterRace
<1>3. RegisterInv /\ CountCovers /\ RoomInv /\ ExactInv
    BY SoundBufferAssumption
    DEF Init, RegisterInv, CountCovers, RoomInv, ExactInv, Pushing, Popping
<1> QED
    BY <1>1, <1>2, <1>3 DEF IInv

-----------------------------------------------------------------------------
(* One lemma per action: it keeps the invariant.                           *)

LEMMA SendToDecoderIInv ==
    ASSUME IInv, SendToDecoder
    PROVE  IInv'
<1> USE SoundBufferAssumption DEF IInv, SendToDecoder, listVars, configVars, history, countVars, decVars, playVars
<1>1. TypeOK'
    BY DEF TypeOK, DecLabels, PlayLabels
<1>2. TakeInv' /\ NoUnderflow' /\ SilenceOnlyAfterRace'
    BY DEF TypeOK, TakeInv, NoUnderflow, SilenceOnlyAfterRace, ExactInv, Pushing, Popping
<1>3. RegisterInv' /\ RoomInv'
    BY DEF TypeOK, RegisterInv, RoomInv
<1>4. CountCovers'
    BY DEF TypeOK, CountCovers, RegisterInv, TakeInv, NoUnderflow, Pushing, Popping
<1>5. ExactInv'
    BY DEF TypeOK, ExactInv, TakeInv, NoUnderflow, Pushing, Popping
<1> QED
    BY <1>1, <1>2, <1>3, <1>4, <1>5

LEMMA ChangeBufferSizeIInv ==
    ASSUME IInv, ChangeBufferSize
    PROVE  IInv'
<1> USE SoundBufferAssumption DEF IInv, ChangeBufferSize, listVars, configVars, history, countVars, decVars, playVars
<1>1. TypeOK'
    BY DEF TypeOK, DecLabels, PlayLabels
<1>2. TakeInv' /\ NoUnderflow' /\ SilenceOnlyAfterRace'
    BY DEF TypeOK, TakeInv, NoUnderflow, SilenceOnlyAfterRace, ExactInv, Pushing, Popping
<1>3. RegisterInv' /\ RoomInv'
    BY DEF TypeOK, RegisterInv, RoomInv
<1>4. CountCovers'
    BY DEF TypeOK, CountCovers, RegisterInv, TakeInv, NoUnderflow, Pushing, Popping
<1>5. ExactInv'
    BY DEF TypeOK, ExactInv, TakeInv, NoUnderflow, Pushing, Popping
<1> QED
    BY <1>1, <1>2, <1>3, <1>4, <1>5

LEMMA ReceiveIInv ==
    ASSUME IInv, Receive
    PROVE  IInv'
<1> USE SoundBufferAssumption DEF IInv, Receive, DecGo, MayDecode, listVars, configVars, history, countVars, decVars, playVars
<1>1. TypeOK'
    BY DEF TypeOK, DecLabels, PlayLabels
<1>2. TakeInv' /\ NoUnderflow' /\ SilenceOnlyAfterRace'
    BY DEF TypeOK, Asleep, TakeInv, NoUnderflow, SilenceOnlyAfterRace, ExactInv, Pushing, Popping
<1>3. RegisterInv' /\ RoomInv'
    BY DEF TypeOK, Asleep, RegisterInv, RoomInv
<1>4. CountCovers'
    BY DEF TypeOK, Asleep, CountCovers, RegisterInv, TakeInv, NoUnderflow, Pushing, Popping
<1>5. ExactInv'
    BY DEF TypeOK, ExactInv, TakeInv, NoUnderflow, Pushing, Popping
<1> QED
    BY <1>1, <1>2, <1>3, <1>4, <1>5

LEMMA DecodeIInv ==
    ASSUME IInv, Decode
    PROVE  IInv'
<1> USE SoundBufferAssumption DEF IInv, Decode, DecGo, MayDecode, listVars, configVars, history, countVars, decVars, playVars
<1>1. TypeOK'
    BY DEF TypeOK, DecLabels, PlayLabels
<1>2. TakeInv' /\ NoUnderflow' /\ SilenceOnlyAfterRace'
    BY DEF TypeOK, Asleep, TakeInv, NoUnderflow, SilenceOnlyAfterRace, ExactInv, Pushing, Popping
<1>3. RegisterInv' /\ RoomInv'
    BY DEF TypeOK, Asleep, RegisterInv, RoomInv
<1>4. CountCovers'
    BY DEF TypeOK, Asleep, CountCovers, RegisterInv, TakeInv, NoUnderflow, Pushing, Popping
<1>5. ExactInv'
    BY DEF TypeOK, ExactInv, TakeInv, NoUnderflow, Pushing, Popping
<1> QED
    BY <1>1, <1>2, <1>3, <1>4, <1>5

LEMMA EndOfStreamIInv ==
    ASSUME IInv, EndOfStream
    PROVE  IInv'
<1> USE SoundBufferAssumption DEF IInv, EndOfStream, DecGo, MayDecode, listVars, configVars, history, countVars, decVars, playVars
<1>1. TypeOK'
    BY DEF TypeOK, DecLabels, PlayLabels
<1>2. TakeInv' /\ NoUnderflow' /\ SilenceOnlyAfterRace'
    BY DEF TypeOK, Asleep, TakeInv, NoUnderflow, SilenceOnlyAfterRace, ExactInv, Pushing, Popping
<1>3. RegisterInv' /\ RoomInv'
    BY DEF TypeOK, Asleep, RegisterInv, RoomInv
<1>4. CountCovers'
    BY DEF TypeOK, Asleep, CountCovers, RegisterInv, TakeInv, NoUnderflow, Pushing, Popping
<1>5. ExactInv'
    BY DEF TypeOK, ExactInv, TakeInv, NoUnderflow, Pushing, Popping
<1> QED
    BY <1>1, <1>2, <1>3, <1>4, <1>5

LEMMA WaitForRoomIInv ==
    ASSUME IInv, WaitForRoom
    PROVE  IInv'
<1> USE SoundBufferAssumption DEF IInv, WaitForRoom, DecGo, MayDecode, listVars, configVars, history, countVars, decVars, playVars
<1>1. TypeOK'
    BY DEF TypeOK, DecLabels, PlayLabels
<1>2. TakeInv' /\ NoUnderflow' /\ SilenceOnlyAfterRace'
    BY DEF TypeOK, Asleep, TakeInv, NoUnderflow, SilenceOnlyAfterRace, ExactInv, Pushing, Popping
<1>3. RegisterInv' /\ RoomInv'
    BY DEF TypeOK, Asleep, RegisterInv, RoomInv
<1>4. CountCovers'
    BY DEF TypeOK, Asleep, CountCovers, RegisterInv, TakeInv, NoUnderflow, Pushing, Popping
<1>5. ExactInv'
    BY DEF TypeOK, ExactInv, TakeInv, NoUnderflow, Pushing, Popping
<1> QED
    BY <1>1, <1>2, <1>3, <1>4, <1>5

LEMMA EmitIInv ==
    ASSUME IInv, NEW k \in FrameCounts, Emit(k)
    PROVE  IInv'
<1> USE SoundBufferAssumption DEF IInv, Emit, DecGo, MayDecode, listVars, configVars, history, countVars, decVars, playVars
<1>1. TypeOK'
    BY DEF TypeOK, DecLabels, PlayLabels
<1>2. TakeInv' /\ NoUnderflow' /\ SilenceOnlyAfterRace'
    BY DEF TypeOK, Asleep, TakeInv, NoUnderflow, SilenceOnlyAfterRace, ExactInv, Pushing, Popping
<1>3. RegisterInv' /\ RoomInv'
    BY DEF TypeOK, Asleep, RegisterInv, RoomInv
<1>4. CountCovers'
    BY DEF TypeOK, Asleep, CountCovers, RegisterInv, TakeInv, NoUnderflow, Pushing, Popping
<1>5. ExactInv'
    BY DEF TypeOK, ExactInv, TakeInv, NoUnderflow, Pushing, Popping
<1> QED
    BY <1>1, <1>2, <1>3, <1>4, <1>5

LEMMA HookIInv ==
    ASSUME IInv, Hook
    PROVE  IInv'
<1> USE SoundBufferAssumption DEF IInv, Hook, DecGo, MayDecode, listVars, configVars, history, countVars, decVars, playVars
<1>1. TypeOK'
    BY DEF TypeOK, DecLabels, PlayLabels
<1>2. TakeInv' /\ NoUnderflow' /\ SilenceOnlyAfterRace'
    BY DEF TypeOK, Asleep, TakeInv, NoUnderflow, SilenceOnlyAfterRace, ExactInv, Pushing, Popping
<1>3. RegisterInv' /\ RoomInv'
    BY DEF TypeOK, Asleep, RegisterInv, RoomInv
<1>4. CountCovers'
    BY DEF TypeOK, Asleep, CountCovers, RegisterInv, TakeInv, NoUnderflow, Pushing, Popping
<1>5. ExactInv'
  <2>1. ~raced' => ~raced /\ tailSeen # "gone"
    BY Zenon
  <2>2. ASSUME ~raced, tailSeen # "gone"
        PROVE  ~severed' /\ m_DeviceBufferCount' + Pushing' = size' + Popping'
    BY <2>2 DEF TypeOK, ExactInv, TakeInv, NoUnderflow, Pushing, Popping
  <2> QED
    BY <2>1, <2>2 DEF ExactInv
<1> QED
    BY <1>1, <1>2, <1>3, <1>4, <1>5

LEMMA LoadCountIInv ==
    ASSUME IInv, LoadCount
    PROVE  IInv'
<1> USE SoundBufferAssumption DEF IInv, LoadCount, DecGo, MayDecode, listVars, configVars, history, countVars, decVars, playVars
<1>1. TypeOK'
    BY DEF TypeOK, DecLabels, PlayLabels
<1>2. TakeInv' /\ NoUnderflow' /\ SilenceOnlyAfterRace'
    BY DEF TypeOK, Asleep, TakeInv, NoUnderflow, SilenceOnlyAfterRace, ExactInv, Pushing, Popping
<1>3. RegisterInv' /\ RoomInv'
    BY DEF TypeOK, Asleep, RegisterInv, RoomInv
<1>4. CountCovers'
    BY DEF TypeOK, Asleep, CountCovers, RegisterInv, TakeInv, NoUnderflow, Pushing, Popping
<1>5. ExactInv'
    BY DEF TypeOK, ExactInv, TakeInv, NoUnderflow, Pushing, Popping
<1> QED
    BY <1>1, <1>2, <1>3, <1>4, <1>5

LEMMA StoreCountIInv ==
    ASSUME IInv, StoreCount
    PROVE  IInv'
<1> USE SoundBufferAssumption DEF IInv, StoreCount, DecGo, MayDecode, listVars, configVars, history, countVars, decVars, playVars
<1>1. TypeOK'
    BY DEF TypeOK, DecLabels, PlayLabels
<1>2. TakeInv' /\ NoUnderflow' /\ SilenceOnlyAfterRace'
    BY DEF TypeOK, Asleep, TakeInv, NoUnderflow, SilenceOnlyAfterRace, ExactInv, Pushing, Popping
<1>3. RegisterInv' /\ RoomInv'
    BY DEF TypeOK, Asleep, RegisterInv, RoomInv
<1>4. CountCovers'
    BY DEF TypeOK, Asleep, CountCovers, RegisterInv, TakeInv, NoUnderflow, Pushing, Popping
<1>5. ExactInv'
  <2>1. ~raced' => ~raced /\ m_DeviceBufferCount = decReg
    BY Zenon
  <2>2. ASSUME ~raced, m_DeviceBufferCount = decReg
        PROVE  ~severed' /\ m_DeviceBufferCount' + Pushing' = size' + Popping'
    BY <2>2 DEF TypeOK, ExactInv, TakeInv, NoUnderflow, Pushing, Popping
  <2> QED
    BY <2>1, <2>2 DEF ExactInv
<1> QED
    BY <1>1, <1>2, <1>3, <1>4, <1>5

LEMMA NextFrameIInv ==
    ASSUME IInv, NextFrame
    PROVE  IInv'
<1> USE SoundBufferAssumption DEF IInv, NextFrame, DecGo, MayDecode, listVars, configVars, history, countVars, decVars, playVars
<1>1. TypeOK'
    BY DEF TypeOK, DecLabels, PlayLabels
<1>2. TakeInv' /\ NoUnderflow' /\ SilenceOnlyAfterRace'
    BY DEF TypeOK, Asleep, TakeInv, NoUnderflow, SilenceOnlyAfterRace, ExactInv, Pushing, Popping
<1>3. RegisterInv' /\ RoomInv'
    BY DEF TypeOK, Asleep, RegisterInv, RoomInv
<1>4. CountCovers'
    BY DEF TypeOK, Asleep, CountCovers, RegisterInv, TakeInv, NoUnderflow, Pushing, Popping
<1>5. ExactInv'
    BY DEF TypeOK, ExactInv, TakeInv, NoUnderflow, Pushing, Popping
<1> QED
    BY <1>1, <1>2, <1>3, <1>4, <1>5

LEMMA DecodeReturnsIInv ==
    ASSUME IInv, DecodeReturns
    PROVE  IInv'
<1> USE SoundBufferAssumption DEF IInv, DecodeReturns, DecGo, MayDecode, listVars, configVars, history, countVars, decVars, playVars
<1>1. TypeOK'
    BY DEF TypeOK, DecLabels, PlayLabels
<1>2. TakeInv' /\ NoUnderflow' /\ SilenceOnlyAfterRace'
    BY DEF TypeOK, Asleep, TakeInv, NoUnderflow, SilenceOnlyAfterRace, ExactInv, Pushing, Popping
<1>3. RegisterInv' /\ RoomInv'
    BY DEF TypeOK, Asleep, RegisterInv, RoomInv
<1>4. CountCovers'
    BY DEF TypeOK, Asleep, CountCovers, RegisterInv, TakeInv, NoUnderflow, Pushing, Popping
<1>5. ExactInv'
    BY DEF TypeOK, ExactInv, TakeInv, NoUnderflow, Pushing, Popping
<1> QED
    BY <1>1, <1>2, <1>3, <1>4, <1>5

LEMMA EnterIInv ==
    ASSUME IInv, Enter
    PROVE  IInv'
<1> USE SoundBufferAssumption DEF IInv, Enter, PlayGo, listVars, configVars, history, countVars, decVars, playVars
<1>1. TypeOK'
    BY DEF TypeOK, DecLabels, PlayLabels
<1>2. TakeInv' /\ NoUnderflow' /\ SilenceOnlyAfterRace'
    BY DEF TypeOK, TakeInv, NoUnderflow, SilenceOnlyAfterRace, ExactInv, Pushing, Popping
<1>3. RegisterInv' /\ RoomInv'
    BY DEF TypeOK, RegisterInv, RoomInv
<1>4. CountCovers'
    BY DEF TypeOK, CountCovers, RegisterInv, TakeInv, NoUnderflow, Pushing, Popping
<1>5. ExactInv'
    BY DEF TypeOK, ExactInv, TakeInv, NoUnderflow, Pushing, Popping
<1> QED
    BY <1>1, <1>2, <1>3, <1>4, <1>5

LEMMA FillIInv ==
    ASSUME IInv, Fill
    PROVE  IInv'
<1> USE SoundBufferAssumption DEF IInv, Fill, PlayGo, listVars, configVars, history, countVars, decVars, playVars
<1>1. TypeOK'
  <2>1. playPc' \in PlayLabels
    BY DEF TypeOK, PlayLabels
  <2>2. m_bBuffering' \in BOOLEAN
    BY DEF TypeOK
  <2> QED
    BY <2>1, <2>2 DEF TypeOK, DecLabels
<1>2. TakeInv' /\ NoUnderflow' /\ SilenceOnlyAfterRace'
    BY DEF TypeOK, TakeInv, NoUnderflow, SilenceOnlyAfterRace, ExactInv, Pushing, Popping
<1>3. RegisterInv' /\ RoomInv'
    BY DEF TypeOK, RegisterInv, RoomInv
<1>4. CountCovers'
    BY DEF TypeOK, CountCovers, RegisterInv, TakeInv, NoUnderflow, Pushing, Popping
<1>5. ExactInv'
    BY DEF TypeOK, ExactInv, TakeInv, NoUnderflow, Pushing, Popping
<1> QED
    BY <1>1, <1>2, <1>3, <1>4, <1>5

LEMMA FillSleepIInv ==
    ASSUME IInv, FillSleep
    PROVE  IInv'
<1> USE SoundBufferAssumption DEF IInv, FillSleep, PlayGo, listVars, configVars, history, countVars, decVars, playVars
<1>1. TypeOK'
    BY DEF TypeOK, DecLabels, PlayLabels
<1>2. TakeInv' /\ NoUnderflow' /\ SilenceOnlyAfterRace'
    BY DEF TypeOK, TakeInv, NoUnderflow, SilenceOnlyAfterRace, ExactInv, Pushing, Popping
<1>3. RegisterInv' /\ RoomInv'
    BY DEF TypeOK, RegisterInv, RoomInv
<1>4. CountCovers'
    BY DEF TypeOK, CountCovers, RegisterInv, TakeInv, NoUnderflow, Pushing, Popping
<1>5. ExactInv'
    BY DEF TypeOK, ExactInv, TakeInv, NoUnderflow, Pushing, Popping
<1> QED
    BY <1>1, <1>2, <1>3, <1>4, <1>5

LEMMA DrainIInv ==
    ASSUME IInv, Drain
    PROVE  IInv'
<1> USE SoundBufferAssumption DEF IInv, Drain, PlayGo, listVars, configVars, history, countVars, decVars, playVars
<1>1. TypeOK'
    BY DEF TypeOK, DecLabels, PlayLabels
<1>2. TakeInv' /\ NoUnderflow' /\ SilenceOnlyAfterRace'
    BY DEF TypeOK, TakeInv, NoUnderflow, SilenceOnlyAfterRace, ExactInv, Pushing, Popping
<1>3. RegisterInv' /\ RoomInv'
    BY DEF TypeOK, RegisterInv, RoomInv
<1>4. CountCovers'
    BY DEF TypeOK, CountCovers, RegisterInv, TakeInv, NoUnderflow, Pushing, Popping
<1>5. ExactInv'
    BY DEF TypeOK, ExactInv, TakeInv, NoUnderflow, Pushing, Popping
<1> QED
    BY <1>1, <1>2, <1>3, <1>4, <1>5

LEMMA DrainSleepIInv ==
    ASSUME IInv, DrainSleep
    PROVE  IInv'
<1> USE SoundBufferAssumption DEF IInv, DrainSleep, PlayGo, listVars, configVars, history, countVars, decVars, playVars
<1>1. TypeOK'
    BY DEF TypeOK, DecLabels, PlayLabels
<1>2. TakeInv' /\ NoUnderflow' /\ SilenceOnlyAfterRace'
    BY DEF TypeOK, TakeInv, NoUnderflow, SilenceOnlyAfterRace, ExactInv, Pushing, Popping
<1>3. RegisterInv' /\ RoomInv'
    BY DEF TypeOK, RegisterInv, RoomInv
<1>4. CountCovers'
    BY DEF TypeOK, CountCovers, RegisterInv, TakeInv, NoUnderflow, Pushing, Popping
<1>5. ExactInv'
    BY DEF TypeOK, ExactInv, TakeInv, NoUnderflow, Pushing, Popping
<1> QED
    BY <1>1, <1>2, <1>3, <1>4, <1>5

LEMMA TakeIInv ==
    ASSUME IInv, Take
    PROVE  IInv'
<1> USE SoundBufferAssumption DEF IInv, Take, PlayGo, listVars, configVars, history, countVars, decVars, playVars
<1>1. TypeOK'
    BY DEF TypeOK, DecLabels, PlayLabels
<1>2. TakeInv' /\ NoUnderflow' /\ SilenceOnlyAfterRace'
    BY DEF TypeOK, TakeInv, NoUnderflow, SilenceOnlyAfterRace, ExactInv, Pushing, Popping
<1>3. RegisterInv' /\ RoomInv'
    BY DEF TypeOK, RegisterInv, RoomInv
<1>4. CountCovers'
    BY DEF TypeOK, CountCovers, RegisterInv, TakeInv, NoUnderflow, Pushing, Popping
<1>5. ExactInv'
    BY DEF TypeOK, ExactInv, TakeInv, NoUnderflow, Pushing, Popping
<1> QED
    BY <1>1, <1>2, <1>3, <1>4, <1>5

LEMMA UnhookIInv ==
    ASSUME IInv, Unhook
    PROVE  IInv'
<1> USE SoundBufferAssumption DEF IInv, Unhook, PlayGo, listVars, configVars, history, countVars, decVars, playVars
<1>1. TypeOK'
    BY DEF TypeOK, DecLabels, PlayLabels, TakeInv
<1>2. TakeInv' /\ NoUnderflow' /\ SilenceOnlyAfterRace'
    BY DEF TypeOK, TakeInv, NoUnderflow, SilenceOnlyAfterRace, ExactInv, Pushing, Popping
<1>3. RegisterInv' /\ RoomInv'
    BY DEF TypeOK, RegisterInv, RoomInv
<1>4. CountCovers'
    BY DEF TypeOK, CountCovers, RegisterInv, TakeInv, NoUnderflow, Pushing, Popping
<1>5. ExactInv'
  <2>1. ~raced' => ~raced /\ ~(nextSeen = "anchor" /\ size > 1)
    BY Zenon
  <2>2. ASSUME ~raced, ~(nextSeen = "anchor" /\ size > 1)
        PROVE  ~severed' /\ m_DeviceBufferCount' + Pushing' = size' + Popping'
    BY <2>2 DEF TypeOK, ExactInv, TakeInv, NoUnderflow, Pushing, Popping
  <2> QED
    BY <2>1, <2>2 DEF ExactInv
<1> QED
    BY <1>1, <1>2, <1>3, <1>4, <1>5

LEMMA PlayLoadIInv ==
    ASSUME IInv, PlayLoad
    PROVE  IInv'
<1> USE SoundBufferAssumption DEF IInv, PlayLoad, PlayGo, listVars, configVars, history, countVars, decVars, playVars
<1>1. TypeOK'
    BY DEF TypeOK, DecLabels, PlayLabels
<1>2. TakeInv' /\ NoUnderflow' /\ SilenceOnlyAfterRace'
    BY DEF TypeOK, TakeInv, NoUnderflow, SilenceOnlyAfterRace, ExactInv, Pushing, Popping
<1>3. RegisterInv' /\ RoomInv'
    BY DEF TypeOK, RegisterInv, RoomInv
<1>4. CountCovers'
    BY DEF TypeOK, CountCovers, RegisterInv, TakeInv, NoUnderflow, Pushing, Popping
<1>5. ExactInv'
    BY DEF TypeOK, ExactInv, TakeInv, NoUnderflow, Pushing, Popping
<1> QED
    BY <1>1, <1>2, <1>3, <1>4, <1>5

LEMMA PlayStoreIInv ==
    ASSUME IInv, PlayStore
    PROVE  IInv'
<1> USE SoundBufferAssumption DEF IInv, PlayStore, PlayGo, listVars, configVars, history, countVars, decVars, playVars
<1>1. TypeOK'
    BY DEF TypeOK, DecLabels, PlayLabels, NoUnderflow
<1>2. TakeInv' /\ NoUnderflow' /\ SilenceOnlyAfterRace'
    BY DEF TypeOK, TakeInv, NoUnderflow, SilenceOnlyAfterRace, ExactInv, Pushing, Popping
<1>3. RegisterInv' /\ RoomInv'
    BY DEF TypeOK, RegisterInv, RoomInv
<1>4. CountCovers'
    BY DEF TypeOK, CountCovers, RegisterInv, TakeInv, NoUnderflow, Pushing, Popping
<1>5. ExactInv'
  <2>1. ~raced' => ~raced /\ m_DeviceBufferCount = playReg
    BY Zenon
  <2>2. ASSUME ~raced, m_DeviceBufferCount = playReg
        PROVE  ~severed' /\ m_DeviceBufferCount' + Pushing' = size' + Popping'
    BY <2>2 DEF TypeOK, ExactInv, TakeInv, NoUnderflow, Pushing, Popping
  <2> QED
    BY <2>1, <2>2 DEF ExactInv
<1> QED
    BY <1>1, <1>2, <1>3, <1>4, <1>5

LEMMA OutputIInv ==
    ASSUME IInv, Output
    PROVE  IInv'
<1> USE SoundBufferAssumption DEF IInv, Output, PlayGo, listVars, configVars, history, countVars, decVars, playVars
<1>1. TypeOK'
    BY DEF TypeOK, DecLabels, PlayLabels
<1>2. TakeInv' /\ NoUnderflow' /\ SilenceOnlyAfterRace'
    BY DEF TypeOK, TakeInv, NoUnderflow, SilenceOnlyAfterRace, ExactInv, Pushing, Popping
<1>3. RegisterInv' /\ RoomInv'
    BY DEF TypeOK, RegisterInv, RoomInv
<1>4. CountCovers'
    BY DEF TypeOK, CountCovers, RegisterInv, TakeInv, NoUnderflow, Pushing, Popping
<1>5. ExactInv'
    BY DEF TypeOK, ExactInv, TakeInv, NoUnderflow, Pushing, Popping
<1> QED
    BY <1>1, <1>2, <1>3, <1>4, <1>5

-----------------------------------------------------------------------------
(* A step that leaves every variable alone keeps the invariant.            *)
LEMMA StutterIInv == IInv /\ UNCHANGED vars => IInv'
<1> SUFFICES ASSUME IInv, UNCHANGED vars PROVE IInv'
    OBVIOUS
<1> USE DEF IInv, vars, listVars, configVars, history, countVars, decVars, playVars
<1>1. TypeOK' /\ TakeInv' /\ NoUnderflow' /\ SilenceOnlyAfterRace'
    BY DEF TypeOK, TakeInv, NoUnderflow, SilenceOnlyAfterRace
<1>2. RegisterInv' /\ RoomInv' /\ CountCovers' /\ ExactInv'
    BY DEF RegisterInv, RoomInv, CountCovers, ExactInv, Pushing, Popping
<1> QED
    BY <1>1, <1>2

(* Every step keeps the invariant.                                         *)
LEMMA NextIInv == IInv /\ [Next]_vars => IInv'
<1> SUFFICES ASSUME IInv, [Next]_vars PROVE IInv'
    OBVIOUS
<1>1. CASE Decoder
    BY <1>1, ReceiveIInv, DecodeIInv, EndOfStreamIInv, WaitForRoomIInv, EmitIInv,
       HookIInv, LoadCountIInv, StoreCountIInv, NextFrameIInv, DecodeReturnsIInv
    DEF Decoder
<1>2. CASE Player
    BY <1>2, EnterIInv, FillIInv, FillSleepIInv, DrainIInv, DrainSleepIInv,
       TakeIInv, UnhookIInv, PlayLoadIInv, PlayStoreIInv, OutputIInv DEF Player
<1>3. CASE SendToDecoder
    BY <1>3, SendToDecoderIInv
<1>4. CASE ChangeBufferSize
    BY <1>4, ChangeBufferSizeIInv
<1>5. CASE UNCHANGED vars
    BY <1>5, StutterIInv
<1> QED
    BY <1>1, <1>2, <1>3, <1>4, <1>5 DEF Next

(* The invariant holds in every reachable state.                           *)
THEOREM Invariance == Spec => []IInv
BY InitIInv, NextIInv, PTL DEF Spec

(* The variables of the buffer keep their types.                           *)
THEOREM TypeCorrect == Spec => []TypeOK
BY Invariance, PTL DEF IInv

(* Under the default priorities the counter never falls behind the list:   *)
(* the play thread does not sleep on a buffer that it could play.          *)
THEOREM CounterCoversList == Spec => []CountCovers
BY Invariance, PTL DEF IInv

(* Under the default priorities the list keeps to the maximum as long as   *)
(* no pending event has let the decoder through at the maximum.            *)
THEOREM BufferIsBounded == Spec => []Bounded
<1>1. IInv => Bounded
  <2> SUFFICES ASSUME IInv, PlayFirst, ~overran PROVE size <= m_BufferListMaxSize
    BY DEF Bounded
  <2>1. m_DeviceBufferCount + Pushing <= m_BufferListMaxSize
    BY DEF IInv, TypeOK, RoomInv, RegisterInv, Pushing
  <2> QED
    BY <2>1 DEF IInv, TypeOK, CountCovers, Pushing, Popping
<1> QED
    BY Invariance, <1>1, PTL

(* Under any priorities the counter is never decremented from 0.           *)
THEOREM CounterDoesNotWrap == Spec => []NoUnderflow
BY Invariance, PTL DEF IInv

(* Under any priorities silence in place of a pushed buffer takes two      *)
(* updates that met.                                                       *)
THEOREM SilenceNeedsARace == Spec => []SilenceOnlyAfterRace
BY Invariance, PTL DEF IInv

=============================================================================
