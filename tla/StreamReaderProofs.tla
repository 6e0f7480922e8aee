------------------------- MODULE StreamReaderProofs -------------------------
(***************************************************************************)
(* Theorems about StreamReader, for all intervals, sizes and ways in which *)
(* recv cuts up the stream: its variables keep their types, and a stream   *)
(* that is open and has met none of the four excuses of Undamaged has had *)
(* no audio and metadata taken for each other.                             *)
(*                                                                         *)
(* Undamaged is not inductive: nothing in it ties the running count of     *)
(* Read to the place of the server in its frame.  InStep does, for each of *)
(* the four SocketReads, as long as more can arrive.                       *)
(***************************************************************************)
EXTENDS StreamReader, TLAPS

-----------------------------------------------------------------------------
(* The invariant.                                                          *)

AtIdle == (run \in 0..interval - 1 /\ pos = run) \/ (run = interval /\ pos = 0)

InAudio ==
    /\ run \in 0..interval - 1
    /\ size \in 0..want
    /\ pos = run + size
    /\ run + want <= interval
    /\ call = "upto" => run + want = interval

AtBlock ==
    /\ want = 1
    /\ run + got = interval
    /\ \/ pc = "recv" /\ size = 0 /\ pos = interval
       \/ /\ pc = "back" /\ size = 1 /\ bMetaDataSize = length
          /\ pos = IF length * MetaUnit = 0 THEN 0 ELSE interval + 1

InBlock ==
    /\ want = length * MetaUnit
    /\ run + got = interval
    /\ size \in 0..want
    /\ pos = IF size = want THEN 0 ELSE interval + 1 + size

Together ==
    /\ pc = "idle" => AtIdle
    /\ Reading /\ call \in {"plain", "upto"} => InAudio
    /\ Reading /\ call = "length" => AtBlock
    /\ Reading /\ call = "text" => InBlock

InStep ==
    /\ ~mixed
    /\ interval > 0
    /\ m_iMetaDataInterval = interval
    /\ over \/ Together

Excused == failures # 0 \/ stale \/ edge \/ midway

(* An open connection outlives its reader, and is that of the last server. *)
Known ==
    m_fdSocket = "open" /\ ~stale => interval > 0 /\ m_iMetaDataInterval = interval

CleanInv ==
    m_State = "OPEN" =>
        /\ pc # "none"
        /\ m_fdSocket = "bad" => ~mixed
        /\ m_fdSocket = "open" => Excused \/ InStep

IInv == TypeOK /\ Known /\ CleanInv

-----------------------------------------------------------------------------
(* Arithmetic.                                                             *)

(* A block is some bytes long, and a frame a byte more than its audio.     *)
LEMMA FrameSize ==
  ASSUME TypeOK
  PROVE  /\ length * MetaUnit \in Nat
         /\ Frame \in Nat
         /\ Frame = interval + 1 + length * MetaUnit
         /\ Frame > interval
<1>1. length \in Nat /\ interval \in Nat /\ MetaUnit \in Nat
  BY StreamReaderAssumption DEF TypeOK
<1>2. length * MetaUnit \in Nat
  BY <1>1
<1>3. QED
  BY <1>1, <1>2 DEF Frame

(* Remainders of a count below, at and beyond its modulus.                 *)
LEMMA Remainder ==
  ASSUME NEW a \in Int, NEW m \in Nat, m > 0
  PROVE  /\ a % m \in 0..m - 1
         /\ a \in 0..m - 1 => a % m = a
         /\ a = m => a % m = 0
  OBVIOUS

(* The place in the frame is one.                                          *)
LEMMA AdvanceType ==
  ASSUME TypeOK, NEW n \in Nat
  PROVE  Advance(n) \in Nat
<1>1. Frame \in Nat /\ Frame > 0 /\ pos + n \in Nat
  BY FrameSize DEF TypeOK
<1>2. (pos + n) % Frame \in Nat
  BY <1>1, Remainder
<1>3. QED
  BY <1>1, <1>2 DEF Advance

(* Within a frame the place advances by what arrives, to 0 at its end.     *)
LEMMA AdvanceInFrame ==
  ASSUME TypeOK, interval > 0, NEW n \in Nat, pos + n <= Frame
  PROVE  Advance(n) = IF pos + n = Frame THEN 0 ELSE pos + n
<1>1. Frame \in Nat /\ Frame > 0 /\ pos \in Nat /\ interval \in Nat
  BY FrameSize DEF TypeOK
<1>2. Frame % Frame = 0
  BY <1>1, Remainder
<1>3. CASE pos + n = Frame
  BY <1>1, <1>2, <1>3 DEF Advance
<1>4. CASE pos + n < Frame
  BY <1>1, <1>4 DEF Advance
<1>5. QED
  BY <1>1, <1>3, <1>4

(* The count of a Read that starts.                                        *)
LEMMA ModType ==
  ASSUME TypeOK
  PROVE  Mod \in Int
<1>1. run \in Int /\ m_iMetaDataInterval \in Nat
  BY DEF TypeOK
<1>2. CASE m_iMetaDataInterval # 0
  BY <1>1, <1>2, Remainder DEF Mod
<1>3. QED
  BY <1>1, <1>2 DEF Mod

-----------------------------------------------------------------------------
(* Type correctness.                                                       *)

LEMMA TypeStep ==
  ASSUME TypeOK, [Next]_vars
  PROVE  TypeOK'
<1> USE StreamReaderAssumption
<1>1. CASE \E s \in {"PLAY", "STOP"} : SetState(s)
  BY <1>1 DEF TypeOK, SetState, serverVars, readVars, readerVars, history
<1>2. CASE \E t \in {"file", "url"} : SetURI(t)
  BY <1>2 DEF TypeOK, SetURI, serverVars, readVars, readerVars, history
<1>3. CASE \E n \in Intervals \cup {0}, l \in MetaSizes : Connected(n, l)
  <2>1. PICK n \in Intervals \cup {0}, l \in MetaSizes : Connected(n, l)
    BY <1>3
  <2>2. /\ stale' \in BOOLEAN /\ edge' \in BOOLEAN /\ mixed' \in BOOLEAN
        /\ over' \in BOOLEAN /\ midway' \in BOOLEAN
    BY <2>1 DEF Connected, NewReader
  <2>3. QED
    BY <2>1, <2>2 DEF TypeOK, Connected, NewReader
<1>4. CASE FileOpened
  <2>1. stale' \in BOOLEAN /\ edge' \in BOOLEAN /\ mixed' \in BOOLEAN /\ over' \in BOOLEAN
    BY <1>4 DEF TypeOK, FileOpened, NewReader, serverVars
  <2>2. midway' \in BOOLEAN
    BY <1>4, Zenon DEF FileOpened
  <2>3. QED
    BY <1>4, <2>1, <2>2 DEF TypeOK, FileOpened, NewReader, serverVars
<1>5. CASE Delete
  BY <1>5 DEF TypeOK, Delete, CloseStream, serverVars, history
<1>6. CASE Hangup
  BY <1>6 DEF TypeOK, Hangup, streamVars, readVars, readerVars, history
<1>7. CASE \E k \in Sizes : Read(k)
  <2>1. PICK k \in Sizes : Read(k)
    BY <1>7
  <2>2. Mod \in Int /\ k \in Int
    BY ModType
  <2>3. QED
    BY <2>1, <2>2 DEF TypeOK, Read, SocketRead, streamVars, serverVars, history
<1>8. CASE SocketReadStep
  <2>1. CASE \E n \in 0..want - size : Recv(n)
    <3>1. PICK n \in 0..want - size : Recv(n)
      BY <2>1
    <3>2. Advance(n) \in Nat
      BY <3>1, AdvanceType DEF TypeOK
    <3>3. bMetaDataSize' \in 0..127
      BY <3>1 DEF TypeOK, Recv
    <3>4. mixed' \in BOOLEAN
      BY <3>1 DEF TypeOK, Recv
    <3>5. QED
      BY <3>1, <3>2, <3>3, <3>4 DEF TypeOK, Recv, Goes, streamVars, readerVars
  <2>2. CASE RecvNothing
    BY <2>2 DEF TypeOK, RecvNothing, streamVars, serverVars, readerVars, history
  <2>3. CASE RecvFails
    BY <2>3 DEF TypeOK, RecvFails, Goes, streamVars, serverVars, readerVars
  <2>4. QED
    BY <1>8, <2>1, <2>2, <2>3 DEF SocketReadStep
<1>9. CASE ReadStep
  <2>1. CASE PlainIsRead
    BY <2>1 DEF TypeOK, PlainIsRead, EndOfData, CloseStream, serverVars
  <2>2. CASE AudioIsRead
    BY <2>2 DEF TypeOK, AudioIsRead, EndOfData, CloseStream, SocketRead, serverVars, history
  <2>3. CASE LengthIsRead
    <3>1. bMetaDataSize * MetaUnit \in Int
      BY DEF TypeOK
    <3>2. QED
      BY <2>3, <3>1 DEF TypeOK, LengthIsRead, EndOfData, CloseStream, SocketRead,
                        serverVars, history
  <2>4. CASE TextIsRead
    BY <2>4 DEF TypeOK, TextIsRead, EndOfData, CloseStream, serverVars, history
  <2>5. QED
    BY <1>9, <2>1, <2>2, <2>3, <2>4 DEF ReadStep
<1>10. CASE UNCHANGED vars
  BY <1>10 DEF TypeOK, vars, streamVars, serverVars, readVars, readerVars, history
<1>11. CASE \E n \in Intervals \cup {0} : NotConnected(n)
  BY <1>11 DEF TypeOK, NotConnected, serverVars, readVars, history
<1>12. QED
  BY <1>1, <1>2, <1>3, <1>4, <1>5, <1>6, <1>7, <1>8, <1>9, <1>10, <1>11 DEF Next

(* The interval of the stream is that of the server last connected.        *)
LEMMA KnownStep ==
  ASSUME IInv, Next
  PROVE  Known'
<1> USE DEF IInv, Known
<1>1. CASE \E s \in {"PLAY", "STOP"} : SetState(s)
  BY <1>1 DEF SetState, serverVars, readerVars, history
<1>2. CASE \E t \in {"file", "url"} : SetURI(t)
  BY <1>2 DEF SetURI, serverVars, readerVars, history
<1>3. CASE \E n \in Intervals \cup {0}, l \in MetaSizes : Connected(n, l)
  <2>1. PICK n \in Intervals \cup {0}, l \in MetaSizes : Connected(n, l)
    BY <1>3
  <2>2. /\ interval' = n /\ stale' = (n = 0)
        /\ n # 0 => m_iMetaDataInterval' = n
    BY <2>1 DEF Connected
  <2>3. n \in Nat
    BY StreamReaderAssumption
  <2>4. ASSUME ~stale'
        PROVE  n # 0
    BY <2>2, <2>4, Zenon
  <2>5. QED
    BY <2>2, <2>3, <2>4
<1>4. CASE \E n \in Intervals \cup {0} : NotConnected(n)
  BY <1>4 DEF NotConnected
<1>5. CASE FileOpened
  BY <1>5 DEF FileOpened, serverVars
<1>6. CASE Delete
  BY <1>6 DEF Delete, CloseStream, serverVars, history
<1>7. CASE Hangup
  BY <1>7 DEF Hangup, streamVars, readerVars, history
<1>8. CASE \E k \in Sizes : Read(k)
  BY <1>8 DEF Read, streamVars, serverVars, history
<1>9. CASE SocketReadStep
  BY <1>9 DEF SocketReadStep, Recv, RecvNothing, RecvFails, streamVars, serverVars,
              readerVars, history
<1>10. CASE ReadStep
  BY <1>10 DEF ReadStep, PlainIsRead, AudioIsRead, LengthIsRead, TextIsRead, EndOfData,
               CloseStream, serverVars, history
<1>11. QED
  BY <1>1, <1>2, <1>3, <1>4, <1>5, <1>6, <1>7, <1>8, <1>9, <1>10 DEF Next

-----------------------------------------------------------------------------
(* The invariant is kept by each kind of step.                             *)

(* What the program around the reader does to it.                          *)
LEMMA OutsideStep ==
  ASSUME IInv,
         \/ \E s \in {"PLAY", "STOP"} : SetState(s)
         \/ \E t \in {"file", "url"} : SetURI(t)
         \/ \E n \in Intervals \cup {0}, l \in MetaSizes : Connected(n, l)
         \/ \E n \in Intervals \cup {0} : NotConnected(n)
         \/ FileOpened \/ Delete \/ Hangup
  PROVE  CleanInv'
<1> USE DEF IInv, CleanInv, Excused
<1>1. CASE \E s \in {"PLAY", "STOP"} : SetState(s)
  BY <1>1 DEF SetState, serverVars, readVars, readerVars, history, InStep, Together,
              Reading, AtIdle, InAudio, AtBlock, InBlock
<1>2. CASE \E t \in {"file", "url"} : SetURI(t)
  BY <1>2 DEF SetURI, serverVars, readVars, readerVars, history, InStep, Together,
              Reading, AtIdle, InAudio, AtBlock, InBlock
<1>3. CASE \E n \in Intervals \cup {0}, l \in MetaSizes : Connected(n, l)
  <2>1. PICK n \in Intervals \cup {0}, l \in MetaSizes : Connected(n, l)
    BY <1>3
  <2>2. pc' = "idle" /\ m_fdSocket' = "open" /\ mixed' = FALSE /\ stale' = (n = 0)
    BY <2>1 DEF Connected, NewReader
  <2>3. CASE n = 0
    BY <2>2, <2>3
  <2>4. CASE n # 0
    <3>1. n \in Nat /\ n > 0
      BY <2>4, StreamReaderAssumption
    <3>2. run' = 0 /\ pos' = 0 /\ interval' = n /\ m_iMetaDataInterval' = n
      BY <2>1, <2>4 DEF Connected, NewReader
    <3>3. InStep'
      BY <2>2, <3>1, <3>2 DEF InStep, Together, Reading, AtIdle
    <3>4. QED
      BY <2>2, <3>3
  <2>5. QED
    BY <2>3, <2>4
<1>4. CASE FileOpened
  <2>1. /\ pc' = "idle" /\ mixed' = FALSE /\ run' = 0 /\ m_fdSocket' = m_fdSocket
        /\ UNCHANGED <<stale, interval, pos, over, m_iMetaDataInterval>>
    BY <1>4 DEF FileOpened, NewReader, serverVars
  <2>2. ASSUME m_fdSocket = "open", ~stale, ~midway'
        PROVE  InStep'
    <3>1. pos = 0
      BY <1>4, <2>2, Zenon DEF FileOpened
    <3>2. interval \in Nat /\ interval > 0 /\ m_iMetaDataInterval = interval
      BY <2>2 DEF TypeOK, Known
    <3>3. QED
      BY <2>1, <3>1, <3>2 DEF InStep, Together, Reading, AtIdle
  <2>3. QED
    BY <2>1, <2>2
<1>5. CASE Delete
  BY <1>5 DEF Delete, CloseStream
<1>8. CASE \E n \in Intervals \cup {0} : NotConnected(n)
  BY <1>8 DEF NotConnected, readVars, history
<1>6. CASE Hangup
  BY <1>6 DEF Hangup, streamVars, readVars, readerVars, history, InStep
<1>7. QED
  BY <1>1, <1>2, <1>3, <1>4, <1>5, <1>6, <1>8

(* A Read starts with the audio up to the metadata, or with less.          *)
LEMMA ReadStart ==
  ASSUME IInv, NEW k \in Sizes, Read(k)
  PROVE  CleanInv'
<1> SUFFICES ASSUME m_State' = "OPEN"
             PROVE  /\ pc' # "none"
                    /\ m_fdSocket' = "bad" => ~mixed'
                    /\ m_fdSocket' = "open" => Excused' \/ InStep'
  BY DEF CleanInv
<1>1. /\ m_State = "OPEN" /\ m_fdSocket' = m_fdSocket /\ mixed' = mixed
      /\ Excused' = Excused /\ pc = "idle" /\ pc' = "recv"
  BY DEF Read, SocketRead, streamVars, history, Excused
<1>2. m_fdSocket' = "bad" => ~mixed'
  BY <1>1 DEF IInv, CleanInv
<1>3. ASSUME m_fdSocket = "open", ~Excused, ~over
      PROVE  Together'
  <2>1. InStep /\ AtIdle
    BY <1>1, <1>3 DEF IInv, CleanInv, InStep, Together
  <2>2. interval \in Nat /\ interval > 0 /\ run \in Int /\ m_iMetaDataInterval = interval
    BY <2>1 DEF IInv, TypeOK, InStep
  <2>3. Mod \in 0..interval - 1 /\ pos = Mod
    BY <2>1, <2>2, Remainder DEF Mod, AtIdle
  <2>4. k \in Nat \ {0}
    BY StreamReaderAssumption
  <2>5. run' = Mod /\ pos' = pos /\ interval' = interval /\ size' = 0
    BY DEF Read, SocketRead, serverVars
  <2>6. \/ k + Mod > interval /\ want' = interval - Mod /\ call' = "upto"
        \/ ~(k + Mod > interval) /\ want' = k /\ call' = "plain"
    BY <2>2 DEF Read, SocketRead
  <2>7. InAudio'
    BY <2>2, <2>3, <2>4, <2>5, <2>6 DEF InAudio
  <2>8. QED
    BY <1>1, <2>6, <2>7 DEF Together, Reading
<1>4. ASSUME m_fdSocket = "open", ~Excused
      PROVE  InStep'
  <2>1. InStep
    BY <1>1, <1>4 DEF IInv, CleanInv
  <2>2. UNCHANGED <<interval, m_iMetaDataInterval, over>>
    BY DEF Read, streamVars, serverVars
  <2>3. QED
    BY <1>1, <1>3, <1>4, <2>1, <2>2 DEF InStep
<1>5. QED
  BY <1>1, <1>2, <1>4 DEF IInv, TypeOK

(* What arrives is what the SocketRead under way takes it for.             *)
LEMMA RecvStep ==
  ASSUME IInv, NEW n \in 0..want - size, Recv(n)
  PROVE  CleanInv'
<1> SUFFICES ASSUME m_State = "OPEN", ~Excused
             PROVE  InStep'
  <2>1. /\ m_State' = m_State /\ Excused' = Excused /\ m_fdSocket' = "open"
        /\ pc' # "none"
    BY DEF Recv, Goes, streamVars, readerVars, Excused
  <2>2. QED
    BY <2>1 DEF CleanInv
<1>1. InStep /\ ~over /\ Together /\ pc = "recv" /\ Reading
  BY DEF IInv, CleanInv, Recv, InStep, Reading
<1>2. /\ n \in Nat /\ size' = size + n /\ n <= want - size
      /\ pos' = Advance(n) /\ (n > 0 \/ size = want)
      /\ mixed' = (mixed \/ (n > 0 /\ ~AsExpected(n)))
      /\ Goes(size' = want)
      /\ UNCHANGED <<streamVars, interval, length, over, call, want, got, run>>
  BY DEF Recv, readerVars, IInv, TypeOK
<1>3. /\ interval \in Nat /\ interval > 0 /\ pos \in Nat /\ size \in Int /\ want \in Int
      /\ Frame = interval + 1 + length * MetaUnit /\ length * MetaUnit \in Nat
      /\ run \in Int /\ got \in Int /\ bMetaDataSize \in Int
  BY <1>1, FrameSize DEF IInv, TypeOK, InStep
<1>4. pc' \in {"recv", "back"} /\ (size' = want => pc' = "back")
  BY <1>2 DEF Goes
<1>5. CASE call \in {"plain", "upto"}
  <2>1. InAudio
    BY <1>1, <1>5 DEF Together
  <2>2. pos + n <= interval
    BY <1>2, <1>3, <2>1 DEF InAudio
  <2>3. AsExpected(n)
    BY <1>5, <2>2 DEF AsExpected
  <2>4. Advance(n) = pos + n
    BY <1>2, <1>3, <2>2, AdvanceInFrame DEF IInv
  <2>5. InAudio'
    BY <1>2, <1>3, <2>1, <2>4 DEF InAudio
  <2>6. Together'
    BY <1>2, <1>4, <1>5, <2>5 DEF Together, Reading
  <2>7. QED
    BY <1>1, <1>2, <2>3, <2>6 DEF InStep, streamVars
<1>6. CASE call = "length"
  <2>1. AtBlock /\ want = 1 /\ size = 0 /\ pos = interval
    BY <1>1, <1>6 DEF Together, AtBlock
  <2>2. n = 1
    BY <1>2, <2>1
  <2>3. AsExpected(n)
    BY <1>3, <1>6, <2>1 DEF AsExpected
  <2>4. bMetaDataSize' = length
    BY <1>2, <1>6, <2>1, <2>2, <2>3 DEF Recv
  <2>5. Advance(n) = IF length * MetaUnit = 0 THEN 0 ELSE interval + 1
    BY <1>3, <2>1, <2>2, AdvanceInFrame DEF IInv
  <2>6. AtBlock'
    BY <1>2, <1>4, <2>1, <2>2, <2>4, <2>5 DEF AtBlock
  <2>7. Together'
    BY <1>2, <1>4, <1>6, <2>6 DEF Together, Reading
  <2>8. QED
    BY <1>1, <1>2, <2>3, <2>7 DEF InStep, streamVars
<1>7. CASE call = "text"
  <2>1. InBlock
    BY <1>1, <1>7 DEF Together
  <2>2. CASE n = 0
    <3>1. size = want /\ pos = 0 /\ Advance(n) = 0
      BY <1>2, <1>3, <2>1, <2>2, AdvanceInFrame DEF IInv, InBlock
    <3>2. InBlock'
      BY <1>2, <1>3, <2>1, <2>2, <3>1 DEF InBlock
    <3>3. Together'
      BY <1>2, <1>4, <1>7, <3>2 DEF Together, Reading
    <3>4. ~(n > 0)
      BY <2>2
    <3>5. ~mixed'
      BY <1>1, <1>2, <3>4, Zenon DEF InStep
    <3>6. QED
      BY <1>1, <1>2, <3>3, <3>5 DEF InStep, streamVars
  <2>3. CASE n > 0
    <3>1. size # want /\ pos = interval + 1 + size /\ pos + n <= Frame
      BY <1>2, <1>3, <2>1, <2>3 DEF InBlock
    <3>2. AsExpected(n)
      BY <1>3, <1>7, <2>1, <3>1 DEF AsExpected, InBlock
    <3>3. Advance(n) = IF pos + n = Frame THEN 0 ELSE pos + n
      BY <1>2, <1>3, <3>1, AdvanceInFrame DEF IInv
    <3>4. InBlock'
      BY <1>2, <1>3, <2>1, <3>1, <3>3 DEF InBlock
    <3>5. Together'
      BY <1>2, <1>4, <1>7, <3>4 DEF Together, Reading
    <3>6. QED
      BY <1>1, <1>2, <3>2, <3>5 DEF InStep, streamVars
  <2>4. QED
    BY <1>2, <2>2, <2>3
<1>8. QED
  BY <1>5, <1>6, <1>7 DEF IInv, TypeOK

(* A recv without data adds an excuse, or comes when nothing more can.     *)
LEMMA NoDataStep ==
  ASSUME IInv, RecvNothing \/ RecvFails
  PROVE  CleanInv'
<1>1. CASE RecvNothing
  BY <1>1 DEF RecvNothing, streamVars, serverVars, readerVars, history, IInv, CleanInv,
              Excused, InStep
<1>2. CASE RecvFails
  <2>1. m_State' = m_State /\ m_fdSocket' = m_fdSocket /\ mixed' = mixed
    BY <1>2 DEF RecvFails, streamVars, readerVars
  <2>2. m_fdSocket = "open" => failures' # 0
    BY <1>2, StreamReaderAssumption DEF RecvFails, IInv, TypeOK
  <2>3. pc' # "none"
    BY <1>2 DEF RecvFails, Goes
  <2>4. QED
    BY <2>1, <2>2, <2>3 DEF IInv, CleanInv, Excused
<1>3. QED
  BY <1>1, <1>2

(* Between the SocketReads; a short one closes the stream.                 *)
LEMMA BetweenStep ==
  ASSUME IInv, ReadStep
  PROVE  CleanInv'
<1> SUFFICES ASSUME m_State' = "OPEN"
             PROVE  /\ pc' # "none"
                    /\ m_fdSocket' = "bad" => ~mixed'
                    /\ m_fdSocket' = "open" => Excused' \/ InStep'
  BY DEF CleanInv
<1>1. /\ m_State = "OPEN" /\ m_fdSocket' = m_fdSocket /\ mixed' = mixed
      /\ pc = "back" /\ Reading /\ pc' \in {"recv", "idle"}
      /\ Excused => Excused'
      /\ UNCHANGED <<interval, length, pos, over, m_iMetaDataInterval>>
  <2>1. m_State = "OPEN" /\ m_fdSocket' = m_fdSocket
    BY DEF ReadStep, PlainIsRead, AudioIsRead, LengthIsRead, TextIsRead, EndOfData,
           CloseStream
  <2>2. mixed' = mixed /\ UNCHANGED <<failures, stale, midway>> /\ (edge => edge')
    <3>1. CASE PlainIsRead
      BY <3>1 DEF PlainIsRead
    <3>2. CASE AudioIsRead \/ LengthIsRead \/ TextIsRead
      BY <3>2 DEF AudioIsRead, LengthIsRead, TextIsRead, history
    <3>3. QED
      BY <3>1, <3>2 DEF ReadStep
  <2>3. pc = "back" /\ Reading /\ pc' \in {"recv", "idle"}
    BY DEF ReadStep, PlainIsRead, AudioIsRead, LengthIsRead, TextIsRead, SocketRead, Reading
  <2>4. UNCHANGED <<interval, length, pos, over, m_iMetaDataInterval>>
    BY DEF ReadStep, PlainIsRead, AudioIsRead, LengthIsRead, TextIsRead, serverVars
  <2>5. QED
    BY <2>1, <2>2, <2>3, <2>4 DEF Excused
<1>2. m_fdSocket' = "bad" => ~mixed'
  BY <1>1 DEF IInv, CleanInv
<1>3. ASSUME m_fdSocket = "open", ~Excused', ~over
      PROVE  Together'
  <2>1. InStep /\ Together
    BY <1>1, <1>3 DEF IInv, CleanInv, InStep
  <2>2. /\ interval \in Nat /\ interval > 0 /\ m_iMetaDataInterval = interval
        /\ run \in Int /\ size \in Int /\ want \in Int /\ got \in Int /\ pos \in Int
    BY <2>1 DEF IInv, TypeOK, InStep
  <2>3. CASE PlainIsRead
    <3>1. size = want /\ run' = run + size /\ pc' = "idle" /\ call = "plain"
      BY <1>1, <2>3 DEF PlainIsRead, EndOfData, CloseStream
    <3>2. ~(run + size = interval)
      BY <1>3, <2>2, <2>3, Zenon DEF PlainIsRead, Excused
    <3>3. InAudio
      BY <1>1, <2>1, <3>1 DEF Together
    <3>4. AtIdle'
      BY <1>1, <2>2, <3>1, <3>2, <3>3 DEF AtIdle, InAudio
    <3>5. QED
      BY <3>1, <3>4 DEF Together, Reading
  <2>4. CASE AudioIsRead
    <3>1. /\ size = want /\ run' = run /\ got' = size /\ call = "upto"
          /\ pc' = "recv" /\ call' = "length" /\ want' = 1 /\ size' = 0
      BY <1>1, <2>4 DEF AudioIsRead, EndOfData, CloseStream, SocketRead
    <3>2. InAudio
      BY <1>1, <2>1, <3>1 DEF Together
    <3>3. AtBlock'
      BY <1>1, <2>2, <3>1, <3>2 DEF AtBlock, InAudio
    <3>4. QED
      BY <3>1, <3>3 DEF Together, Reading
  <2>5. CASE LengthIsRead
    <3>1. call = "length" /\ AtBlock /\ size = 1 /\ size > 0
      BY <1>1, <2>1, <2>5 DEF LengthIsRead, Together, AtBlock
    <3>2. /\ pc' = "recv" /\ call' = "text" /\ size' = 0 /\ run' = run /\ got' = got
          /\ want' = bMetaDataSize * MetaUnit
      BY <2>5, <3>1 DEF LengthIsRead, SocketRead
    <3>3. want' = length * MetaUnit
      BY <1>1, <3>1, <3>2 DEF AtBlock
    <3>4. length * MetaUnit \in Nat
      BY FrameSize DEF IInv
    <3>5. InBlock'
      BY <1>1, <2>2, <3>1, <3>2, <3>3, <3>4 DEF AtBlock, InBlock
    <3>6. QED
      BY <3>2, <3>5 DEF Together, Reading
  <2>6. CASE TextIsRead
    <3>1. size = want /\ run' = run + got /\ pc' = "idle" /\ call = "text"
      BY <1>1, <2>6 DEF TextIsRead, EndOfData, CloseStream
    <3>2. InBlock
      BY <1>1, <2>1, <3>1 DEF Together
    <3>3. AtIdle'
      BY <1>1, <2>2, <3>1, <3>2 DEF AtIdle, InBlock
    <3>4. QED
      BY <3>1, <3>3 DEF Together, Reading
  <2>7. QED
    BY <2>3, <2>4, <2>5, <2>6 DEF ReadStep
<1>4. ASSUME m_fdSocket = "open", ~Excused'
      PROVE  InStep'
  <2>1. InStep
    BY <1>1, <1>4 DEF IInv, CleanInv
  <2>2. QED
    BY <1>1, <1>3, <1>4, <2>1 DEF InStep
<1>5. QED
  BY <1>1, <1>2, <1>4 DEF IInv, TypeOK

-----------------------------------------------------------------------------
(* The theorems.                                                           *)

LEMMA Inductive ==
  ASSUME IInv, [Next]_vars
  PROVE  IInv'
<1>1. TypeOK'
  BY TypeStep DEF IInv
<1>2. CASE Next
  <2>1. Known'
    BY <1>2, KnownStep
  <2>2. CASE \E k \in Sizes : Read(k)
    BY <1>1, <2>1, <2>2, ReadStart DEF IInv
  <2>3. CASE SocketReadStep
    BY <1>1, <2>1, <2>3, RecvStep, NoDataStep DEF SocketReadStep, IInv
  <2>4. CASE ReadStep
    BY <1>1, <2>1, <2>4, BetweenStep DEF IInv
  <2>5. QED
    BY <1>1, <1>2, <2>1, <2>2, <2>3, <2>4, OutsideStep DEF Next, IInv
<1>3. CASE UNCHANGED vars
  <2>1. (InStep <=> InStep') /\ (Excused <=> Excused')
    BY <1>3 DEF Excused, InStep, Together, Reading, AtIdle, InAudio, AtBlock, InBlock, vars,
                streamVars, serverVars, readVars, readerVars, history
  <2>2. UNCHANGED <<m_State, pc, m_fdSocket, mixed>>
    BY <1>3 DEF vars, streamVars, readVars, readerVars, history
  <2>3. CleanInv'
    BY <2>1, <2>2 DEF IInv, CleanInv
  <2>4. Known'
    BY <1>3 DEF IInv, Known, vars, streamVars, serverVars, readerVars, history
  <2>5. QED
    BY <1>1, <2>3, <2>4 DEF IInv
<1>4. QED
  BY <1>1, <1>2, <1>3 DEF IInv

LEMMA Invariance == Spec => []IInv
<1>1. Init => IInv
  <2> SUFFICES ASSUME Init
               PROVE  IInv
    OBVIOUS
  <2>1. TypeOK
    <3>1. /\ over \in BOOLEAN /\ stale \in BOOLEAN /\ midway \in BOOLEAN
          /\ edge \in BOOLEAN /\ mixed \in BOOLEAN
      BY DEF Init
    <3>2. QED
      BY <3>1, StreamReaderAssumption DEF Init, TypeOK
  <2>2. CleanInv /\ Known
    BY DEF Init, CleanInv, Known
  <2>3. QED
    BY <2>1, <2>2 DEF IInv
<1>2. QED
  BY <1>1, Inductive, PTL DEF Spec

(* The reader's variables keep their types.                                *)
THEOREM TypeCorrect == Spec => []TypeOK
<1>1. IInv => TypeOK
  BY DEF IInv
<1>2. QED
  BY <1>1, Invariance, PTL

(* Audio and metadata are told apart, whatever the intervals, the sizes    *)
(* that are asked for and the pieces in which they arrive.                 *)
THEOREM MetadataIsTakenOut == Spec => []Undamaged
<1>1. IInv => Undamaged
  BY DEF IInv, TypeOK, CleanInv, Excused, InStep, Undamaged
<1>2. QED
  BY <1>1, Invariance, PTL

=============================================================================
