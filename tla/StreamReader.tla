---------------------------- MODULE StreamReader ----------------------------
(***************************************************************************)
(* CPSPStreamReader (SharedLib/PSPApp/PSPStream.cpp): the decoder reads an *)
(* Internet radio stream through it.  The server puts a block of metadata  *)
(* behind every icy-metaint bytes of audio: a length byte, then sixteen    *)
(* times as many bytes of text.  Read has to take the blocks out, out of   *)
(* recv calls that return what has arrived, nothing at the end of the      *)
(* connection, or -1.  Meanwhile the main thread may stop playing or set   *)
(* another URI.                                                            *)
(*                                                                         *)
(* A byte is its position in the server's frame of audio and metadata.     *)
(***************************************************************************)
EXTENDS Integers

CONSTANTS
    Intervals,   \* values of icy-metaint that servers send
    Garbage,     \* what m_iMetaDataInterval may hold before any server sent one
    MetaSizes,   \* length bytes of metadata blocks
    MetaUnit,    \* bytes of text for one of the length byte (16)
    Sizes,       \* the decoder's SizeInBytes
    MaxFailures  \* bound: time-outs of one connection

(* A length byte of 128 or more would be negative in Read's signed char.   *)
(* Without a failure to count, one in state STOP would go unrecorded.      *)
ASSUME StreamReaderAssumption ==
    /\ Intervals \subseteq Nat \ {0}
    /\ Garbage \subseteq Nat
    /\ MetaSizes \subseteq 0..127
    /\ MetaUnit \in Nat \ {0}
    /\ Sizes \subseteq Nat \ {0}
    /\ MaxFailures \in Nat \ {0}

VARIABLES
    m_CurrentState, \* CPSPSound's: "PLAY" or "STOP"
    m_Type,         \* the stream: type of the URI set last, "file" or "url"
    m_State,        \* "OPEN" or "CLOSED"
    m_iMetaDataInterval,
    run,            \* the reader: m_iRunningCountModMetadataInterval
    m_fdSocket,     \* the stream's socket, which the reader copies: "open", or
                    \* "bad" when it was closed or never opened
    interval,       \* the server: its icy-metaint, 0 when it sends no metadata
    length,         \* length byte of its blocks
    pos,            \* place in its frame of the next byte to arrive
    over,           \* it has closed the connection
    pc,             \* Read: "none" (no reader), "idle", "recv" or "back"
    call,           \* its SocketRead: "plain", "upto", "length" or "text"
    want,           \* LengthInBytes of it
    size,           \* bytes SocketRead has counted, negative after failures
    got,            \* bytes of audio counted by this Read
    bMetaDataSize,
    failures,       \* history: how often recv has returned -1
    stale,          \* history: m_iMetaDataInterval is not this server's
    edge,           \* history: a Read has ended just where metadata began
    midway,         \* history: the reader began in the middle of a frame
    mixed           \* history: audio and metadata were taken for each other

streamVars == <<m_CurrentState, m_Type, m_State, m_iMetaDataInterval>>
serverVars == <<interval, length, pos, over>>
readVars   == <<pc, call, want, size, got, bMetaDataSize>>
readerVars == <<run, m_fdSocket>>
history    == <<failures, stale, edge, midway, mixed>>
vars == <<streamVars, serverVars, readVars, readerVars, history>>

Init ==
    /\ m_CurrentState = "STOP"
    /\ m_Type = "file"
    /\ m_State = "CLOSED"
    /\ m_iMetaDataInterval \in Garbage
    /\ run = 0 /\ m_fdSocket = "bad"
    /\ interval = 0 /\ length = 0 /\ pos = 0 /\ over = FALSE
    /\ pc = "none" /\ call = "plain" /\ want = 0 /\ size = 0
    /\ got = 0 /\ bMetaDataSize = 0
    /\ failures = 0 /\ stale = FALSE /\ edge = FALSE /\ midway = FALSE /\ mixed = FALSE

-----------------------------------------------------------------------------
(* The rest of the program.                                                *)

(* Play or Stop on the main thread; SetURI there, before Play's START is   *)
(* handled.                                                                *)
SetState(s) ==
    /\ m_CurrentState # s
    /\ m_CurrentState' = s
    /\ UNCHANGED <<m_Type, m_State, m_iMetaDataInterval, serverVars, readVars,
                   readerVars, history>>

SetURI(t) ==
    /\ m_Type # t
    /\ m_Type' = t
    /\ UNCHANGED <<m_CurrentState, m_State, m_iMetaDataInterval, serverVars, readVars,
                   readerVars, history>>

(* A reader is made for the stream that Open has opened.                   *)
NewReader ==
    /\ pc = "none"
    /\ pc' = "idle"
    /\ m_State' = "OPEN"
    /\ run' = 0
    /\ failures' = 0 /\ edge' = FALSE /\ mixed' = FALSE
    /\ UNCHANGED <<m_CurrentState, m_Type, call, want, size, got, bMetaDataSize>>

(* The header sets the interval when the server names one, else it stays.  *)
Connected(n, l) ==
    /\ m_Type = "url"
    /\ m_iMetaDataInterval' = IF n = 0 THEN m_iMetaDataInterval ELSE n
    /\ interval' = n /\ length' = l /\ pos' = 0 /\ over' = FALSE
    /\ stale' = (n = 0)
    /\ m_fdSocket' = "open"
    /\ midway' = FALSE
    /\ NewReader

(* A failure comes before or after a header with an interval in it.        *)
NotConnected(n) ==
    /\ pc = "none"
    /\ m_Type = "url"
    /\ m_fdSocket' = "bad"
    /\ m_iMetaDataInterval' = IF n = 0 THEN m_iMetaDataInterval ELSE n
    /\ UNCHANGED <<m_CurrentState, m_Type, m_State, serverVars, readVars, run, history>>

(* The reader of a file copies the descriptor of a connection that Close   *)
(* has left open, with whatever of it was read.                            *)
FileOpened ==
    /\ m_Type = "file"
    /\ midway' = (m_fdSocket = "open" /\ pos # 0)
    /\ NewReader
    /\ UNCHANGED <<m_iMetaDataInterval, serverVars, m_fdSocket, stale>>

(* ~CPSPStreamReader, when the decoder is deleted.  Of file and socket,    *)
(* Close closes the one that goes with the URI set last.                   *)
CloseStream ==
    /\ m_State' = "CLOSED"
    /\ m_fdSocket' = IF m_State = "OPEN" /\ m_Type = "url" THEN "bad" ELSE m_fdSocket

Delete ==
    /\ pc = "idle"
    /\ pc' = "none"
    /\ CloseStream
    /\ UNCHANGED <<m_CurrentState, m_Type, m_iMetaDataInterval, serverVars, call, want,
                   size, got, bMetaDataSize, run, history>>

(* The server ends the connection.                                         *)
Hangup ==
    /\ m_fdSocket = "open"
    /\ ~over
    /\ over' = TRUE
    /\ UNCHANGED <<streamVars, interval, length, pos, readVars, readerVars, history>>

-----------------------------------------------------------------------------
(* SocketRead.                                                             *)

SocketRead(c, n) ==
    /\ pc' = "recv"
    /\ call' = c
    /\ want' = n
    /\ size' = 0

Frame == interval + 1 + length * MetaUnit

(* Where the next byte is in the frame when n more have arrived.           *)
Advance(n) ==
    IF interval = 0 THEN 0
    ELSE IF pos + n < Frame THEN pos + n ELSE (pos + n) % Frame

(* Are the next n bytes what this call takes them for?                     *)
AsExpected(n) ==
    CASE call \in {"plain", "upto"} -> interval = 0 \/ pos + n <= interval
      [] call = "length" -> interval # 0 /\ pos = interval /\ size = 0
      [] call = "text"   -> interval # 0 /\ pos > interval /\ pos + n <= Frame

(* Mutant: SocketRead does not look at the state.                          *)
GoesOn(done) == pc' = IF done THEN "back" ELSE "recv"

(* After a recv: done, or given up in state STOP, or once more.  (That the *)
(* program is exiting, which nobody stops playing for, is left out.)       *)
Goes(done) == pc' = IF done \/ m_CurrentState = "STOP" THEN "back" ELSE "recv"

Recv(n) ==
    /\ pc = "recv"
    /\ m_fdSocket = "open" /\ ~over
    /\ (n > 0 \/ size = want)
    /\ size' = size + n
    /\ Goes(size' = want)
    /\ pos' = Advance(n)
    /\ mixed' = (mixed \/ (n > 0 /\ ~AsExpected(n)))
    /\ IF call = "length" /\ size' > 0
       THEN bMetaDataSize' \in IF AsExpected(n) THEN {length} ELSE MetaSizes
       ELSE UNCHANGED bMetaDataSize
    /\ UNCHANGED <<streamVars, interval, length, over, call, want, got, readerVars,
                   failures, stale, edge, midway>>

(* Mutant: SocketRead tries again.                                         *)
RetryOnNothing ==
    /\ pc = "recv"
    /\ m_fdSocket = "open" /\ over
    /\ UNCHANGED vars

(* recv returns 0: "Connection Reset by Peer!"                             *)
RecvNothing ==
    /\ pc = "recv"
    /\ m_fdSocket = "open" /\ over
    /\ pc' = "back"
    /\ UNCHANGED <<streamVars, serverVars, call, want, size, got, bMetaDataSize,
                   readerVars, history>>

(* recv returns -1, which counts as a byte less.  On a bad descriptor it   *)
(* does so every time; that after 2^32 times the count has come round is   *)
(* left out, and -1 stands for all the counts before.                      *)
RecvFails ==
    /\ pc = "recv"
    /\ \/ /\ m_fdSocket = "open" /\ ~over
          /\ \/ failures < MaxFailures /\ failures' = failures + 1
             \/ failures >= MaxFailures /\ m_CurrentState = "STOP" /\ UNCHANGED failures
          /\ size' = size - 1
       \/ /\ m_fdSocket = "bad"
          /\ size' = -1
          /\ failures' = IF failures = 0 THEN 1 ELSE failures
    /\ Goes(FALSE)
    /\ UNCHANGED <<streamVars, serverVars, call, want, got, bMetaDataSize, readerVars,
                   stale, edge, midway, mixed>>

-----------------------------------------------------------------------------
(* Read, of a URL; a file's is BstdRead.                                   *)

(* Mutant: the running count is not reduced.                               *)
Unreduced == run

Mod == IF m_iMetaDataInterval # 0 THEN run % m_iMetaDataInterval ELSE run

(* What is asked for does not reach beyond the next metadata: read that.   *)
(* Else read up to the metadata, which is read next.  The subtraction is   *)
(* one of size_t; with no interval at all nothing is read.                 *)
Read(k) ==
    /\ pc = "idle"
    /\ m_State = "OPEN" /\ m_Type = "url"
    /\ run' = Mod
    /\ IF k + Mod > m_iMetaDataInterval
       THEN SocketRead("upto", m_iMetaDataInterval - Mod)
       ELSE SocketRead("plain", k)
    /\ UNCHANGED <<streamVars, serverVars, got, bMetaDataSize, m_fdSocket, history>>

(* A SocketRead that was short closes the stream.  m_eof is set as well,   *)
(* which nobody sees: IsEOF looks at it only while the stream is open.     *)
EndOfData(short) ==
    IF short THEN CloseStream ELSE UNCHANGED <<m_State, m_fdSocket>>

PlainIsRead ==
    /\ pc = "back" /\ call = "plain"
    /\ pc' = "idle"
    /\ got' = size
    /\ EndOfData(size # want)
    /\ run' = IF size # want THEN size ELSE run + size
    /\ edge' = (edge \/ run + size = m_iMetaDataInterval)
    /\ UNCHANGED <<m_CurrentState, m_Type, m_iMetaDataInterval, serverVars, call, want,
                   size, bMetaDataSize, failures, stale, midway, mixed>>

(* The length byte is read even when the audio was short.                  *)
AudioIsRead ==
    /\ pc = "back" /\ call = "upto"
    /\ got' = size
    /\ SocketRead("length", 1)
    /\ bMetaDataSize' = 0
    /\ EndOfData(size # want)
    /\ run' = IF size # want THEN 0 ELSE run
    /\ UNCHANGED <<m_CurrentState, m_Type, m_iMetaDataInterval, serverVars, history>>

(* Without a length byte its variable is still 0, which is what recv       *)
(* returned when the connection was over: that passes for no new metadata. *)
LengthIsRead ==
    /\ pc = "back" /\ call = "length"
    /\ IF size > 0
       THEN /\ SocketRead("text", bMetaDataSize * MetaUnit)
            /\ UNCHANGED <<m_State, m_fdSocket, run>>
       ELSE /\ pc' = "idle"
            /\ EndOfData(size # bMetaDataSize * MetaUnit)
            /\ run' = IF size # bMetaDataSize * MetaUnit THEN got ELSE run + got
            /\ UNCHANGED <<call, want, size>>
    /\ UNCHANGED <<m_CurrentState, m_Type, m_iMetaDataInterval, serverVars, got,
                   bMetaDataSize, history>>

TextIsRead ==
    /\ pc = "back" /\ call = "text"
    /\ pc' = "idle"
    /\ EndOfData(size # want)
    /\ run' = IF size # want THEN got ELSE run + got
    /\ UNCHANGED <<m_CurrentState, m_Type, m_iMetaDataInterval, serverVars, call, want,
                   size, got, bMetaDataSize, history>>

SocketReadStep ==
    \/ \E n \in 0..want - size : Recv(n)
    \/ RecvNothing \/ RecvFails

ReadStep == PlainIsRead \/ AudioIsRead \/ LengthIsRead \/ TextIsRead

Next ==
    \/ \E s \in {"PLAY", "STOP"} : SetState(s)
    \/ \E t \in {"file", "url"} : SetURI(t)
    \/ \E n \in Intervals \cup {0}, l \in MetaSizes : Connected(n, l)
    \/ \E n \in Intervals \cup {0} : NotConnected(n)
    \/ FileOpened \/ Delete \/ Hangup
    \/ \E k \in Sizes : Read(k)
    \/ SocketReadStep \/ ReadStep

Spec == Init /\ [][Next]_vars

(* recv returns: it has a time-out, data or the end of the connection; and *)
(* the decode thread runs.  Nothing makes the decoder read or a user act.  *)
FairSpec == Spec /\ WF_vars(SocketReadStep) /\ WF_vars(ReadStep)

-----------------------------------------------------------------------------

(* The values of the variables: sizes fall below 0 when recv fails.        *)
TypeOK ==
    /\ m_CurrentState \in {"PLAY", "STOP"}
    /\ m_Type \in {"file", "url"}
    /\ m_State \in {"OPEN", "CLOSED"}
    /\ m_iMetaDataInterval \in Nat
    /\ run \in Int
    /\ m_fdSocket \in {"open", "bad"}
    /\ interval \in Nat /\ length \in 0..127 /\ pos \in Nat /\ over \in BOOLEAN
    /\ pc \in {"none", "idle", "recv", "back"}
    /\ call \in {"plain", "upto", "length", "text"}
    /\ want \in Int /\ size \in Int /\ got \in Int
    /\ bMetaDataSize \in 0..127
    /\ failures \in Nat
    /\ stale \in BOOLEAN /\ edge \in BOOLEAN /\ midway \in BOOLEAN /\ mixed \in BOOLEAN

(* As long as the stream is open, recv has not failed, the interval is     *)
(* that of this server, no Read has ended just where metadata began and    *)
(* the reader has not been made for a file on a connection that was left   *)
(* in the middle of a frame, no metadata has been returned as audio and no *)
(* audio taken for metadata, however recv cuts the bytes up and whenever   *)
(* the stream is stopped or gets another URI (Read's running count and the *)
(* server's frame stay in step).                                           *)
Undamaged ==
    m_State = "OPEN" /\ failures = 0 /\ ~stale /\ ~edge /\ ~midway => ~mixed

Reading == pc \in {"recv", "back"}

(* Stop ends a Read in any of its SocketReads, on a silent server and on a *)
(* descriptor that has been closed, so that the decode thread comes to its *)
(* next event.                                                             *)
StopEndsRead ==
    m_CurrentState = "STOP" /\ Reading ~> m_CurrentState = "PLAY" \/ ~Reading

(* The end of the connection ends a Read, unless Read has closed the       *)
(* socket itself and goes on to read the length byte from it: that lasts   *)
(* until the user stops.                                                   *)
EndEndsRead ==
    over /\ m_fdSocket = "open" /\ Reading ~> m_fdSocket = "bad" \/ ~Reading

=============================================================================
