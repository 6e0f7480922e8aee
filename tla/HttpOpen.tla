------------------------------ MODULE HttpOpen ------------------------------
(***************************************************************************)
(* CPSPStream::http_open (SharedLib/PSPApp/httpget.cpp) as the decode      *)
(* thread runs it for a stream with a URL: find the host, connect with a   *)
(* time-out, send the request, read the status and the header line by      *)
(* line, and start again at another address when the server says so.       *)
(* Servers answer what they like or not at all, and close or lose the      *)
(* connection at any time; the program may begin to exit at any time.      *)
(*                                                                         *)
(* A line is its meaning.  Through a proxy or not, the control is the      *)
(* same: a failure to set up the first request is a choice.                *)
(***************************************************************************)
EXTENDS Integers

CONSTANTS
    Sockets,      \* descriptors that the network stack has to give
    NoFD,         \* -1, no descriptor
    Relocations,  \* how often a server may send the client on (5)
    Ticks         \* seconds that ConnectWithTimeout waits (5)

ASSUME HttpOpenAssumption ==
    /\ NoFD \notin Sockets
    /\ Relocations \in Nat
    /\ Ticks \in Nat

VARIABLES
    exiting,      \* m_Exit of the application
    open,         \* descriptors that are open
    m_fdSocket,   \* the stream's descriptor
    phase,        \* of http_open; "idle" outside of it
    sock,         \* its descriptor
    ticks,        \* tries of ConnectWithTimeout
    relocate,     \* the last status was 3xx
    purl,         \* there is an address to go on to
    numrelocs,
    rest,         \* what the server's side of this connection has to give:
                  \* "lines", a "piece" of one when it was closed or broken,
                  \* or "nothing" behind that
    up,           \* history: this connection was made
    status,       \* history: what was read as its status
    connections   \* history: sockets this call has opened

local   == <<sock, ticks, relocate, purl, numrelocs>>
heard == <<up, status, connections>>
openVars == <<exiting, open, m_fdSocket, phase, local, rest, heard>>

(* What the digit after the first space of a status line says; a line      *)
(* without a space is "plain", and none at all is "empty".                 *)
Statuses == {"ok", "moved", "bad", "plain"}

OpenInit ==
    /\ exiting = FALSE
    /\ open = {}
    /\ m_fdSocket = NoFD
    /\ phase = "idle"
    /\ sock = NoFD /\ ticks = 0 /\ relocate = FALSE /\ purl = FALSE
    /\ numrelocs = 0
    /\ rest = "lines"
    /\ up = FALSE /\ status = "unread" /\ connections = 0

-----------------------------------------------------------------------------
(* Outside of http_open.                                                   *)

Exit ==
    /\ ~exiting
    /\ exiting' = TRUE
    /\ UNCHANGED <<open, m_fdSocket, phase, local, rest, heard>>

CloseSocket ==
    /\ open' = open \ {m_fdSocket}
    /\ m_fdSocket' = NoFD

Close ==
    /\ phase = "idle"
    /\ m_fdSocket # NoFD
    /\ CloseSocket
    /\ UNCHANGED <<exiting, phase, local, rest, heard>>

(* Closed or broken: recv has nothing more, or an error that is no         *)
(* time-out.                                                               *)
Hangup ==
    /\ rest = "lines"
    /\ phase \in {"send", "status", "header", "line"}
    /\ rest' \in {"piece", "nothing"}
    /\ UNCHANGED <<exiting, open, m_fdSocket, phase, local, heard>>

-----------------------------------------------------------------------------
(* http_open.                                                              *)

(* The end of a call, with the descriptor that it returns.                 *)
Return(s) ==
    /\ phase' = "idle"
    /\ m_fdSocket' = s
    /\ sock' = NoFD
    /\ rest' = "lines"
    /\ UNCHANGED <<ticks, relocate, purl, numrelocs>>

(* Open closes what is still open and calls http_open.                     *)
Begin ==
    /\ phase = "idle"
    /\ CloseSocket
    /\ phase' = "resolve"
    /\ sock' = NoFD /\ ticks' = 0 /\ relocate' = FALSE /\ purl' = TRUE
    /\ numrelocs' = 0
    /\ up' = FALSE /\ status' = "unread" /\ connections' = 0
    /\ UNCHANGED <<exiting, rest>>

(* No memory, an address without a host, an unknown proxy, ftp without     *)
(* one, or a host that is not found.                                       *)
NotResolved ==
    /\ phase = "resolve"
    /\ Return(NoFD)
    /\ UNCHANGED <<exiting, open, heard>>

Resolve ==
    /\ phase = "resolve"
    /\ phase' = "socket"
    /\ UNCHANGED <<exiting, open, m_fdSocket, local, rest, heard>>

NoSocket ==
    /\ phase = "socket"
    /\ Return(NoFD)
    /\ UNCHANGED <<exiting, open, heard>>

(* When the program exits the new descriptor is dropped as it is.          *)
Socket(s) ==
    /\ phase = "socket"
    /\ s \notin open
    /\ open' = open \cup {s}
    /\ up' = FALSE /\ status' = "unread" /\ connections' = connections + 1
    /\ IF exiting
       THEN Return(NoFD)
       ELSE /\ phase' = "connect"
            /\ sock' = s /\ ticks' = 0 /\ rest' = "lines"
            /\ UNCHANGED <<m_fdSocket, relocate, purl, numrelocs>>
    /\ UNCHANGED exiting

Connected ==
    /\ phase = "connect"
    /\ phase' = "send"
    /\ up' = TRUE
    /\ UNCHANGED <<exiting, open, m_fdSocket, local, rest, status, connections>>

(* Still in progress: try again after a second.                            *)
Progress ==
    /\ phase = "connect"
    /\ ticks < Ticks
    /\ ticks' = ticks + 1
    /\ UNCHANGED <<exiting, open, m_fdSocket, phase, sock, relocate, purl,
                   numrelocs, rest, heard>>

(* Mutant: the descriptor is not closed.                                   *)
NotConnectedLeft ==
    /\ phase = "connect"
    /\ ticks \in {0, Ticks}
    /\ Return(NoFD)
    /\ UNCHANGED <<exiting, open, heard>>

(* Refused at once, or not made by the last try.                           *)
NotConnected ==
    /\ phase = "connect"
    /\ ticks \in {0, Ticks}
    /\ open' = open \ {sock}
    /\ Return(NoFD)
    /\ UNCHANGED <<exiting, heard>>

(* writestring gives up on an error, which is not looked at.               *)
SendRequest ==
    /\ phase = "send"
    /\ IF exiting
       THEN Return(NoFD)
       ELSE /\ phase' = "status"
            /\ relocate' = FALSE /\ purl' = FALSE
            /\ UNCHANGED <<m_fdSocket, sock, ticks, numrelocs, rest>>
    /\ UNCHANGED <<exiting, open, heard>>

(* What readstring comes back with: a line, a piece that stands where the  *)
(* connection or the program ended, or nothing.                            *)
Whole == rest = "lines"
Piece == rest = "piece" \/ (exiting /\ rest = "lines")

(* Mutant: the end of the connection is taken for a time-out.              *)
NothingRetried == exiting /\ rest = "lines"

Nothing == rest = "nothing" \/ (exiting /\ rest = "lines")

Read == rest' = IF rest = "piece" THEN "nothing" ELSE rest

GotStatus(l) ==
    /\ phase = "status"
    /\ phase' = "header"
    /\ status' = l
    /\ relocate' = (l = "moved")
    /\ Read
    /\ UNCHANGED <<exiting, open, m_fdSocket, sock, ticks, purl, numrelocs,
                   up, connections>>

Refused(l) ==
    /\ phase = "status"
    /\ status' = l
    /\ Return(NoFD)
    /\ UNCHANGED <<exiting, open, up, connections>>

(* Mutant: an error is no reason to stop.                                  *)
StatusIgnored(l) == IF l = "empty" THEN Refused(l) ELSE GotStatus(l)

Status(l) == IF l \in {"ok", "moved", "plain"} THEN GotStatus(l) ELSE Refused(l)

ReadStatus == Whole /\ \E l \in Statuses : Status(l)

(* A piece is not terminated: behind it stands the rest of the request,    *)
(* whose own spaces make a status without one a bad one.                   *)
StatusEnds ==
    \/ Piece /\ \E l \in Statuses \ {"plain"} : Status(l)
    \/ Nothing /\ Status("empty")

NextLine ==
    /\ phase = "header"
    /\ IF exiting
       THEN Return(NoFD)
       ELSE /\ phase' = "line"
            /\ UNCHANGED <<m_fdSocket, local, rest>>
    /\ UNCHANGED <<exiting, open, heard>>

Header ==
    /\ phase = "line"
    /\ phase' = "header"
    /\ Read
    /\ UNCHANGED <<exiting, open, m_fdSocket, sock, ticks, relocate,
                   numrelocs, heard>>

(* A whole line may be a Location, which always leaves an address, be it   *)
(* the end of the line.                                                    *)
HeaderLine == Whole /\ Header /\ purl' \in {purl, TRUE}

HeaderEnds ==
    /\ \/ Piece /\ purl' \in BOOLEAN
       \/ Nothing /\ UNCHANGED purl
    /\ Header

(* The empty line: go on to another address, or to the end.  The old       *)
(* descriptor is overwritten.                                              *)
Relocate ==
    /\ relocate /\ purl /\ numrelocs < Relocations
    /\ numrelocs' = numrelocs + 1
    /\ phase' = "resolve"
    /\ sock' = NoFD
    /\ rest' = "lines"
    /\ UNCHANGED <<m_fdSocket, ticks, relocate, purl>>

TooMany ==
    /\ relocate /\ (purl => numrelocs >= Relocations)
    /\ Return(NoFD)

Opened ==
    /\ ~relocate
    /\ Return(sock)

AtBlank ==
    /\ phase = "line"
    /\ Relocate \/ TooMany \/ Opened
    /\ UNCHANGED <<exiting, open, heard>>

BlankLine == Whole /\ AtBlank
BlankEnds == Piece /\ AtBlank

-----------------------------------------------------------------------------
(* What the thread does of itself, and what it needs the server for.       *)
Own ==
    \/ NotResolved \/ Resolve \/ NoSocket
    \/ \E s \in Sockets : Socket(s)
    \/ Connected \/ Progress \/ NotConnected
    \/ SendRequest \/ StatusEnds \/ NextLine \/ HeaderEnds \/ BlankEnds

Answered == ReadStatus \/ HeaderLine \/ BlankLine

OpenNext == Exit \/ Close \/ Hangup \/ Begin \/ Own \/ Answered

OpenSpec == OpenInit /\ [][OpenNext]_openVars

(* The thread is scheduled, and recv returns after three seconds at most.  *)
(* That a server answers or hangs up is not assumed.                       *)
OpenFairSpec == OpenSpec /\ WF_openVars(Own)

-----------------------------------------------------------------------------
OpenTypeOK ==
    /\ exiting \in BOOLEAN
    /\ open \subseteq Sockets
    /\ m_fdSocket \in Sockets \cup {NoFD}
    /\ phase \in {"idle", "resolve", "socket", "connect", "send", "status",
              "header", "line"}
    /\ sock \in Sockets \cup {NoFD}
    /\ ticks \in 0..Ticks
    /\ relocate \in BOOLEAN /\ purl \in BOOLEAN
    /\ numrelocs \in 0..Relocations
    /\ rest \in {"lines", "piece", "nothing"}
    /\ up \in BOOLEAN
    /\ status \in Statuses \cup {"unread", "empty"}
    /\ connections \in Nat

(* The descriptor that http_open has returned is open and connected, and   *)
(* the server behind it has taken the request: not one that refused it,    *)
(* that did not answer or that has sent the program elsewhere.             *)
ReturnedIsAnswered ==
    m_fdSocket # NoFD =>
        /\ m_fdSocket \in open
        /\ up
        /\ status \in {"ok", "plain"}

(* Servers that send the program to each other do not keep it for ever.    *)
BoundedConnections == connections <= Relocations + 1

(* Open descriptors that neither http_open nor the stream knows of.        *)
Lost == open \ {sock, m_fdSocket}

(* http_open loses descriptors, but only when the program ends, when the   *)
(* server has answered with an error or not at all, and when it has moved: *)
(* not when the host, a descriptor or the connection fails.                *)
LossesAreNamed ==
    [][Lost' \subseteq Lost
       \/ exiting
       \/ status' \in {"bad", "empty", "moved"}]_openVars

(* When the server has hung up a call ends, unless it was in the header:   *)
(* there each further line is empty and none is the blank one.             *)
HangupEndsOpen == rest # "lines" ~> phase \in {"idle", "header", "line"}

=============================================================================
