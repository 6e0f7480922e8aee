------------------------------ MODULE FtpServer ------------------------------
(***************************************************************************)
(* The FTP server plugin (Plugins/FSServer_FTPD: ftp_main.cpp, ftp.cpp).   *)
(* One thread listens, accepts a client and serves its commands itself.    *)
(* The client sends what it likes, makes data connections or does not, and *)
(* leaves at any time.  The network stack gives any descriptor that is     *)
(* free, or none.                                                          *)
(*                                                                         *)
(* Abstracted: what is in files, directories, paths and replies.  A reply  *)
(* is preliminary (1xx) or final; commands that only differ in the wording *)
(* of one final reply are one action.  The current directory is FtpPaths.  *)
(***************************************************************************)
EXTENDS Integers, FiniteSets

CONSTANTS
    MaxFd,      \* the highest descriptor
    PortSpan,   \* port numbers, those of an unsigned short (65536)
    FtpPort,    \* where the server listens (21)
    FirstPort   \* the first passive port (59735)

ASSUME FtpServerAssumption ==
    /\ MaxFd \in Nat
    /\ PortSpan \in Nat /\ FtpPort \in 1..PortSpan - 1
    /\ FirstPort \in 0..PortSpan - 1

FDs   == 0..MaxFd
Ports == 0..PortSpan - 1
None  == -1     \* no descriptor, no port

VARIABLES
    use,          \* what each descriptor is open for
    listens,      \* the port it listens at
    knocks,       \* listening descriptors a client has connected to
    sockListen,
    comSocket, dataSocket, pasvSocket, usePASV,
    port_port,    \* PORT has given an address
    pasvPort,
    user, userLoggedIn,
    pc,           \* where the thread is; "gone" when it was deleted,
                  \* "ended" when it has left the loop
    notified,     \* PSPRadio was told that the plugin exits
    client,       \* "none", "up" or "left"
    told,         \* the port a 227 named and the client has not tried yet
    due,          \* history: final replies the last command is to have
    prelims,      \* history: its preliminary replies
    finals,       \* history: its final replies
    deaf,         \* history: the last PASV could not listen
    asked         \* history: the passive connection asked for last is
                  \* "used" or "open"; "lost" once one was asked for while
                  \* another was open, or the client could not be reached

sockets == <<use, listens, knocks>>
login   == <<user, userLoggedIn>>
session == <<comSocket, dataSocket, pasvSocket, usePASV, port_port>>
replies == <<prelims, finals>>
history == <<due, replies, deaf, asked>>
vars == <<sockets, sockListen, session, pasvPort, login, pc, notified, client,
          told, history>>

Transfers == {"LIST", "NLST", "RETR", "STOR"}

Restricted ==
    Transfers \cup {"PASV", "PWD", "CWD", "CDUP", "SIZE", "DELE", "RMD", "MKD",
                    "TYPE", "SYST", "NOOP"}

(* The final replies to a command: the two helps have one too many, an     *)
(* empty line none.                                                        *)
Due(c) == IF c \in {"HELP", "SITE HELP"} THEN 2 ELSE IF c = "blank" THEN 0 ELSE 1

InSession == pc \in {"recv", "passive", "data", "transfer"}

Init ==
    /\ use = [f \in FDs |-> IF f = 0 THEN "std" ELSE "free"]
    /\ listens = [f \in FDs |-> None]
    /\ knocks = {}
    /\ sockListen = None
    /\ comSocket = None /\ dataSocket = 0 /\ pasvSocket = 0
    /\ usePASV = FALSE /\ port_port = FALSE
    /\ pasvPort = FirstPort
    /\ user = "" /\ userLoggedIn = FALSE
    /\ pc = "listen"
    /\ notified = FALSE
    /\ client = "none"
    /\ told = None
    /\ due = 0 /\ prelims = 0 /\ finals = 0
    /\ deaf = FALSE /\ asked = "used"

-----------------------------------------------------------------------------
(* Descriptors.                                                            *)

Free == {f \in FDs : use[f] = "free"}

Open(f, as) == use' = [use EXCEPT ![f] = as]

(* close() of each of S; of one that is not open it is an error.           *)
CloseAll(S) ==
    /\ use' = [f \in FDs |-> IF f \in S THEN "free" ELSE use[f]]
    /\ listens' = [f \in FDs |-> IF f \in S THEN None ELSE listens[f]]
    /\ knocks' = knocks \ S

Taken == {listens[f] : f \in FDs}

(* Mutant: the number is counted up before it is used.                     *)
BindableNext(p) == {(p + 1) % PortSpan} \ Taken

(* The ports that bind() may give for p: 0 asks for any.                   *)
Bindable(p) == IF p = 0 THEN Ports \ (Taken \cup {0}) ELSE {p} \ Taken

-----------------------------------------------------------------------------
(* ftpdLoop.                                                               *)

LeaveLoop(S) ==
    /\ CloseAll(S)
    /\ pc' = "ended"
    /\ notified' = TRUE

Listen ==
    /\ pc = "listen"
    /\ \/ \E f \in Free :
            /\ Open(f, "listen")
            /\ listens' = [listens EXCEPT ![f] = FtpPort]
            /\ sockListen' = f
            /\ pc' = "accept"
            /\ UNCHANGED <<knocks, notified>>
       \/ LeaveLoop({}) /\ UNCHANGED sockListen
    /\ UNCHANGED <<session, pasvPort, login, client, told, history>>

(* accept(), and the start of mftpClientHandler with its greeting.         *)
Accept ==
    /\ pc = "accept"
    /\ \E f \in Free :
          /\ Open(f, "com")
          /\ comSocket' = f
    /\ dataSocket' = 0 /\ pasvSocket' = 0
    /\ usePASV' = FALSE /\ port_port' = FALSE
    /\ user' = "" /\ userLoggedIn' = FALSE
    /\ client' = "up"
    /\ pc' = "recv"
    /\ UNCHANGED <<listens, knocks, sockListen, pasvPort, notified, told, history>>

(* There is no memory for the connection.                                  *)
AcceptNoMemory ==
    /\ pc = "accept"
    /\ \E f \in Free : Open(f, "com")
    /\ UNCHANGED <<listens, knocks, sockListen, session, pasvPort, login, pc,
                   notified, client, told, history>>

AcceptFails ==
    /\ pc = "accept"
    /\ LeaveLoop({sockListen})
    /\ UNCHANGED <<sockListen, session, pasvPort, login, client, told, history>>

-----------------------------------------------------------------------------
(* mftpClientHandler: a line of the client is a command.                   *)

Reply(p, n) == prelims' = p /\ finals' = n

Receive(c) ==
    /\ pc = "recv"
    /\ client = "up"
    /\ due' = Due(c)

(* mftpRestrictedCommand: 530.                                             *)
LoginFirst ==
    /\ ~userLoggedIn
    /\ \E c \in Restricted : Receive(c)
    /\ Reply(0, 1)
    /\ UNCHANGED <<sockets, sockListen, session, pasvPort, login, pc, notified,
                   client, told, deaf, asked>>

(* Commands that work on files, or on nothing, and always have an answer.  *)
Answer ==
    /\ \E c \in (IF userLoggedIn THEN Restricted \ (Transfers \cup {"PASV"}) ELSE {})
                  \cup {"RNFR", "RNTO", "SITE", "other"} : Receive(c)
    /\ Reply(0, 1)
    /\ UNCHANGED <<sockets, sockListen, session, pasvPort, login, pc, notified,
                   client, told, deaf, asked>>

(* The last two lines of the help both begin with "214 ".                  *)
Help ==
    /\ \E c \in {"HELP", "SITE HELP"} : Receive(c)
    /\ Reply(0, 2)
    /\ UNCHANGED <<sockets, sockListen, session, pasvPort, login, pc, notified,
                   client, told, deaf, asked>>

(* mftpDispatch says nothing to an empty line.                             *)
Blank ==
    /\ Receive("blank")
    /\ Reply(0, 0)
    /\ UNCHANGED <<sockets, sockListen, session, pasvPort, login, pc, notified,
                   client, told, deaf, asked>>

Port ==
    /\ Receive("PORT")
    /\ Reply(0, 1)
    /\ port_port' \in BOOLEAN
    /\ usePASV' = (usePASV /\ ~port_port')
    /\ UNCHANGED <<sockets, sockListen, comSocket, dataSocket, pasvSocket, pasvPort,
                   login, pc, notified, client, told, deaf, asked>>

User ==
    /\ Receive("USER")
    /\ Reply(0, 1)
    /\ IF userLoggedIn THEN user' = user ELSE user' \in {"right", "wrong"}
    /\ UNCHANGED <<sockets, sockListen, session, pasvPort, userLoggedIn, pc,
                   notified, client, told, deaf, asked>>

Pass ==
    /\ Receive("PASS")
    /\ Reply(0, 1)
    /\ \/ ~userLoggedIn /\ user = "right" /\ userLoggedIn' = TRUE /\ UNCHANGED user
       \/ ~userLoggedIn /\ user # "" /\ user' = "" /\ UNCHANGED userLoggedIn
       \/ (userLoggedIn \/ user = "") /\ UNCHANGED login
    /\ UNCHANGED <<sockets, sockListen, session, pasvPort, pc, notified, client,
                   told, deaf, asked>>

(* 227 goes out first.                                                     *)
Pasv ==
    /\ userLoggedIn
    /\ Receive("PASV")
    /\ Reply(0, 1)
    /\ told' = pasvPort
    /\ pc' = "passive"
    /\ UNCHANGED <<sockets, sockListen, session, pasvPort, login, notified, client,
                   deaf, asked>>

Transfer ==
    /\ userLoggedIn
    /\ \E c \in Transfers : Receive(c)
    /\ Reply(0, 0)
    /\ pc' = "data"
    /\ UNCHANGED <<sockets, sockListen, session, pasvPort, login, notified, client,
                   told, deaf, asked>>

(* Mutant: the server's listening socket instead of the connection's.      *)
DataConnectionMixedUp == {dataSocket} \cup (IF usePASV THEN {sockListen} ELSE {})

(* Mutant: the listening socket is forgotten.                              *)
DataConnectionOnly == {dataSocket}

(* closeDataConnection.                                                    *)
DataConnection == {dataSocket} \cup (IF usePASV THEN {pasvSocket} ELSE {})

(* The handler was called, not started as a thread of its own:             *)
(* sceKernelExitDeleteThread at its end takes the caller with it.          *)
EndSession(S) ==
    /\ CloseAll(S \cup {comSocket})
    /\ pc' = "gone"
    /\ told' = None

Quit ==
    /\ Receive("QUIT")
    /\ UNCHANGED replies
    /\ EndSession(DataConnection)
    /\ UNCHANGED <<sockListen, session, pasvPort, login, notified, client, deaf, asked>>

(* Mutant: only an error of recv() ends the loop, not 0.                   *)
HangUpSpins ==
    /\ pc = "recv"
    /\ client = "left"
    /\ UNCHANGED vars

(* recv() has nothing more.                                                *)
HangUp ==
    /\ pc = "recv"
    /\ client = "left"
    /\ EndSession({})
    /\ UNCHANGED <<sockListen, session, pasvPort, login, notified, client, history>>

-----------------------------------------------------------------------------
NextPort(p) == (p + 1) % PortSpan

(* openDataConnectionPASV.                                                 *)
OpenPassive ==
    /\ pc = "passive"
    /\ usePASV' = TRUE
    /\ asked' = IF asked = "used" THEN "open" ELSE "lost"
    /\ pc' = "recv"
    /\ \/ \E f \in Free, p \in Bindable(pasvPort) :
            /\ Open(f, "pasv")
            /\ listens' = [listens EXCEPT ![f] = p]
            /\ pasvSocket' = f
            /\ pasvPort' = NextPort(pasvPort)
            /\ deaf' = FALSE
       \/ \E f \in Free :
            /\ Open(f, "pasv")
            /\ pasvSocket' = f
            /\ deaf' = TRUE
            /\ UNCHANGED <<listens, pasvPort>>
       \/ /\ pasvSocket' = None
          /\ deaf' = TRUE
          /\ UNCHANGED <<use, listens, pasvPort>>
    /\ UNCHANGED <<knocks, sockListen, comSocket, dataSocket, port_port, login,
                   notified, client, told, due, replies>>

(* openDataConnection, and the 150 or 425 that follows it.                 *)

Listening == pasvSocket \in FDs /\ listens[pasvSocket] # None

HasData ==
    /\ Reply(1, 0)
    /\ pc' = "transfer"

(* Mutant: no 425.                                                         *)
NoDataSilent ==
    /\ UNCHANGED replies
    /\ pc' = "recv"

NoData ==
    /\ Reply(0, 1)
    /\ pc' = "recv"

AcceptData ==
    /\ pc = "data" /\ usePASV
    /\ pasvSocket \in knocks
    /\ knocks' = knocks \ {pasvSocket}
    /\ \E f \in Free : Open(f, "data") /\ dataSocket' = f
    /\ HasData
    /\ asked' = IF asked = "lost" THEN "lost" ELSE "used"
    /\ UNCHANGED <<listens, sockListen, comSocket, pasvSocket, usePASV, port_port,
                   pasvPort, login, notified, client, told, due, deaf>>

AcceptDataFails ==
    /\ pc = "data" /\ usePASV
    /\ ~Listening \/ pasvSocket \in knocks
    /\ knocks' = knocks \ {pasvSocket}
    /\ dataSocket' = None
    /\ NoData
    /\ UNCHANGED <<use, listens, sockListen, comSocket, pasvSocket, usePASV,
                   port_port, pasvPort, login, notified, client, told, due,
                   deaf, asked>>

(* A socket that does not connect stays open.                              *)
Connect ==
    /\ pc = "data" /\ ~usePASV
    /\ \/ \E f \in Free :
            /\ Open(f, "data")
            /\ dataSocket' = f
            /\ \/ port_port /\ HasData /\ UNCHANGED asked
               \/ NoData /\ asked' = "lost"
       \/ dataSocket' = None /\ NoData /\ UNCHANGED <<use, asked>>
    /\ UNCHANGED <<listens, knocks, sockListen, comSocket, pasvSocket, usePASV,
                   port_port, pasvPort, login, notified, client, told, due, deaf>>

(* The file or the listing is at its end, or one side has closed or lost   *)
(* the connection; 226, or 550 for what is no file.                        *)
TransferEnds ==
    /\ pc = "transfer"
    /\ CloseAll(DataConnection)
    /\ Reply(1, 1)
    /\ pc' = "recv"
    /\ UNCHANGED <<sockListen, session, pasvPort, login, notified, client, told,
                   due, deaf, asked>>

-----------------------------------------------------------------------------
(* The client.                                                             *)

(* It connects to the port it was told; without a listener it is refused.  *)
Knock ==
    /\ client = "up" /\ told # None
    /\ knocks' = knocks \cup {f \in FDs : listens[f] = told}
    /\ told' = None
    /\ UNCHANGED <<use, listens, sockListen, session, pasvPort, login, pc, notified,
                   client, history>>

Leave ==
    /\ client = "up"
    /\ client' = "left"
    /\ UNCHANGED <<sockets, sockListen, session, pasvPort, login, pc, notified,
                   told, history>>

-----------------------------------------------------------------------------
Loop == Listen \/ Accept \/ AcceptNoMemory \/ AcceptFails

Dispatch ==
    \/ LoginFirst \/ Answer \/ Help \/ Blank \/ Port \/ User \/ Pass
    \/ Pasv \/ Transfer \/ Quit

Work == OpenPassive \/ AcceptData \/ AcceptDataFails \/ Connect \/ TransferEnds \/ HangUp

Next == Loop \/ Dispatch \/ Work \/ Knock \/ Leave

(* The thread runs when it is not in a call that waits; a transfer comes   *)
(* to an end.  Nothing is assumed of the client.                           *)
Spec == Init /\ [][Next]_vars /\ WF_vars(Work)

-----------------------------------------------------------------------------
TypeOK ==
    /\ use \in [FDs -> {"free", "std", "listen", "com", "pasv", "data"}]
    /\ listens \in [FDs -> Ports \cup {None}]
    /\ knocks \subseteq FDs
    /\ {sockListen, comSocket, dataSocket, pasvSocket} \subseteq FDs \cup {None}
    /\ usePASV \in BOOLEAN /\ port_port \in BOOLEAN
    /\ pasvPort \in Ports
    /\ user \in {"", "right", "wrong"} /\ userLoggedIn \in BOOLEAN
    /\ pc \in {"listen", "accept", "recv", "passive", "data", "transfer", "gone", "ended"}
    /\ notified \in BOOLEAN
    /\ client \in {"none", "up", "left"}
    /\ told \in Ports \cup {None}
    /\ due \in 0..2 /\ prelims \in 0..1 /\ finals \in 0..2
    /\ deaf \in BOOLEAN /\ asked \in {"used", "open", "lost"}

(* The descriptors of a data connection are kept after they were closed    *)
(* and are closed again, by QUIT or by the next transfer.  It never hits   *)
(* the sockets the session and the server live by.                         *)
LifeLines ==
    InSession => /\ comSocket \in FDs /\ use[comSocket] = "com"
                 /\ sockListen \in FDs /\ use[sockListen] = "listen"

(* A command has its one final reply before the next is read, whatever     *)
(* becomes of its data connection, and a transfer has its 150 before any   *)
(* data.                                                                   *)
InStep ==
    /\ pc = "recv" => finals = due
    /\ pc = "data" => prelims = 0 /\ finals = 0
    /\ pc = "transfer" => prelims = 1 /\ finals = 0

(* From when PASV is done until the client has used it, the port that the  *)
(* client was told is the one the server listens at, unless there was no   *)
(* descriptor or the port was in use (deaf), or the number has run over    *)
(* to 0, where bind gives another.                                         *)
PromiseKept ==
    InSession /\ pc # "passive" /\ told \notin {None, 0} /\ ~deaf
        => pasvSocket \in FDs /\ listens[pasvSocket] = told

(* No socket is lost as long as the client uses each passive port before   *)
(* it asks for the next and its own data ports can be reached.             *)
NoneLost ==
    InSession /\ asked # "lost" =>
        \A f \in FDs : /\ use[f] = "data" => f = dataSocket /\ pc = "transfer"
                       /\ use[f] = "pasv" => f = pasvSocket

(* A session whose client has left comes to its end, unless the server     *)
(* waits for a data connection that the client will not make any more.     *)
WaitsForever == pc = "data" /\ usePASV /\ Listening /\ pasvSocket \notin knocks

SessionEnds == client = "left" ~> (~InSession \/ WaitsForever)

(* "Notify PSPRadio, so it can unload the plugin" (ftp_main.cpp:119): when *)
(* the server's thread is no more, PSPRadio was told.                      *)
ExitIsNotified == pc \in {"gone", "ended"} => notified

==============================================================================
