--------------------------- MODULE NetworkProofs ---------------------------
(***************************************************************************)
(* Proofs about the two users of the network's descriptors.                *)
(*                                                                         *)
(* The FTP server, for any number of descriptors and ports: the types, the *)
(* descriptors the session lives by, the replies in step with the          *)
(* commands, the promised passive port and the lost sockets; and where CWD *)
(* leads, for any directory, any path and any names.                       *)
(*                                                                         *)
(* http_open, for every number of descriptors, relocations and tries: its  *)
(* invariant ties the phase of the call to the descriptor it works on, to  *)
(* what has been read of the server, and to the number of connections.     *)
(***************************************************************************)
EXTENDS MCFtpServer, HttpOpen, FiniteSetTheorems, SequenceTheorems, WellFoundedInduction,
        TLAPS

(* The FTP server.                                                         *)
(* Before the session: no connection was made, nothing asked for.          *)
Outside == pc \in {"listen", "accept"}

(* The kinds of steps that leave the descriptors alone: an answer, ...     *)
Talk ==
    /\ pc = "recv"
    /\ finals' = due'
    /\ usePASV' => usePASV
    /\ UNCHANGED <<use, listens, knocks, sockListen, comSocket, dataSocket, pasvSocket,
                   pasvPort, pc, told, deaf, asked>>

(* ... a step of the client that is not a connection, or none at all; ...  *)
Still ==
    UNCHANGED <<use, listens, knocks, sockListen, session, pasvPort, pc, told, due,
                prelims, finals, deaf, asked>>

(* ... and the end of the thread, which closes some.                       *)
Over ==
    /\ \E S : CloseAll(S)
    /\ pc' \in {"gone", "ended"}

LEMMA StepKinds ==
    ASSUME [Next]_vars
    PROVE  \/ Talk \/ Still \/ Over
           \/ Listen /\ pc' = "accept"
           \/ Accept \/ AcceptNoMemory \/ Pasv \/ Transfer
           \/ OpenPassive \/ AcceptData \/ AcceptDataFails \/ Connect \/ TransferEnds
           \/ Knock
<1>1. LoginFirst \/ Answer \/ Help \/ Blank \/ User \/ Pass => Talk
  <2>1. LoginFirst \/ Answer \/ Help \/ Blank \/ User \/ Pass => pc = "recv" /\ finals' = due'
      BY DEF LoginFirst, Answer, Help, Blank, User, Pass, Receive, Reply, Due, Restricted, Transfers
  <2>2. LoginFirst \/ Answer \/ Help \/ Blank \/ User \/ Pass =>
            UNCHANGED <<sockets, session, sockListen, pasvPort, pc, told, deaf, asked>>
      BY Zenon DEF LoginFirst, Answer, Help, Blank, User, Pass
  <2> QED
      BY Zenon, <2>1, <2>2 DEF Talk, sockets, session
<1>2. Port => Talk
  <2>1. Port => pc = "recv" /\ finals' = due'
      BY DEF Port, Receive, Reply, Due
  <2>2. Port => (usePASV' => usePASV)
      BY Zenon DEF Port
  <2> QED
      BY Zenon, <2>1, <2>2 DEF Port, Talk, sockets
<1>8. Quit \/ HangUp \/ AcceptFails => Over
    BY Zenon DEF Quit, HangUp, AcceptFails, EndSession, LeaveLoop, Over
<1>9. Listen => (Listen /\ pc' = "accept") \/ Over
    BY Zenon DEF Listen, LeaveLoop, Over
<1>10. Leave \/ UNCHANGED vars => Still
    BY Zenon DEF Leave, Still, vars, sockets, history, replies
<1> QED
    BY Zenon, <1>1, <1>2, <1>8, <1>9, <1>10 DEF Next, Loop, Dispatch, Work

-----------------------------------------------------------------------------
(* Types.                                                                  *)

SocketsTyped ==
    /\ use \in [FDs -> {"free", "std", "listen", "com", "pasv", "data"}]
    /\ listens \in [FDs -> Ports \cup {None}]
    /\ knocks \subseteq FDs

SessionTyped ==
    /\ {sockListen, comSocket, dataSocket, pasvSocket} \subseteq FDs \cup {None}
    /\ pasvPort \in Ports
    /\ told \in Ports \cup {None}

FlagsTyped ==
    /\ usePASV \in BOOLEAN /\ port_port \in BOOLEAN
    /\ userLoggedIn \in BOOLEAN
    /\ notified \in BOOLEAN
    /\ deaf \in BOOLEAN

PlaceTyped ==
    /\ pc \in {"listen", "accept", "recv", "passive", "data", "transfer", "gone", "ended"}
    /\ user \in {"", "right", "wrong"}
    /\ client \in {"none", "up", "left"}
    /\ asked \in {"used", "open", "lost"}

RepliesTyped == due \in 0..2 /\ prelims \in 0..1 /\ finals \in 0..2

LEMMA TypeParts ==
    TypeOK <=> SocketsTyped /\ SessionTyped /\ FlagsTyped /\ PlaceTyped /\ RepliesTyped
BY DEF TypeOK, SocketsTyped, SessionTyped, FlagsTyped, PlaceTyped, RepliesTyped

LEMMA PortsFacts ==
    /\ 0 \in FDs
    /\ 0 \in Ports /\ FtpPort \in Ports /\ FirstPort \in Ports
    /\ \A p \in Ports : NextPort(p) \in Ports
    /\ \A p \in Ports : Bindable(p) \subseteq Ports
    /\ None \notin FDs /\ None \notin Ports
BY FtpServerAssumption DEF FtpServerAssumption, FDs, Ports, NextPort, Bindable, None

LEMMA InitTyped == Init => TypeOK
<1> SUFFICES ASSUME Init PROVE TypeOK
    OBVIOUS
<1>1. SocketsTyped /\ SessionTyped
    BY PortsFacts DEF Init, SocketsTyped, SessionTyped
<1>2. FlagsTyped
    BY Zenon DEF Init, FlagsTyped
<1>3. pc = "listen" /\ user = "" /\ client = "none" /\ asked = "used"
    BY Zenon DEF Init
<1>4. due = 0 /\ prelims = 0 /\ finals = 0
    BY Zenon DEF Init
<1>5. PlaceTyped
    BY Zenon, <1>3 DEF PlaceTyped
<1>6. RepliesTyped
    BY <1>4 DEF RepliesTyped
<1> QED
    BY Zenon, <1>1, <1>2, <1>5, <1>6, TypeParts

LEMMA SocketsStep == TypeOK /\ [Next]_vars => SocketsTyped'
<1> SUFFICES ASSUME TypeOK, [Next]_vars PROVE SocketsTyped'
    OBVIOUS
<1> USE PortsFacts DEF SocketsTyped
<1>0. SocketsTyped /\ SessionTyped
    BY TypeParts
<1>1. CASE Talk \/ Still \/ Pasv \/ Transfer
    BY <1>0, <1>1 DEF Talk, Still, Pasv, Transfer, sockets
<1>2. ASSUME NEW S, CloseAll(S) PROVE SocketsTyped'
    BY <1>0, <1>2 DEF CloseAll
<1>3. CASE Over \/ TransferEnds
    BY <1>2, <1>3 DEF Over, TransferEnds
<1>4. CASE Listen /\ pc' = "accept"
    BY <1>0, <1>4 DEF Listen, Open, Free, LeaveLoop
<1>5. CASE Accept \/ AcceptNoMemory
    BY <1>0, <1>5 DEF Accept, AcceptNoMemory, Open, Free
<1>6. CASE OpenPassive
    BY <1>0, <1>6 DEF OpenPassive, Open, Free, SessionTyped
<1>7. CASE AcceptData \/ AcceptDataFails
    BY <1>0, <1>7 DEF AcceptData, AcceptDataFails, Open, Free
<1>8. CASE Connect
    BY <1>0, <1>8 DEF Connect, Open, Free
<1>9. CASE Knock
    BY <1>0, <1>9 DEF Knock
<1> QED
    BY Zenon, StepKinds, <1>1, <1>3, <1>4, <1>5, <1>6, <1>7, <1>8, <1>9

LEMMA SessionStep == TypeOK /\ [Next]_vars => SessionTyped'
<1> SUFFICES ASSUME TypeOK, [Next]_vars PROVE SessionTyped'
    OBVIOUS
<1> USE PortsFacts DEF SessionTyped
<1>0. SessionTyped
    BY TypeParts
<1>1. CASE Talk \/ Still \/ Pasv \/ Transfer
    BY <1>0, <1>1 DEF Talk, Still, Pasv, Transfer, sockets, session
<1>2. CASE Listen
    BY <1>0, <1>2 DEF Listen, Free, session
<1>3. CASE Accept
    BY <1>0, <1>3 DEF Accept, Free
<1>4. CASE AcceptNoMemory \/ AcceptFails
    BY <1>0, <1>4 DEF AcceptNoMemory, AcceptFails, session
<1>5. CASE Quit \/ HangUp \/ TransferEnds
    BY <1>0, <1>5 DEF Quit, HangUp, TransferEnds, EndSession, session
<1>6. CASE OpenPassive
    BY <1>0, <1>6 DEF OpenPassive, Free
<1>7. CASE AcceptData \/ AcceptDataFails
    BY <1>0, <1>7 DEF AcceptData, AcceptDataFails, Free
<1>8. CASE Connect
    BY <1>0, <1>8 DEF Connect, Free
<1>9. CASE Knock \/ Leave
    BY <1>0, <1>9 DEF Knock, Leave, session
<1>10. CASE LoginFirst \/ Answer \/ Help \/ Blank \/ User \/ Pass
    BY <1>0, <1>10 DEF LoginFirst, Answer, Help, Blank, User, Pass, session
<1>11. CASE Port
    BY <1>0, <1>11 DEF Port
<1>12. CASE UNCHANGED vars
    BY <1>0, <1>12 DEF vars, session
<1> QED
    BY Zenon, <1>1, <1>2, <1>3, <1>4, <1>5, <1>6, <1>7, <1>8, <1>9, <1>10, <1>11, <1>12
       DEF Next, Loop, Dispatch, Work

LEMMA FlagsStep == TypeOK /\ [Next]_vars => FlagsTyped'
<1> SUFFICES ASSUME TypeOK, [Next]_vars PROVE FlagsTyped'
    OBVIOUS
<1>0. FlagsTyped
    BY TypeParts
<1>1. usePASV' \in BOOLEAN
  <2>1. usePASV' = usePASV \/ usePASV' = (usePASV /\ ~port_port') \/ usePASV' = TRUE \/ usePASV' = FALSE
      BY Zenon DEF Next, Loop, Dispatch, Work, Listen, Accept, AcceptNoMemory, AcceptFails, LoginFirst,
         Answer, Help, Blank, Port, User, Pass, Pasv, Transfer, Quit, HangUp, OpenPassive, AcceptData,
         AcceptDataFails, Connect, TransferEnds, Knock, Leave, vars, session
  <2> QED
      BY Zenon, <1>0, <2>1 DEF FlagsTyped
<1>2. port_port' \in BOOLEAN
  <2>1. port_port' = port_port \/ port_port' \in BOOLEAN
      BY Zenon DEF Next, Loop, Dispatch, Work, Listen, Accept, AcceptNoMemory, AcceptFails, LoginFirst,
         Answer, Help, Blank, Port, User, Pass, Pasv, Transfer, Quit, HangUp, OpenPassive, AcceptData,
         AcceptDataFails, Connect, TransferEnds, Knock, Leave, vars, session
  <2> QED
      BY Zenon, <1>0, <2>1 DEF FlagsTyped
<1>3. userLoggedIn' \in BOOLEAN
  <2>1. userLoggedIn' = userLoggedIn \/ userLoggedIn' = TRUE \/ userLoggedIn' = FALSE
      BY Zenon DEF Next, Loop, Dispatch, Work, Listen, Accept, AcceptNoMemory, AcceptFails, LoginFirst,
         Answer, Help, Blank, Port, User, Pass, Pasv, Transfer, Quit, HangUp, OpenPassive, AcceptData,
         AcceptDataFails, Connect, TransferEnds, Knock, Leave, vars, login
  <2> QED
      BY Zenon, <1>0, <2>1 DEF FlagsTyped
<1>4. notified' \in BOOLEAN
  <2>1. notified' = notified \/ notified' = TRUE
      BY Zenon DEF Next, Loop, Dispatch, Work, Listen, Accept, AcceptNoMemory, AcceptFails, LoginFirst,
         Answer, Help, Blank, Port, User, Pass, Pasv, Transfer, Quit, HangUp, OpenPassive, AcceptData,
         AcceptDataFails, Connect, TransferEnds, Knock, Leave, vars, LeaveLoop
  <2> QED
      BY Zenon, <1>0, <2>1 DEF FlagsTyped
<1>5. deaf' \in BOOLEAN
  <2>1. deaf' = deaf \/ deaf' = TRUE \/ deaf' = FALSE
      BY Zenon DEF Next, Loop, Dispatch, Work, Listen, Accept, AcceptNoMemory, AcceptFails, LoginFirst,
         Answer, Help, Blank, Port, User, Pass, Pasv, Transfer, Quit, HangUp, OpenPassive, AcceptData,
         AcceptDataFails, Connect, TransferEnds, Knock, Leave, vars, history
  <2> QED
      BY Zenon, <1>0, <2>1 DEF FlagsTyped
<1> QED
    BY Zenon, <1>1, <1>2, <1>3, <1>4, <1>5 DEF FlagsTyped

LEMMA PlaceStep == TypeOK /\ [Next]_vars => PlaceTyped'
<1> SUFFICES ASSUME TypeOK, [Next]_vars PROVE PlaceTyped'
    OBVIOUS
<1> USE DEF PlaceTyped
<1>0. PlaceTyped
    BY TypeParts
<1>1. CASE Loop
    BY <1>0, <1>1 DEF Loop, Listen, Accept, AcceptNoMemory, AcceptFails, LeaveLoop, login, history
<1>2. CASE LoginFirst \/ Answer \/ Help \/ Blank \/ Port
    BY <1>0, <1>2 DEF LoginFirst, Answer, Help, Blank, Port, login
<1>3. CASE User \/ Pass
    BY <1>0, <1>3 DEF User, Pass, login
<1>4. CASE Pasv \/ Transfer \/ Quit
    BY <1>0, <1>4 DEF Pasv, Transfer, Quit, EndSession, login
<1>5. CASE OpenPassive \/ HangUp
    BY <1>0, <1>5 DEF OpenPassive, HangUp, EndSession, login, history
<1>6. CASE AcceptData \/ AcceptDataFails
    BY <1>0, <1>6 DEF AcceptData, AcceptDataFails, HasData, NoData, login
<1>7. CASE Connect \/ TransferEnds
    BY <1>0, <1>7 DEF Connect, TransferEnds, HasData, NoData, login
<1>8. CASE Knock \/ Leave
    BY <1>0, <1>8 DEF Knock, Leave, login, history
<1>9. CASE UNCHANGED vars
    BY <1>0, <1>9 DEF vars, login, history
<1> QED
    BY Zenon, <1>1, <1>2, <1>3, <1>4, <1>5, <1>6, <1>7, <1>8, <1>9 DEF Next, Dispatch, Work

LEMMA RepliesStep == TypeOK /\ [Next]_vars => RepliesTyped'
<1> SUFFICES ASSUME TypeOK, [Next]_vars PROVE RepliesTyped'
    OBVIOUS
<1> USE DEF RepliesTyped
<1>0. RepliesTyped
    BY TypeParts
<1>1. CASE Loop \/ HangUp \/ Knock \/ Leave \/ UNCHANGED vars
    BY <1>0, <1>1 DEF Loop, Listen, Accept, AcceptNoMemory, AcceptFails, HangUp, Knock, Leave, vars,
       history, replies
<1>2. CASE Dispatch
  <2>1. \E c : due' = Due(c)
      BY Zenon, <1>2 DEF Dispatch, LoginFirst, Answer, Help, Blank, Port, User, Pass, Pasv, Transfer, Quit,
         Receive
  <2>2. \A c : Due(c) \in 0..2
      BY DEF Due
  <2>3. \/ \E p \in {0}, n \in {0, 1, 2} : Reply(p, n)
        \/ UNCHANGED replies
      BY Zenon, <1>2 DEF Dispatch, LoginFirst, Answer, Help, Blank, Port, User, Pass, Pasv, Transfer, Quit
  <2>4. prelims' \in 0..1 /\ finals' \in 0..2
      BY <1>0, <2>3 DEF Reply, replies
  <2> QED
      BY <2>1, <2>2, <2>4
<1>3. CASE OpenPassive \/ AcceptData \/ AcceptDataFails \/ Connect \/ TransferEnds
    BY <1>0, <1>3 DEF OpenPassive, AcceptData, AcceptDataFails, Connect, TransferEnds, HasData, NoData,
       Reply, replies
<1> QED
    BY Zenon, <1>1, <1>2, <1>3 DEF Next, Work

LEMMA TypeStep == TypeOK /\ [Next]_vars => TypeOK'
<1> SUFFICES ASSUME TypeOK, [Next]_vars PROVE TypeOK'
    OBVIOUS
<1>1. SocketsTyped' /\ SessionTyped' /\ FlagsTyped' /\ PlaceTyped' /\ RepliesTyped'
    BY SocketsStep, SessionStep, FlagsStep, PlaceStep, RepliesStep
<1> QED
    BY <1>1 DEF TypeOK, SocketsTyped, SessionTyped, FlagsTyped, PlaceTyped, RepliesTyped

(* The types, whatever the client sends and the network gives.             *)
THEOREM TypeCorrect == Spec => []TypeOK
BY InitTyped, TypeStep, PTL DEF Spec

-----------------------------------------------------------------------------
(* Listening and the descriptors the session lives by.  A descriptor kept  *)
(* after it was closed may have been given again, but in the session only  *)
(* for data connections.                                                   *)

ListenInv ==
    /\ \A f \in FDs : listens[f] # None => use[f] \in {"listen", "pasv"}
    /\ \A f \in knocks : listens[f] # None

Kept(f) == f \in FDs => use[f] \notin {"com", "listen"}

LifeInv ==
    /\ Outside => use[0] = "std"
    /\ pc = "accept" => sockListen \in FDs /\ use[sockListen] = "listen"
    /\ InSession => Kept(dataSocket) /\ Kept(pasvSocket)
    /\ LifeLines

LEMMA ListenStep == TypeOK /\ ListenInv /\ [Next]_vars => ListenInv'
<1> SUFFICES ASSUME TypeOK, ListenInv, [Next]_vars PROVE ListenInv'
    OBVIOUS
<1> USE PortsFacts DEF ListenInv
<1>0. SocketsTyped /\ SocketsTyped'
    BY TypeParts, SocketsStep
<1>1. CASE Talk \/ Still \/ Pasv \/ Transfer
    BY <1>1 DEF Talk, Still, Pasv, Transfer, sockets
<1>2. ASSUME NEW S, CloseAll(S) PROVE ListenInv'
    BY <1>0, <1>2 DEF CloseAll, SocketsTyped
<1>3. CASE Over \/ TransferEnds
    BY <1>2, <1>3 DEF Over, TransferEnds
<1>4. CASE Listen /\ pc' = "accept"
    BY <1>0, <1>4 DEF Listen, Open, Free, LeaveLoop, SocketsTyped
<1>5. CASE Accept \/ AcceptNoMemory
    BY <1>0, <1>5 DEF Accept, AcceptNoMemory, Open, Free, SocketsTyped
<1>6. CASE OpenPassive
    BY <1>0, <1>6 DEF OpenPassive, Open, Free, SocketsTyped
<1>7. CASE AcceptData \/ AcceptDataFails
    BY <1>0, <1>7 DEF AcceptData, AcceptDataFails, Open, Free, SocketsTyped
<1>8. CASE Connect
    BY <1>0, <1>8 DEF Connect, Open, Free, SocketsTyped
<1>9. CASE Knock
  <2>1. told # None
      BY <1>9 DEF Knock
  <2> QED
      BY <1>0, <1>9, <2>1 DEF Knock, SocketsTyped
<1> QED
    BY Zenon, StepKinds, <1>1, <1>3, <1>4, <1>5, <1>6, <1>7, <1>8, <1>9

LEMMA LifeStep == TypeOK /\ LifeInv /\ [Next]_vars => LifeInv'
<1> SUFFICES ASSUME TypeOK, LifeInv, [Next]_vars PROVE LifeInv'
    OBVIOUS
<1> USE PortsFacts DEF LifeInv, LifeLines, Kept, InSession, Outside
<1>0. SocketsTyped /\ SessionTyped
    BY TypeParts
<1>1. CASE Talk \/ Still
    BY <1>1 DEF Talk, Still, session
<1>2. CASE Pasv \/ Transfer
    BY <1>2 DEF Pasv, Transfer, Receive, sockets, session
<1>3. CASE Over
    BY <1>3 DEF Over
<1>4. CASE Listen /\ pc' = "accept"
    BY <1>0, <1>4 DEF Listen, Open, Free, LeaveLoop, SocketsTyped
<1>5. CASE Accept
    BY <1>0, <1>5 DEF Accept, Open, Free, SocketsTyped
<1>6. CASE AcceptNoMemory
    BY <1>0, <1>6 DEF AcceptNoMemory, Open, Free, SocketsTyped
<1>7. CASE OpenPassive
    BY <1>0, <1>7 DEF OpenPassive, Open, Free, SocketsTyped
<1>8. CASE AcceptData
    BY <1>0, <1>8 DEF AcceptData, HasData, Open, Free, SocketsTyped
<1>9. CASE AcceptDataFails
    BY <1>0, <1>9 DEF AcceptDataFails, NoData, SocketsTyped
<1>10. CASE Connect
    BY <1>0, <1>10 DEF Connect, HasData, NoData, Open, Free, SocketsTyped
<1>11. CASE TransferEnds
    BY <1>0, <1>11 DEF TransferEnds, CloseAll, DataConnection, session, SocketsTyped
<1>12. CASE Knock
    BY <1>12 DEF Knock, session
<1> QED
    BY Zenon, StepKinds, <1>1, <1>2, <1>3, <1>4, <1>5, <1>6, <1>7, <1>8, <1>9, <1>10, <1>11, <1>12

(* The sockets the session and the server live by stay open through it.    *)
THEOREM LifeLinesStay == Spec => []LifeLines
<1>1. Init => LifeInv
    BY PortsFacts DEF Init, LifeInv, LifeLines, InSession, Outside, Kept
<1>2. LifeInv => LifeLines
    BY Zenon DEF LifeInv
<1> QED
    BY TypeCorrect, LifeStep, <1>1, <1>2, PTL DEF Spec

-----------------------------------------------------------------------------
(* Replies.                                                                *)

StepInv ==
    /\ InStep
    /\ pc \in {"data", "transfer"} => due = 1
    /\ pc \in {"listen", "accept", "passive"} => finals = due

LEMMA StepStep == StepInv /\ [Next]_vars => StepInv'
<1> SUFFICES ASSUME StepInv, [Next]_vars PROVE StepInv'
    OBVIOUS
<1> USE DEF StepInv, InStep
<1>1. CASE Talk \/ Still
    BY <1>1 DEF Talk, Still
<1>2. CASE Pasv
    BY <1>2 DEF Pasv, Receive, Reply, Due
<1>3. CASE Transfer
  <2>1. \A c \in Transfers : Due(c) = 1
      BY DEF Transfers, Due
  <2> QED
      BY <1>3, <2>1 DEF Transfer, Receive, Reply
<1>4. CASE Over
    BY <1>4 DEF Over
<1>5. CASE Listen \/ Accept \/ AcceptNoMemory
    BY <1>5 DEF Listen, Accept, AcceptNoMemory, LeaveLoop, history, replies
<1>6. CASE OpenPassive
    BY <1>6 DEF OpenPassive, replies
<1>7. CASE AcceptData \/ AcceptDataFails \/ Connect
    BY <1>7 DEF AcceptData, AcceptDataFails, Connect, HasData, NoData, Reply
<1>8. CASE TransferEnds
    BY <1>8 DEF TransferEnds, Reply
<1>9. CASE Knock
    BY <1>9 DEF Knock, history, replies
<1> QED
    BY Zenon, StepKinds, <1>1, <1>2, <1>3, <1>4, <1>5, <1>6, <1>7, <1>8, <1>9

(* Each command has its one final reply before the next is read.           *)
THEOREM RepliesInStep == Spec => []InStep
<1>1. Init => StepInv
    BY DEF Init, StepInv, InStep
<1>2. StepInv => InStep
    BY Zenon DEF StepInv
<1> QED
    BY StepStep, <1>1, <1>2, PTL DEF Spec

-----------------------------------------------------------------------------
(* The promised port.  That a 227 is out before the server listens does no *)
(* harm as pasvPort does not change in between; and a transfer that uses   *)
(* the listening socket, and closes it, was begun by the client's          *)
(* connection, after which nothing is promised.                            *)

Promised == told \notin {None, 0} /\ ~deaf

PromiseInv ==
    /\ Outside => told = None
    /\ pc = "passive" => told \in {None, pasvPort}
    /\ pc = "transfer" => dataSocket \in FDs /\ use[dataSocket] = "data"
    /\ InSession /\ pc # "passive" /\ Promised =>
          /\ pasvSocket \in FDs /\ listens[pasvSocket] = told
          /\ pasvSocket \notin knocks
          /\ ~(pc = "transfer" /\ usePASV)

LEMMA PromisedStill ==
    ASSUME told' = told, deaf' = deaf
    PROVE  Promised' => Promised
BY Zenon DEF Promised

LEMMA PromiseCalm == PromiseInv /\ (Talk \/ Still) => PromiseInv'
<1> SUFFICES ASSUME PromiseInv, Talk \/ Still PROVE PromiseInv'
    OBVIOUS
<1>1. UNCHANGED <<pc, told, pasvPort, dataSocket, pasvSocket, use, listens, knocks>>
    BY DEF Talk, Still, session
<1>2. Talk => deaf' = deaf
    BY Zenon DEF Talk
<1>3. Still => deaf' = deaf
    BY Zenon DEF Still
<1>4. Promised' => Promised
    BY Zenon, <1>1, <1>2, <1>3, PromisedStill
<1>5. Talk => (usePASV' => usePASV)
    BY Zenon DEF Talk
<1>6. Still => usePASV' = usePASV
    BY Zenon DEF Still, session
<1>7. pc = "transfer" /\ usePASV' => pc = "transfer" /\ usePASV
    BY Zenon, <1>5, <1>6
<1> QED
  <2>1. (Outside => told = None)' /\ (pc = "passive" => told \in {None, pasvPort})'
      BY <1>1 DEF PromiseInv, Outside
  <2>2. (pc = "transfer" => dataSocket \in FDs /\ use[dataSocket] = "data")'
      BY <1>1 DEF PromiseInv
  <2>3. ASSUME InSession', pc' # "passive", Promised'
        PROVE  /\ pasvSocket' \in FDs /\ listens'[pasvSocket'] = told'
               /\ pasvSocket' \notin knocks'
               /\ ~(pc' = "transfer" /\ usePASV')
    <3>1. InSession /\ pc # "passive" /\ Promised
        BY <1>1, <1>4, <2>3 DEF InSession
    <3>2. /\ pasvSocket \in FDs /\ listens[pasvSocket] = told
          /\ pasvSocket \notin knocks
          /\ ~(pc = "transfer" /\ usePASV)
        BY Zenon, <3>1 DEF PromiseInv
    <3>3. ~(pc' = "transfer" /\ usePASV')
        BY Zenon, <1>1, <1>7, <3>2
    <3> QED
        BY <1>1, <3>2, <3>3
  <2> QED
      BY Zenon, <2>1, <2>2, <2>3 DEF PromiseInv

LEMMA PromiseStep == TypeOK /\ ListenInv /\ PromiseInv /\ [Next]_vars => PromiseInv'
<1> SUFFICES ASSUME TypeOK, ListenInv, PromiseInv, [Next]_vars PROVE PromiseInv'
    OBVIOUS
<1> USE PortsFacts DEF PromiseInv, Promised, InSession, Outside
<1>0. SocketsTyped /\ SessionTyped
    BY TypeParts
<1>1. CASE Talk \/ Still
    BY Zenon, <1>1, PromiseCalm
<1>2. CASE Pasv
    BY <1>2 DEF Pasv, Receive, sockets, session
<1>3. CASE Transfer
    BY <1>3 DEF Transfer, Receive, sockets, session
<1>4. CASE Over
    BY <1>4 DEF Over
<1>5. CASE Listen /\ pc' = "accept"
    BY <1>5 DEF Listen
<1>6. CASE Accept \/ AcceptNoMemory
    BY <1>6 DEF Accept, AcceptNoMemory
<1>7. CASE OpenPassive
  <2>1. ASSUME NEW f \in Free, NEW p \in Bindable(pasvPort),
               listens' = [listens EXCEPT ![f] = p], pasvSocket' = f
        PROVE  Promised' => pasvSocket' \in FDs /\ listens'[pasvSocket'] = told' /\ pasvSocket' \notin knocks'
      BY <1>0, <1>7, <2>1 DEF OpenPassive, Free, Bindable, SocketsTyped, ListenInv
  <2>2. pc' = "recv" /\ (\/ \E f \in Free, p \in Bindable(pasvPort) :
                             listens' = [listens EXCEPT ![f] = p] /\ pasvSocket' = f
                         \/ deaf')
      BY Zenon, <1>7 DEF OpenPassive
  <2> QED
      BY <2>1, <2>2
<1>8. CASE AcceptData
  <2>1. ~Promised'
      BY Zenon, <1>8 DEF AcceptData
  <2>2. PICK f \in Free : use' = [use EXCEPT ![f] = "data"] /\ dataSocket' = f
      BY Zenon, <1>8 DEF AcceptData, Open
  <2>3. pc' = "transfer" /\ dataSocket' \in FDs /\ use'[dataSocket'] = "data"
      BY <1>0, <1>8, <2>2 DEF AcceptData, HasData, Free, SocketsTyped
  <2> QED
      BY <2>1, <2>3
<1>9. CASE AcceptDataFails
    BY <1>9 DEF AcceptDataFails, NoData
<1>10. CASE Connect
    BY <1>0, <1>10 DEF Connect, Open, Free, HasData, NoData, SocketsTyped
<1>11. CASE TransferEnds
  <2>1. dataSocket \in FDs /\ listens[dataSocket] = None
      BY <1>0, <1>11 DEF TransferEnds, ListenInv, SocketsTyped
  <2>2. \A f \in FDs : f = dataSocket \/ (f = pasvSocket /\ usePASV) \/ listens'[f] = listens[f]
      BY <1>0, <1>11 DEF TransferEnds, CloseAll, DataConnection
  <2>3. knocks' \subseteq knocks
      BY <1>11 DEF TransferEnds, CloseAll
  <2>4. Promised' => ~usePASV /\ Promised
    <3>1. pc = "transfer"
        BY <1>11 DEF TransferEnds
    <3>2. told' = told
        BY Zenon, <1>11 DEF TransferEnds
    <3>3. deaf' = deaf
        BY Zenon, <1>11 DEF TransferEnds
    <3>4. Promised' => Promised
        BY Zenon, <3>2, <3>3, PromisedStill
    <3> QED
        BY Zenon, <3>1, <3>4 DEF PromiseInv, InSession
  <2>5. pc' = "recv" /\ pc = "transfer" /\ told' = told /\ pasvSocket' = pasvSocket
      BY <1>11 DEF TransferEnds, session
  <2> QED
      BY <2>1, <2>2, <2>3, <2>4, <2>5
<1>12. CASE Knock
    BY <1>12 DEF Knock, session
<1> QED
    BY Zenon, StepKinds, <1>1, <1>2, <1>3, <1>4, <1>5, <1>6, <1>7, <1>8, <1>9, <1>10, <1>11, <1>12

LEMMA InitListen == Init => ListenInv
BY DEF Init, ListenInv

(* The port the client was told is the one the server listens at, until    *)
(* the client has used it.                                                 *)
THEOREM PromiseIsKept == Spec => []PromiseKept
<1>1. Init => PromiseInv
    BY Zenon DEF Init, PromiseInv, Promised, InSession, Outside
<1>2. PromiseInv => PromiseKept
    BY Zenon DEF PromiseInv, PromiseKept, Promised
<1> QED
    BY TypeCorrect, InitListen, ListenStep, PromiseStep, <1>1, <1>2, PTL DEF Spec

-----------------------------------------------------------------------------
(* Lost sockets.                                                           *)

LostInv ==
    /\ Outside => asked = "used" /\ \A f \in FDs : use[f] \notin {"data", "pasv"}
    /\ InSession /\ asked = "used" /\ ~(pc = "transfer" /\ usePASV) =>
          \A f \in FDs : use[f] # "pasv"
    /\ NoneLost

LEMMA LostStep == TypeOK /\ LostInv /\ [Next]_vars => LostInv'
<1> SUFFICES ASSUME TypeOK, LostInv, [Next]_vars PROVE LostInv'
    OBVIOUS
<1> USE PortsFacts DEF LostInv, NoneLost, InSession, Outside
<1>0. SocketsTyped /\ SessionTyped /\ PlaceTyped
    BY TypeParts
<1>1. CASE Talk \/ Still
    BY <1>1 DEF Talk, Still, session
<1>2. CASE Pasv \/ Transfer
    BY <1>2 DEF Pasv, Transfer, Receive, sockets, session
<1>3. CASE Over
    BY <1>3 DEF Over
<1>4. CASE Listen /\ pc' = "accept"
    BY <1>0, <1>4 DEF Listen, Open, Free, LeaveLoop, history, SocketsTyped
<1>5. CASE Accept \/ AcceptNoMemory
    BY <1>0, <1>5 DEF Accept, AcceptNoMemory, Open, Free, history, SocketsTyped
<1>6. CASE OpenPassive
    BY <1>0, <1>6 DEF OpenPassive, Open, Free, SocketsTyped, PlaceTyped
<1>7. CASE AcceptData
    BY <1>0, <1>7 DEF AcceptData, HasData, Open, Free, SocketsTyped, PlaceTyped
<1>8. CASE AcceptDataFails
    BY <1>0, <1>8 DEF AcceptDataFails, NoData
<1>9. CASE Connect
    BY <1>0, <1>9 DEF Connect, HasData, NoData, Open, Free, SocketsTyped
<1>10. CASE TransferEnds
  <2>1. \A f \in FDs : use'[f] = use[f] \/ use'[f] = "free"
      BY <1>0, <1>10 DEF TransferEnds, CloseAll, SocketsTyped
  <2>2. use'[dataSocket] = "free" \/ dataSocket \notin FDs
      BY <1>0, <1>10 DEF TransferEnds, CloseAll, DataConnection
  <2>3. usePASV => use'[pasvSocket] = "free" \/ pasvSocket \notin FDs
      BY <1>0, <1>10 DEF TransferEnds, CloseAll, DataConnection
  <2> QED
      BY <1>10, <2>1, <2>2, <2>3 DEF TransferEnds, session
<1>11. CASE Knock
    BY <1>11 DEF Knock, session, history
<1> QED
    BY Zenon, StepKinds, <1>1, <1>2, <1>3, <1>4, <1>5, <1>6, <1>7, <1>8, <1>9, <1>10, <1>11

(* No socket is lost with a client that uses what it asks for.             *)
THEOREM NoSocketIsLost == Spec => []NoneLost
<1>1. Init => LostInv
    BY PortsFacts DEF Init, LostInv, NoneLost, InSession, Outside
<1>2. LostInv => NoneLost
    BY Zenon DEF LostInv
<1> QED
    BY TypeCorrect, LostStep, <1>1, <1>2, PTL DEF Spec

-----------------------------------------------------------------------------
(* CWD.  The directory the walk has come to is a stack of the steps that   *)
(* stay; each component is one step of the walk and one more step counted. *)

(* Induction by the least counterexample.                                  *)
LEMMA Least ==
    ASSUME NEW T \in SUBSET Nat, T # {}
    PROVE  \E x \in T : \A y \in T : x <= y
<1>1. \E x \in T : \A y \in T : ~ (<<y, x>> \in OpToRel(<, Nat))
    BY NatLessThanWellFounded, WFMin
<1>2. PICK x \in T : \A y \in T : ~ (<<y, x>> \in OpToRel(<, Nat))
    BY <1>1
<1>3. ASSUME NEW y \in T PROVE x <= y
  <2>1. <<y, x>> \in Nat \X Nat /\ ~ (<<y, x>> \in OpToRel(<, Nat))
      BY <1>2, <1>3
  <2>2. ~ (y < x)
      BY <2>1 DEF OpToRel
  <2> QED
      BY <2>2
<1> QED
    BY <1>3

LEMMA Greatest ==
    ASSUME NEW n \in Nat, NEW T \in SUBSET (1 .. n), T # {}
    PROVE  Max(T) \in T /\ \A y \in T : Max(T) >= y
<1> DEFINE U == {u \in 0 .. n : \E y \in T : u = n - y}
<1>0. \A y \in T : n - y \in U
    OBVIOUS
<1>1. U \in SUBSET Nat /\ U # {}
  <2>1. PICK y \in T : TRUE
      OBVIOUS
  <2>2. n - y \in U
      BY <1>0
  <2>3. U \in SUBSET Nat
      OBVIOUS
  <2> HIDE DEF U
  <2> QED
      BY <2>2, <2>3
<1>2. PICK u \in U : \A v \in U : u <= v
  <2> HIDE DEF U
  <2> QED
      BY <1>1, Least
<1>3. PICK x \in T : u = n - x
    OBVIOUS
<1> HIDE DEF U
<1>4. ASSUME NEW y \in T PROVE x >= y
  <2>1. n - y \in U
      BY <1>0
  <2>2. n - x <= n - y
      BY <1>2, <1>3, <2>1
  <2> QED
      BY <2>2
<1>5. \E z \in T : \A y \in T : z >= y
    BY <1>4
<1> QED
    BY <1>5 DEF Max

(* The loop over the components goes from each to the next.                *)
WalkFrom(from, cs, g, m) ==
    g = [n \in 0 .. m |-> IF n = 0 THEN [dir |-> from, stopped |-> FALSE]
                          ELSE WalkStep(g[n - 1], cs[n])]

LEMMA WalkExists ==
    ASSUME NEW from, NEW cs, NEW m \in Nat
    PROVE  \E g : WalkFrom(from, cs, g, m)
<1> DEFINE T == {k \in Nat : ~ \E g : WalkFrom(from, cs, g, k)}
<1> SUFFICES ASSUME T # {} PROVE FALSE
    OBVIOUS
<1>1. T \in SUBSET Nat
    OBVIOUS
<1>2. PICK k \in T : \A y \in T : k <= y
  <2> HIDE DEF T
  <2> QED
      BY <1>1, Least
<1>3. k # 0
  <2> DEFINE g == [n \in 0 .. 0 |-> [dir |-> from, stopped |-> FALSE]]
  <2>1. WalkFrom(from, cs, g, 0)
    <3>1. \A n \in 0 .. 0 : n = 0
        OBVIOUS
    <3> QED
        BY <3>1 DEF WalkFrom
  <2> QED
      BY <2>1
<1>4. k \in Nat /\ k - 1 \in Nat /\ k - 1 \notin T
    BY <1>2, <1>3
<1>5. PICK f : WalkFrom(from, cs, f, k - 1)
    BY <1>4
<1> DEFINE g == [n \in 0 .. k |-> IF n = k THEN WalkStep(f[k - 1], cs[k]) ELSE f[n]]
           h == [n \in 0 .. k |-> IF n = 0 THEN [dir |-> from, stopped |-> FALSE]
                                  ELSE WalkStep(g[n - 1], cs[n])]
<1>6. \A n \in 0 .. k - 1 : f[n] = IF n = 0 THEN [dir |-> from, stopped |-> FALSE]
                                   ELSE WalkStep(f[n - 1], cs[n])
    BY <1>5 DEF WalkFrom
<1>7. \A n \in 0 .. k - 1 : g[n] = f[n]
    BY <1>4
<1>8. g[k] = WalkStep(f[k - 1], cs[k])
    BY <1>4
<1>9. ASSUME NEW n \in 0 .. k PROVE g[n] = h[n]
  <2>1. CASE n = 0
    <3>1. n \in 0 .. k - 1
        BY <1>4, <2>1
    <3>2. g[n] = f[n] /\ f[n] = [dir |-> from, stopped |-> FALSE]
        BY <1>6, <1>7, <2>1, <3>1
    <3> QED
        BY <2>1, <3>2
  <2>2. CASE n = k
    <3>1. k - 1 \in 0 .. k - 1
        BY <1>4
    <3>2. g[k - 1] = f[k - 1]
        BY <1>7, <3>1
    <3>3. h[n] = WalkStep(g[k - 1], cs[k])
        BY <1>3, <2>2
    <3> QED
        BY <1>8, <2>2, <3>2, <3>3
  <2>3. CASE n # 0 /\ n # k
    <3>1. n \in 0 .. k - 1 /\ n - 1 \in 0 .. k - 1
        BY <1>4, <2>3
    <3>2. g[n] = f[n] /\ g[n - 1] = f[n - 1]
        BY <1>7, <3>1
    <3>3. f[n] = WalkStep(f[n - 1], cs[n])
        BY <1>6, <2>3, <3>1
    <3>4. h[n] = WalkStep(g[n - 1], cs[n])
        BY <2>3
    <3> QED
        BY <3>2, <3>3, <3>4
  <2> QED
      BY <2>1, <2>2, <2>3
<1>10. g = h
  <2>1. g = [n \in 0 .. k |-> g[n]] /\ h = [n \in 0 .. k |-> h[n]]
      OBVIOUS
  <2> HIDE DEF g, h
  <2> QED
      BY <1>9, <2>1
<1>11. WalkFrom(from, cs, g, k)
  <2> HIDE DEF g
  <2> QED
      BY <1>10 DEF WalkFrom
<1> QED
    BY <1>2, <1>11

LEMMA WalkSteps ==
    ASSUME NEW from, NEW cs, Len(cs) \in Nat
    PROVE  /\ Walk(from, cs)[0] = [dir |-> from, stopped |-> FALSE]
           /\ \A n \in 1 .. Len(cs) : Walk(from, cs)[n] = WalkStep(Walk(from, cs)[n - 1], cs[n])
<1> DEFINE w == Walk(from, cs)
<1>1. w = CHOOSE g : WalkFrom(from, cs, g, Len(cs))
    BY DEF Walk, WalkFrom
<1>2. WalkFrom(from, cs, w, Len(cs))
  <2> HIDE DEF w
  <2> QED
      BY <1>1, WalkExists
<1> HIDE DEF w
<1>3. \A n \in 0 .. Len(cs) : w[n] = IF n = 0 THEN [dir |-> from, stopped |-> FALSE]
                                     ELSE WalkStep(w[n - 1], cs[n])
    BY <1>2 DEF WalkFrom
<1>4. w[0] = [dir |-> from, stopped |-> FALSE]
  <2>1. 0 \in 0 .. Len(cs)
      OBVIOUS
  <2> QED
      BY <1>3, <2>1
<1>5. \A n \in 1 .. Len(cs) : w[n] = WalkStep(w[n - 1], cs[n])
    BY <1>3
<1> QED
    BY <1>4, <1>5 DEF w

(* Counting the steps of a path, one at a time.                            *)
LEMMA Counted ==
    ASSUME NEW word, NEW i \in Nat, NEW n \in Nat
    PROVE  /\ Downs(word, i, n) \in Nat /\ Ups(word, i, n) \in Nat
           /\ i > n => Downs(word, i, n) = 0 /\ Ups(word, i, n) = 0
           /\ i <= n + 1 =>
                  /\ Downs(word, i, n + 1) = Downs(word, i, n) + (IF IsName(word[n + 1]) THEN 1 ELSE 0)
                  /\ Ups(word, i, n + 1) = Ups(word, i, n) + (IF word[n + 1] = ".." THEN 1 ELSE 0)
<1> DEFINE D(m) == {k \in i .. m : IsName(word[k])}
           U(m) == {k \in i .. m : word[k] = ".."}
<1>1. IsFiniteSet(i .. n)
    BY FS_Interval
<1>2. IsFiniteSet(D(n)) /\ IsFiniteSet(U(n))
    BY <1>1, FS_Subset
<1>3. Cardinality(D(n)) \in Nat /\ Cardinality(U(n)) \in Nat
    BY <1>2, FS_CardinalityType
<1>4. ASSUME i > n PROVE Cardinality(D(n)) = 0 /\ Cardinality(U(n)) = 0
  <2>1. D(n) = {} /\ U(n) = {}
      BY <1>4
  <2> QED
      BY <2>1, FS_EmptySet
<1>5. ASSUME i <= n + 1
      PROVE  /\ Cardinality(D(n + 1)) = Cardinality(D(n)) + (IF IsName(word[n + 1]) THEN 1 ELSE 0)
             /\ Cardinality(U(n + 1)) = Cardinality(U(n)) + (IF word[n + 1] = ".." THEN 1 ELSE 0)
  <2>1. n + 1 \notin D(n) /\ n + 1 \notin U(n)
      OBVIOUS
  <2>2. D(n + 1) = IF IsName(word[n + 1]) THEN D(n) \cup {n + 1} ELSE D(n)
      BY <1>5
  <2>3. U(n + 1) = IF word[n + 1] = ".." THEN U(n) \cup {n + 1} ELSE U(n)
      BY <1>5
  <2>4. Cardinality(D(n) \cup {n + 1}) = Cardinality(D(n)) + 1
      BY <1>2, <2>1, FS_AddElement
  <2>5. Cardinality(U(n) \cup {n + 1}) = Cardinality(U(n)) + 1
      BY <1>2, <2>1, FS_AddElement
  <2> HIDE DEF D, U
  <2> QED
      BY <1>3, <2>2, <2>3, <2>4, <2>5
<1> QED
    BY <1>3, <1>4, <1>5 DEF Downs, Ups

LEMMA CountedName ==
    ASSUME NEW word, NEW i \in Nat, NEW n \in Nat, i <= n + 1, IsName(word[n + 1])
    PROVE  /\ Downs(word, i, n) \in Nat /\ Ups(word, i, n) \in Nat
           /\ Downs(word, i, n + 1) = Downs(word, i, n) + 1
           /\ Ups(word, i, n + 1) = Ups(word, i, n)
<1>1. word[n + 1] # ".."
    BY DEF IsName
<1>2. (IF IsName(word[n + 1]) THEN 1 ELSE 0) = 1 /\ (IF word[n + 1] = ".." THEN 1 ELSE 0) = 0
    BY <1>1
<1>3. /\ Downs(word, i, n) \in Nat /\ Ups(word, i, n) \in Nat
      /\ Downs(word, i, n + 1) = Downs(word, i, n) + (IF IsName(word[n + 1]) THEN 1 ELSE 0)
      /\ Ups(word, i, n + 1) = Ups(word, i, n) + (IF word[n + 1] = ".." THEN 1 ELSE 0)
    BY Counted
<1> QED
    BY <1>2, <1>3

LEMMA CountedDot ==
    ASSUME NEW word, NEW i \in Nat, NEW n \in Nat, i <= n + 1, word[n + 1] = "."
    PROVE  /\ Downs(word, i, n) \in Nat /\ Ups(word, i, n) \in Nat
           /\ Downs(word, i, n + 1) = Downs(word, i, n)
           /\ Ups(word, i, n + 1) = Ups(word, i, n)
<1>1. ~IsName(word[n + 1]) /\ word[n + 1] # ".."
    BY DEF IsName
<1>2. (IF IsName(word[n + 1]) THEN 1 ELSE 0) = 0 /\ (IF word[n + 1] = ".." THEN 1 ELSE 0) = 0
    BY <1>1
<1>3. /\ Downs(word, i, n) \in Nat /\ Ups(word, i, n) \in Nat
      /\ Downs(word, i, n + 1) = Downs(word, i, n) + (IF IsName(word[n + 1]) THEN 1 ELSE 0)
      /\ Ups(word, i, n + 1) = Ups(word, i, n) + (IF word[n + 1] = ".." THEN 1 ELSE 0)
    BY Counted
<1> QED
    BY <1>2, <1>3

LEMMA CountedUp ==
    ASSUME NEW word, NEW i \in Nat, NEW n \in Nat, i <= n + 1, word[n + 1] = ".."
    PROVE  /\ Downs(word, i, n) \in Nat /\ Ups(word, i, n) \in Nat
           /\ Downs(word, i, n + 1) = Downs(word, i, n)
           /\ Ups(word, i, n + 1) = Ups(word, i, n) + 1
<1>1. ~IsName(word[n + 1])
    BY DEF IsName
<1>2. (IF IsName(word[n + 1]) THEN 1 ELSE 0) = 0 /\ (IF word[n + 1] = ".." THEN 1 ELSE 0) = 1
    BY <1>1
<1>3. /\ Downs(word, i, n) \in Nat /\ Ups(word, i, n) \in Nat
      /\ Downs(word, i, n + 1) = Downs(word, i, n) + (IF IsName(word[n + 1]) THEN 1 ELSE 0)
      /\ Ups(word, i, n + 1) = Ups(word, i, n) + (IF word[n + 1] = ".." THEN 1 ELSE 0)
    BY Counted
<1> QED
    BY <1>2, <1>3

LEMMA CountedNone ==
    ASSUME NEW word, NEW n \in Nat
    PROVE  Downs(word, n + 1, n) = 0 /\ Ups(word, n + 1, n) = 0
<1>1. n + 1 \in Nat /\ n + 1 > n
    OBVIOUS
<1> QED
    BY <1>1, Counted

(* The steps that stay of the first n.                                     *)
StaysTo(word, n) ==
    {i \in 1 .. n : \A j \in i .. n : Downs(word, i, j) > Ups(word, i, j)}

LEMMA StaysFinite ==
    ASSUME NEW word, NEW n \in Nat
    PROVE  /\ StaysTo(word, n) \subseteq 1 .. n
           /\ IsFiniteSet(StaysTo(word, n))
           /\ Cardinality(StaysTo(word, n)) \in Nat
<1>1. StaysTo(word, n) \subseteq 1 .. n
    BY DEF StaysTo
<1>2. IsFiniteSet(1 .. n)
    BY FS_Interval
<1>3. IsFiniteSet(StaysTo(word, n))
    BY <1>1, <1>2, FS_Subset
<1> QED
    BY <1>1, <1>3, FS_CardinalityType

(* One more step: a name stays, a "." changes nothing, ...                 *)
LEMMA StaysName ==
    ASSUME NEW word, NEW n \in Nat, IsName(word[n + 1])
    PROVE  StaysTo(word, n + 1) = StaysTo(word, n) \cup {n + 1}
<1>n. n + 1 \in Nat /\ n + 1 <= n + 1
    OBVIOUS
<1>0. word[n + 1] # ".."
    BY DEF IsName
<1>1. ASSUME NEW i \in 1 .. n
      PROVE  i \in StaysTo(word, n + 1) <=> i \in StaysTo(word, n)
  <2>1. /\ Downs(word, i, n) \in Nat /\ Ups(word, i, n) \in Nat
        /\ Downs(word, i, n + 1) = Downs(word, i, n) + 1
        /\ Ups(word, i, n + 1) = Ups(word, i, n)
      BY CountedName, CountedNone, <1>n
  <2>2. \A j \in i .. n + 1 : j \in i .. n \/ j = n + 1
      OBVIOUS
  <2>3. n \in i .. n /\ i .. n \subseteq i .. n + 1 /\ i \in 1 .. n + 1
      OBVIOUS
  <2>4. ASSUME i \in StaysTo(word, n), NEW j \in i .. n + 1
        PROVE  Downs(word, i, j) > Ups(word, i, j)
    <3>1. CASE j \in i .. n
        BY <2>4, <3>1 DEF StaysTo
    <3>2. CASE j = n + 1
      <4>1. Downs(word, i, n) > Ups(word, i, n)
          BY <2>3, <2>4 DEF StaysTo
      <4> QED
          BY <2>1, <3>2, <4>1
    <3> QED
        BY <2>2, <3>1, <3>2
  <2> QED
      BY <2>3, <2>4 DEF StaysTo
<1>2. n + 1 \in StaysTo(word, n + 1)
  <2>1. /\ Downs(word, n + 1, n + 1) = Downs(word, n + 1, n) + 1
        /\ Ups(word, n + 1, n + 1) = Ups(word, n + 1, n)
        /\ Downs(word, n + 1, n) = 0 /\ Ups(word, n + 1, n) = 0
      BY CountedName, CountedNone, <1>n
  <2>2. \A j \in n + 1 .. n + 1 : j = n + 1
      OBVIOUS
  <2> QED
      BY <2>1, <2>2 DEF StaysTo
<1>3. StaysTo(word, n + 1) \subseteq 1 .. n + 1 /\ StaysTo(word, n) \subseteq 1 .. n
    BY StaysFinite
<1>4. \A i \in 1 .. n + 1 : i \in 1 .. n \/ i = n + 1
    OBVIOUS
<1> QED
    BY <1>1, <1>2, <1>3, <1>4

LEMMA StaysDot ==
    ASSUME NEW word, NEW n \in Nat, word[n + 1] = "."
    PROVE  StaysTo(word, n + 1) = StaysTo(word, n)
<1>n. n + 1 \in Nat /\ n + 1 <= n + 1
    OBVIOUS
<1>0. ~IsName(word[n + 1]) /\ word[n + 1] # ".."
    BY DEF IsName
<1>1. ASSUME NEW i \in 1 .. n
      PROVE  i \in StaysTo(word, n + 1) <=> i \in StaysTo(word, n)
  <2>1. /\ Downs(word, i, n) \in Nat /\ Ups(word, i, n) \in Nat
        /\ Downs(word, i, n + 1) = Downs(word, i, n)
        /\ Ups(word, i, n + 1) = Ups(word, i, n)
      BY CountedDot, CountedNone, <1>n
  <2>2. \A j \in i .. n + 1 : j \in i .. n \/ j = n + 1
      OBVIOUS
  <2>3. n \in i .. n /\ i .. n \subseteq i .. n + 1 /\ i \in 1 .. n + 1
      OBVIOUS
  <2>4. ASSUME i \in StaysTo(word, n), NEW j \in i .. n + 1
        PROVE  Downs(word, i, j) > Ups(word, i, j)
    <3>1. CASE j \in i .. n
        BY <2>4, <3>1 DEF StaysTo
    <3>2. CASE j = n + 1
      <4>1. Downs(word, i, n) > Ups(word, i, n)
          BY <2>3, <2>4 DEF StaysTo
      <4> QED
          BY <2>1, <3>2, <4>1
    <3> QED
        BY <2>2, <3>1, <3>2
  <2> QED
      BY <2>3, <2>4 DEF StaysTo
<1>2. n + 1 \notin StaysTo(word, n + 1)
  <2>1. /\ Downs(word, n + 1, n + 1) = Downs(word, n + 1, n)
        /\ Downs(word, n + 1, n) = 0 /\ Ups(word, n + 1, n) = 0
        /\ Ups(word, n + 1, n + 1) \in {0, 1}
      BY CountedDot, CountedNone, <1>n
  <2>2. n + 1 \in n + 1 .. n + 1
      OBVIOUS
  <2> QED
      BY <2>1, <2>2 DEF StaysTo
<1>3. StaysTo(word, n + 1) \subseteq 1 .. n + 1 /\ StaysTo(word, n) \subseteq 1 .. n
    BY StaysFinite
<1>4. \A i \in 1 .. n + 1 : i \in 1 .. n \/ i = n + 1
    OBVIOUS
<1> QED
    BY <1>1, <1>2, <1>3, <1>4

(* ... and ".." takes those back that are one step down.                   *)
LEMMA StaysUp ==
    ASSUME NEW word, NEW n \in Nat, word[n + 1] = ".."
    PROVE  StaysTo(word, n + 1) = {i \in StaysTo(word, n) : Downs(word, i, n) > Ups(word, i, n) + 1}
<1>n. n + 1 \in Nat /\ n + 1 <= n + 1
    OBVIOUS
<1>0. ~IsName(word[n + 1])
    BY DEF IsName
<1>1. ASSUME NEW i \in 1 .. n
      PROVE  i \in StaysTo(word, n + 1) <=>
                 i \in StaysTo(word, n) /\ Downs(word, i, n) > Ups(word, i, n) + 1
  <2>1. /\ Downs(word, i, n) \in Nat /\ Ups(word, i, n) \in Nat
        /\ Downs(word, i, n + 1) = Downs(word, i, n)
        /\ Ups(word, i, n + 1) = Ups(word, i, n) + 1
      BY CountedUp, CountedNone, <1>n
  <2>2. \A j \in i .. n + 1 : j \in i .. n \/ j = n + 1
      OBVIOUS
  <2>3. n + 1 \in i .. n + 1 /\ i .. n \subseteq i .. n + 1 /\ i \in 1 .. n + 1
      OBVIOUS
  <2>4. (\A j \in i .. n + 1 : Downs(word, i, j) > Ups(word, i, j)) <=>
            /\ \A j \in i .. n : Downs(word, i, j) > Ups(word, i, j)
            /\ Downs(word, i, n) > Ups(word, i, n) + 1
      BY <2>1, <2>2, <2>3
  <2> QED
      BY <2>3, <2>4 DEF StaysTo
<1>2. n + 1 \notin StaysTo(word, n + 1)
  <2>1. /\ Downs(word, n + 1, n + 1) = Downs(word, n + 1, n)
        /\ Downs(word, n + 1, n) = 0 /\ Ups(word, n + 1, n) = 0
        /\ Ups(word, n + 1, n + 1) \in {0, 1}
      BY CountedUp, CountedNone, <1>n
  <2>2. n + 1 \in n + 1 .. n + 1
      OBVIOUS
  <2> QED
      BY <2>1, <2>2 DEF StaysTo
<1>3. StaysTo(word, n + 1) \subseteq 1 .. n + 1 /\ StaysTo(word, n) \subseteq 1 .. n
    BY StaysFinite
<1>4. \A i \in 1 .. n + 1 : i \in 1 .. n \/ i = n + 1
    OBVIOUS
<1> QED
    BY <1>1, <1>2, <1>3, <1>4

(* The directory the walk has come to after n steps is made of the steps   *)
(* that stay: the one at place k is step pos[k], and as many steps down as *)
(* there are from place k on stay of those since.                          *)
Stack(word, n, dir, pos) ==
    /\ pos \in [1 .. Len(dir) -> 1 .. n]
    /\ \A k, l \in 1 .. Len(dir) : k < l => pos[k] < pos[l]
    /\ \A i \in 1 .. n : i \in StaysTo(word, n) <=> \E k \in 1 .. Len(dir) : pos[k] = i
    /\ \A k \in 1 .. Len(dir) :
           /\ dir[k] = word[pos[k]]
           /\ Downs(word, pos[k], n) = Ups(word, pos[k], n) + Len(dir) - k + 1
    /\ Downs(word, 1, n) = Ups(word, 1, n) + Len(dir)

Follows(word, n, at) ==
    \/ /\ at.stopped = FALSE
       /\ \A j \in 1 .. n : ~ (Ups(word, 1, j) > Downs(word, 1, j))
       /\ \E pos : Stack(word, n, at.dir, pos)
    \/ /\ at.stopped = TRUE
       /\ at.dir = <<>>
       /\ \E j \in 1 .. n : Ups(word, 1, j) > Downs(word, 1, j)

(* What a directory is made of: no dots.                                   *)
DirNames == Names \cup {""}

Walks == [dir : Seq(DirNames), stopped : BOOLEAN]

LEMMA NameFollows ==
    ASSUME NEW word, NEW n \in Nat, IsName(word[n + 1]), word[n + 1] \in DirNames,
           NEW dir \in Seq(DirNames), NEW pos, Stack(word, n, dir, pos)
    PROVE  /\ ~ (Ups(word, 1, n + 1) > Downs(word, 1, n + 1))
           /\ \E q : Stack(word, n + 1, Append(dir, word[n + 1]), q)
<1> DEFINE c == word[n + 1]
           d == Append(dir, c)
           q == [k \in 1 .. Len(d) |-> IF k = Len(d) THEN n + 1 ELSE pos[k]]
<1>1. /\ d \in Seq(DirNames) /\ Len(d) = Len(dir) + 1 /\ Len(dir) \in Nat
      /\ d[Len(d)] = c
      /\ \A k \in 1 .. Len(dir) : d[k] = dir[k]
    OBVIOUS
<1>2. /\ pos \in [1 .. Len(dir) -> 1 .. n]
      /\ \A k, l \in 1 .. Len(dir) : k < l => pos[k] < pos[l]
      /\ \A i \in 1 .. n : i \in StaysTo(word, n) <=> \E k \in 1 .. Len(dir) : pos[k] = i
      /\ \A k \in 1 .. Len(dir) :
             /\ dir[k] = word[pos[k]]
             /\ Downs(word, pos[k], n) = Ups(word, pos[k], n) + Len(dir) - k + 1
      /\ Downs(word, 1, n) = Ups(word, 1, n) + Len(dir)
    BY DEF Stack
<1> HIDE DEF c, d
<1>3. /\ \A k \in 1 .. Len(dir) : q[k] = pos[k] /\ q[k] \in 1 .. n
      /\ q[Len(d)] = n + 1
      /\ \A k \in 1 .. Len(d) : k = Len(d) \/ k \in 1 .. Len(dir)
      /\ 1 .. Len(dir) \subseteq 1 .. Len(d) /\ Len(d) \in 1 .. Len(d)
    BY <1>1, <1>2
<1>4. q \in [1 .. Len(d) -> 1 .. n + 1]
    BY <1>1, <1>2
<1> HIDE DEF q
<1>5. ASSUME NEW k \in 1 .. Len(d), NEW l \in 1 .. Len(d), k < l PROVE q[k] < q[l]
  <2>1. k \in 1 .. Len(dir) /\ q[k] = pos[k] /\ q[k] \in 1 .. n
      BY <1>1, <1>3, <1>5
  <2>2. CASE l = Len(d)
      BY <1>3, <2>1, <2>2
  <2>3. CASE l \in 1 .. Len(dir)
      BY <1>2, <1>3, <1>5, <2>1, <2>3
  <2> QED
      BY <1>3, <2>2, <2>3
<1>6. \A i \in 1 .. n + 1 : i \in StaysTo(word, n + 1) <=> \E k \in 1 .. Len(d) : q[k] = i
  <2>1. StaysTo(word, n + 1) = StaysTo(word, n) \cup {n + 1}
      BY StaysName
  <2>2. StaysTo(word, n) \subseteq 1 .. n
      BY StaysFinite
  <2>3. ASSUME NEW i \in 1 .. n
        PROVE  i \in StaysTo(word, n + 1) <=> \E k \in 1 .. Len(d) : q[k] = i
    <3>1. i # n + 1
        OBVIOUS
    <3>2. (\E k \in 1 .. Len(d) : q[k] = i) <=> \E k \in 1 .. Len(dir) : pos[k] = i
        BY <1>3, <3>1
    <3> QED
        BY <1>2, <2>1, <3>1, <3>2
  <2>4. n + 1 \in StaysTo(word, n + 1) /\ \E k \in 1 .. Len(d) : q[k] = n + 1
      BY <1>3, <2>1
  <2>5. \A i \in 1 .. n + 1 : i \in 1 .. n \/ i = n + 1
      OBVIOUS
  <2> QED
      BY <2>3, <2>4, <2>5
<1>7. ASSUME NEW k \in 1 .. Len(d)
      PROVE  /\ d[k] = word[q[k]]
             /\ Downs(word, q[k], n + 1) = Ups(word, q[k], n + 1) + Len(d) - k + 1
  <2>1. CASE k = Len(d)
    <3>1. n + 1 \in Nat /\ n + 1 <= n + 1
        OBVIOUS
    <3>2. /\ Downs(word, n + 1, n + 1) = Downs(word, n + 1, n) + 1
          /\ Ups(word, n + 1, n + 1) = Ups(word, n + 1, n)
        BY <3>1, CountedName
    <3>3. Downs(word, n + 1, n) = 0 /\ Ups(word, n + 1, n) = 0
        BY CountedNone
    <3> QED
        BY <1>1, <1>3, <2>1, <3>2, <3>3 DEF c
  <2>2. CASE k \in 1 .. Len(dir)
    <3>1. q[k] = pos[k] /\ pos[k] \in Nat /\ pos[k] <= n + 1
        BY <1>3, <2>2
    <3>2. /\ Downs(word, pos[k], n) \in Nat /\ Ups(word, pos[k], n) \in Nat
          /\ Downs(word, pos[k], n + 1) = Downs(word, pos[k], n) + 1
          /\ Ups(word, pos[k], n + 1) = Ups(word, pos[k], n)
        BY <3>1, CountedName
    <3>3. /\ d[k] = word[pos[k]]
          /\ Downs(word, pos[k], n) = Ups(word, pos[k], n) + Len(dir) - k + 1
        BY <1>1, <1>2, <2>2
    <3> QED
        BY <1>1, <2>2, <3>1, <3>2, <3>3
  <2> QED
      BY <1>3, <2>1, <2>2
<1>8. /\ Downs(word, 1, n + 1) = Ups(word, 1, n + 1) + Len(d)
      /\ ~ (Ups(word, 1, n + 1) > Downs(word, 1, n + 1))
  <2>1. 1 \in Nat /\ 1 <= n + 1
      OBVIOUS
  <2>2. /\ Downs(word, 1, n) \in Nat /\ Ups(word, 1, n) \in Nat
        /\ Downs(word, 1, n + 1) = Downs(word, 1, n) + 1
        /\ Ups(word, 1, n + 1) = Ups(word, 1, n)
      BY <2>1, CountedName
  <2> QED
      BY <1>1, <1>2, <2>2
<1>9. Stack(word, n + 1, d, q)
    BY <1>4, <1>5, <1>6, <1>7, <1>8 DEF Stack
<1> QED
    BY <1>8, <1>9 DEF d, c

LEMMA DotFollows ==
    ASSUME NEW word, NEW n \in Nat, word[n + 1] = ".",
           NEW dir \in Seq(DirNames), NEW pos, Stack(word, n, dir, pos)
    PROVE  /\ ~ (Ups(word, 1, n + 1) > Downs(word, 1, n + 1))
           /\ \E q : Stack(word, n + 1, dir, q)
<1>0. Len(dir) \in Nat
    OBVIOUS
<1>1. /\ pos \in [1 .. Len(dir) -> 1 .. n]
      /\ \A k, l \in 1 .. Len(dir) : k < l => pos[k] < pos[l]
      /\ \A i \in 1 .. n : i \in StaysTo(word, n) <=> \E k \in 1 .. Len(dir) : pos[k] = i
      /\ \A k \in 1 .. Len(dir) :
             /\ dir[k] = word[pos[k]]
             /\ Downs(word, pos[k], n) = Ups(word, pos[k], n) + Len(dir) - k + 1
      /\ Downs(word, 1, n) = Ups(word, 1, n) + Len(dir)
    BY DEF Stack
<1>2. pos \in [1 .. Len(dir) -> 1 .. n + 1]
    BY <1>1
<1>3. \A i \in 1 .. n + 1 : i \in StaysTo(word, n + 1) <=> \E k \in 1 .. Len(dir) : pos[k] = i
  <2>1. StaysTo(word, n + 1) = StaysTo(word, n)
      BY StaysDot
  <2>2. StaysTo(word, n) \subseteq 1 .. n
      BY StaysFinite
  <2>3. \A k \in 1 .. Len(dir) : pos[k] \in 1 .. n
      BY <1>1
  <2>4. n + 1 \notin 1 .. n /\ \A i \in 1 .. n + 1 : i \in 1 .. n \/ i = n + 1
      OBVIOUS
  <2>5. n + 1 \notin StaysTo(word, n + 1) /\ ~ \E k \in 1 .. Len(dir) : pos[k] = n + 1
      BY <2>1, <2>2, <2>3, <2>4
  <2> QED
      BY <1>1, <2>1, <2>4, <2>5
<1>4. ASSUME NEW k \in 1 .. Len(dir)
      PROVE  /\ dir[k] = word[pos[k]]
             /\ Downs(word, pos[k], n + 1) = Ups(word, pos[k], n + 1) + Len(dir) - k + 1
  <2>1. pos[k] \in Nat /\ pos[k] <= n + 1
      BY <1>1
  <2>2. /\ Downs(word, pos[k], n + 1) = Downs(word, pos[k], n)
        /\ Ups(word, pos[k], n + 1) = Ups(word, pos[k], n)
      BY <2>1, CountedDot
  <2> QED
      BY <1>1, <2>2
<1>5. /\ Downs(word, 1, n + 1) = Ups(word, 1, n + 1) + Len(dir)
      /\ ~ (Ups(word, 1, n + 1) > Downs(word, 1, n + 1))
  <2>1. 1 \in Nat /\ 1 <= n + 1
      OBVIOUS
  <2>2. /\ Downs(word, 1, n) \in Nat /\ Ups(word, 1, n) \in Nat
        /\ Downs(word, 1, n + 1) = Downs(word, 1, n)
        /\ Ups(word, 1, n + 1) = Ups(word, 1, n)
      BY <2>1, CountedDot
  <2> QED
      BY <1>0, <1>1, <2>2
<1>6. Stack(word, n + 1, dir, pos)
    BY <1>1, <1>2, <1>3, <1>4, <1>5 DEF Stack
<1> QED
    BY <1>5, <1>6

LEMMA UpFollows ==
    ASSUME NEW word, NEW n \in Nat, word[n + 1] = "..",
           NEW dir \in Seq(DirNames), dir # <<>>, NEW pos, Stack(word, n, dir, pos)
    PROVE  /\ ~ (Ups(word, 1, n + 1) > Downs(word, 1, n + 1))
           /\ \E q : Stack(word, n + 1, Front(dir), q)
<1> DEFINE d == Front(dir)
           q == [k \in 1 .. Len(d) |-> pos[k]]
<1>1. /\ d \in Seq(DirNames) /\ Len(dir) = Len(d) + 1 /\ Len(d) \in Nat
      /\ \A k \in 1 .. Len(d) : d[k] = dir[k]
  <2>1. Len(dir) \in Nat /\ Len(dir) # 0
      OBVIOUS
  <2>2. d = SubSeq(dir, 1, Len(dir) - 1)
      BY DEF Front
  <2>3. 1 \in Int /\ Len(dir) - 1 \in Int /\ \A i \in 1 .. Len(dir) - 1 : dir[i] \in DirNames
      BY <2>1
  <2>4. /\ d \in Seq(DirNames)
        /\ Len(d) = IF 1 <= Len(dir) - 1 THEN Len(dir) - 1 - 1 + 1 ELSE 0
        /\ \A i \in 1 .. Len(dir) - 1 - 1 + 1 : d[i] = dir[1 + i - 1]
      BY <2>2, <2>3, SubSeqProperties
  <2> HIDE DEF d
  <2>5. d \in Seq(DirNames) /\ Len(d) = Len(dir) - 1
    <3>1. \A l \in Nat : l # 0 => (IF 1 <= l - 1 THEN l - 1 - 1 + 1 ELSE 0) = l - 1
        OBVIOUS
    <3> QED
        BY <2>1, <2>4, <3>1
  <2>6. ASSUME NEW k \in 1 .. Len(d) PROVE d[k] = dir[k]
    <3>1. k \in 1 .. Len(dir) - 1 - 1 + 1 /\ 1 + k - 1 = k
        BY <2>1, <2>5
    <3> QED
        BY <2>4, <3>1
  <2> QED
      BY <2>1, <2>5, <2>6
<1>2. /\ pos \in [1 .. Len(dir) -> 1 .. n]
      /\ \A k, l \in 1 .. Len(dir) : k < l => pos[k] < pos[l]
      /\ \A i \in 1 .. n : i \in StaysTo(word, n) <=> \E k \in 1 .. Len(dir) : pos[k] = i
      /\ \A k \in 1 .. Len(dir) :
             /\ dir[k] = word[pos[k]]
             /\ Downs(word, pos[k], n) = Ups(word, pos[k], n) + Len(dir) - k + 1
      /\ Downs(word, 1, n) = Ups(word, 1, n) + Len(dir)
    BY DEF Stack
<1> HIDE DEF d
<1>r. /\ \A k \in 1 .. Len(d) : k \in 1 .. Len(dir)
      /\ \A k \in 1 .. Len(dir) : k = Len(dir) \/ k \in 1 .. Len(d)
      /\ Len(dir) \in 1 .. Len(dir)
    BY <1>1
<1>3. \A k \in 1 .. Len(d) : q[k] = pos[k] /\ q[k] \in 1 .. n /\ k \in 1 .. Len(dir)
    BY <1>2, <1>r
<1>4. q \in [1 .. Len(d) -> 1 .. n + 1]
    BY <1>1, <1>2
<1> HIDE DEF q
<1>5. \A k, l \in 1 .. Len(d) : k < l => q[k] < q[l]
    BY <1>2, <1>3
<1>c. ASSUME NEW k \in 1 .. Len(dir)
      PROVE  /\ pos[k] \in 1 .. n
             /\ Downs(word, pos[k], n) \in Nat /\ Ups(word, pos[k], n) \in Nat
             /\ Downs(word, pos[k], n + 1) = Downs(word, pos[k], n)
             /\ Ups(word, pos[k], n + 1) = Ups(word, pos[k], n) + 1
             /\ Downs(word, pos[k], n) > Ups(word, pos[k], n) + 1 <=> k \in 1 .. Len(d)
  <2>1. pos[k] \in 1 .. n /\ pos[k] \in Nat /\ pos[k] <= n + 1
      BY <1>2
  <2>2. /\ Downs(word, pos[k], n) \in Nat /\ Ups(word, pos[k], n) \in Nat
        /\ Downs(word, pos[k], n + 1) = Downs(word, pos[k], n)
        /\ Ups(word, pos[k], n + 1) = Ups(word, pos[k], n) + 1
      BY <2>1, CountedUp
  <2>3. Downs(word, pos[k], n) = Ups(word, pos[k], n) + Len(dir) - k + 1
      BY <1>2
  <2> QED
      BY <1>1, <2>1, <2>2, <2>3
<1>6. \A i \in 1 .. n + 1 : i \in StaysTo(word, n + 1) <=> \E k \in 1 .. Len(d) : q[k] = i
  <2>1. StaysTo(word, n + 1) = {i \in StaysTo(word, n) : Downs(word, i, n) > Ups(word, i, n) + 1}
      BY StaysUp
  <2>2. StaysTo(word, n) \subseteq 1 .. n
      BY StaysFinite
  <2>3. ASSUME NEW i \in StaysTo(word, n + 1)
        PROVE  \E k \in 1 .. Len(d) : q[k] = i
    <3>1. i \in 1 .. n /\ i \in StaysTo(word, n) /\ Downs(word, i, n) > Ups(word, i, n) + 1
        BY <2>1, <2>2
    <3>2. PICK k \in 1 .. Len(dir) : pos[k] = i
        BY <1>2, <3>1
    <3>3. k \in 1 .. Len(d)
        BY <1>c, <3>1, <3>2
    <3> QED
        BY <1>3, <3>2, <3>3
  <2>4. ASSUME NEW k \in 1 .. Len(d)
        PROVE  q[k] \in StaysTo(word, n + 1)
    <3>1. q[k] = pos[k] /\ k \in 1 .. Len(dir)
        BY <1>3
    <3>2. pos[k] \in StaysTo(word, n)
        BY <1>2, <1>c, <3>1
    <3>3. Downs(word, pos[k], n) > Ups(word, pos[k], n) + 1
        BY <1>c, <3>1
    <3> QED
        BY <2>1, <3>1, <3>2, <3>3
  <2> QED
      BY <2>3, <2>4
<1>7. ASSUME NEW k \in 1 .. Len(d)
      PROVE  /\ d[k] = word[q[k]]
             /\ Downs(word, q[k], n + 1) = Ups(word, q[k], n + 1) + Len(d) - k + 1
  <2>1. q[k] = pos[k] /\ k \in 1 .. Len(dir)
      BY <1>3
  <2>2. /\ Downs(word, pos[k], n) \in Nat /\ Ups(word, pos[k], n) \in Nat
        /\ Downs(word, pos[k], n + 1) = Downs(word, pos[k], n)
        /\ Ups(word, pos[k], n + 1) = Ups(word, pos[k], n) + 1
      BY <1>c, <2>1
  <2>3. /\ d[k] = word[pos[k]]
        /\ Downs(word, pos[k], n) = Ups(word, pos[k], n) + Len(dir) - k + 1
      BY <1>1, <1>2, <2>1
  <2> QED
      BY <1>1, <2>1, <2>2, <2>3
<1>8. /\ Downs(word, 1, n + 1) = Ups(word, 1, n + 1) + Len(d)
      /\ ~ (Ups(word, 1, n + 1) > Downs(word, 1, n + 1))
  <2>1. 1 \in Nat /\ 1 <= n + 1
      OBVIOUS
  <2>2. /\ Downs(word, 1, n) \in Nat /\ Ups(word, 1, n) \in Nat
        /\ Downs(word, 1, n + 1) = Downs(word, 1, n)
        /\ Ups(word, 1, n + 1) = Ups(word, 1, n) + 1
      BY <2>1, CountedUp
  <2> QED
      BY <1>1, <1>2, <2>2
<1>9. Stack(word, n + 1, d, q)
    BY <1>4, <1>5, <1>6, <1>7, <1>8 DEF Stack
<1> QED
    BY <1>8, <1>9 DEF d

(* One component of the path.                                              *)
LEMMA StepFollows ==
    ASSUME NEW word, NEW n \in Nat, word[n + 1] \in Components,
           NEW at \in Walks, Follows(word, n, at)
    PROVE  /\ WalkStep(at, word[n + 1]) \in Walks
           /\ Follows(word, n + 1, WalkStep(at, word[n + 1]))
<1> DEFINE c == word[n + 1]
<1>0. /\ \A j \in 1 .. n + 1 : j \in 1 .. n \/ j = n + 1
      /\ 1 .. n \subseteq 1 .. n + 1 /\ n + 1 \in 1 .. n + 1
    OBVIOUS
<1>1. CASE at.stopped
  <2>1. WalkStep(at, c) = at
      BY <1>1 DEF WalkStep
  <2>2. at.dir = <<>> /\ \E j \in 1 .. n : Ups(word, 1, j) > Downs(word, 1, j)
      BY <1>1 DEF Follows
  <2>3. \E j \in 1 .. n + 1 : Ups(word, 1, j) > Downs(word, 1, j)
      BY <1>0, <2>2
  <2>4. at.stopped = TRUE
      BY <1>1 DEF Walks
  <2> QED
      BY <2>1, <2>2, <2>3, <2>4 DEF Follows
<1>2. CASE ~ at.stopped
  <2>1. at.stopped = FALSE /\ at.dir \in Seq(DirNames) /\ at = [dir |-> at.dir, stopped |-> FALSE]
      BY <1>2 DEF Walks
  <2>2. /\ \A j \in 1 .. n : ~ (Ups(word, 1, j) > Downs(word, 1, j))
        /\ \E pos : Stack(word, n, at.dir, pos)
      BY <1>2, <2>1 DEF Follows
  <2>3. PICK pos : Stack(word, n, at.dir, pos)
      BY <2>2
  <2>4. ASSUME NEW d \in Seq(DirNames), WalkStep(at, c) = [at EXCEPT !.dir = d],
               /\ ~ (Ups(word, 1, n + 1) > Downs(word, 1, n + 1))
               /\ \E q : Stack(word, n + 1, d, q)
        PROVE  WalkStep(at, c) \in Walks /\ Follows(word, n + 1, WalkStep(at, c))
    <3>1. /\ [at EXCEPT !.dir = d] \in Walks
          /\ [at EXCEPT !.dir = d].dir = d
          /\ [at EXCEPT !.dir = d].stopped = FALSE
        BY <2>1 DEF Walks
    <3>2. \A j \in 1 .. n + 1 : ~ (Ups(word, 1, j) > Downs(word, 1, j))
        BY <1>0, <2>2, <2>4
    <3>3. WalkStep(at, c) \in Walks /\ WalkStep(at, c).dir = d /\ WalkStep(at, c).stopped = FALSE
        BY <2>4, <3>1
    <3> QED
        BY <2>4, <3>2, <3>3 DEF Follows
  <2>5. CASE c = "."
    <3>1. WalkStep(at, c) = at
        BY <2>5 DEF WalkStep
    <3>2. WalkStep(at, c) = [at EXCEPT !.dir = at.dir]
        BY <2>1, <3>1
    <3>3. /\ ~ (Ups(word, 1, n + 1) > Downs(word, 1, n + 1))
          /\ \E q : Stack(word, n + 1, at.dir, q)
        BY <2>1, <2>3, <2>5, DotFollows
    <3> QED
        BY <2>1, <2>4, <3>2, <3>3
  <2>6. CASE c = ".." /\ at.dir = <<>>
    <3>1. WalkStep(at, c) = [at EXCEPT !.stopped = TRUE]
        BY <1>2, <2>6 DEF WalkStep
    <3>2. WalkStep(at, c) = [dir |-> <<>>, stopped |-> TRUE]
        BY <2>1, <2>6, <3>1
    <3>3. WalkStep(at, c) \in Walks
      <4>1. <<>> \in Seq(DirNames)
          OBVIOUS
      <4> QED
          BY <3>2, <4>1 DEF Walks
    <3>4. Ups(word, 1, n + 1) > Downs(word, 1, n + 1)
      <4>1. 1 \in Nat /\ 1 <= n + 1
          OBVIOUS
      <4>2. /\ Downs(word, 1, n) \in Nat /\ Ups(word, 1, n) \in Nat
            /\ Downs(word, 1, n + 1) = Downs(word, 1, n)
            /\ Ups(word, 1, n + 1) = Ups(word, 1, n) + 1
          BY <2>6, <4>1, CountedUp
      <4>3. Downs(word, 1, n) = Ups(word, 1, n) + Len(at.dir) /\ Len(at.dir) = 0
          BY <2>3, <2>6 DEF Stack
      <4> QED
          BY <4>2, <4>3
    <3> QED
        BY <1>0, <3>2, <3>3, <3>4 DEF Follows
  <2>7. CASE c = ".." /\ at.dir # <<>>
    <3>1. WalkStep(at, c) = [at EXCEPT !.dir = Front(at.dir)]
        BY <1>2, <2>7 DEF WalkStep
    <3>2. Front(at.dir) \in Seq(DirNames)
        BY <2>1, <2>7 DEF Front
    <3>3. /\ ~ (Ups(word, 1, n + 1) > Downs(word, 1, n + 1))
          /\ \E q : Stack(word, n + 1, Front(at.dir), q)
        BY <2>1, <2>3, <2>7, UpFollows
    <3> QED
        BY <2>4, <3>1, <3>2, <3>3
  <2>8. CASE c # "." /\ c # ".."
    <3>1. WalkStep(at, c) = [at EXCEPT !.dir = Append(at.dir, c)]
        BY <1>2, <2>8 DEF WalkStep
    <3>2. c \in DirNames /\ Append(at.dir, c) \in Seq(DirNames)
      <4>1. c \in DirNames
          BY <2>8 DEF Components, DirNames
      <4> QED
          BY <2>1, <4>1
    <3>3. IsName(c)
        BY <2>8 DEF IsName
    <3>4. /\ ~ (Ups(word, 1, n + 1) > Downs(word, 1, n + 1))
          /\ \E q : Stack(word, n + 1, Append(at.dir, c), q)
        BY <2>1, <2>3, <3>2, <3>3, NameFollows
    <3> QED
        BY <2>4, <3>1, <3>2, <3>4
  <2> QED
      BY <2>5, <2>6, <2>7, <2>8
<1> QED
    BY <1>1, <1>2

(* Before the first component: what the walk starts from, all of it names. *)
LEMMA StartFollows ==
    ASSUME NEW word, NEW start \in Seq(DirNames),
           \A i \in 1 .. Len(start) : word[i] = start[i]
    PROVE  Follows(word, Len(start), [dir |-> start, stopped |-> FALSE])
<1> DEFINE m == Len(start)
           pos == [k \in 1 .. m |-> k]
<1>0. m \in Nat
    OBVIOUS
<1>n. \A i \in 1 .. m : IsName(word[i])
  <2>1. \A c \in DirNames : IsName(c)
      BY FtpPathsAssumption DEF DirNames, IsName
  <2>2. \A i \in 1 .. m : start[i] \in DirNames
      OBVIOUS
  <2> QED
      BY <2>1, <2>2
<1> HIDE DEF m
<1>1. ASSUME NEW i \in Nat, 1 <= i, NEW j \in Nat, j <= m
      PROVE  /\ Downs(word, i, j) = IF i > j THEN 0 ELSE j - i + 1
             /\ Ups(word, i, j) = 0
  <2>1. {k \in i .. j : IsName(word[k])} = i .. j
      BY <1>0, <1>1, <1>n
  <2>2. {k \in i .. j : word[k] = ".."} = {}
      BY <1>0, <1>1, <1>n DEF IsName
  <2>3. Cardinality(i .. j) = IF i > j THEN 0 ELSE j - i + 1
      BY FS_Interval
  <2> QED
      BY <2>1, <2>2, <2>3, FS_EmptySet DEF Downs, Ups
<1>2. \A j \in 1 .. m : ~ (Ups(word, 1, j) > Downs(word, 1, j))
  <2>1. ASSUME NEW j \in 1 .. m PROVE ~ (Ups(word, 1, j) > Downs(word, 1, j))
    <3>1. Ups(word, 1, j) = 0 /\ Downs(word, 1, j) = j
        BY <1>0, <1>1
    <3> QED
        BY <3>1
  <2> QED
      BY <2>1
<1>3. \A i \in 1 .. m : i \in StaysTo(word, m)
  <2>1. ASSUME NEW i \in 1 .. m, NEW j \in i .. m
        PROVE  Downs(word, i, j) > Ups(word, i, j)
    <3>1. i \in Nat /\ 1 <= i /\ j \in Nat /\ j <= m /\ ~ (i > j)
        BY <1>0
    <3>2. Ups(word, i, j) = 0 /\ Downs(word, i, j) = j - i + 1
        BY <1>1, <3>1
    <3> QED
        BY <3>1, <3>2
  <2> QED
      BY <2>1 DEF StaysTo
<1>4. \A k \in 1 .. m : pos[k] = k
    OBVIOUS
<1>5. pos \in [1 .. m -> 1 .. m]
    OBVIOUS
<1> HIDE DEF pos
<1>6. \A k, l \in 1 .. m : k < l => pos[k] < pos[l]
    BY <1>4
<1>7. \A i \in 1 .. m : i \in StaysTo(word, m) <=> \E k \in 1 .. m : pos[k] = i
    BY <1>3, <1>4
<1>8. ASSUME NEW k \in 1 .. m
      PROVE  /\ start[k] = word[pos[k]]
             /\ Downs(word, pos[k], m) = Ups(word, pos[k], m) + m - k + 1
  <2>1. pos[k] = k /\ start[k] = word[k]
      BY <1>4 DEF m
  <2>2. Downs(word, k, m) = m - k + 1 /\ Ups(word, k, m) = 0
    <3>1. k \in Nat /\ 1 <= k /\ m \in Nat /\ m <= m /\ ~ (k > m)
        BY <1>0
    <3> QED
        BY <1>1, <3>1
  <2> QED
      BY <1>0, <2>1, <2>2
<1>9. Downs(word, 1, m) = Ups(word, 1, m) + m
  <2>1. Ups(word, 1, m) = 0 /\ Downs(word, 1, m) = IF 1 > m THEN 0 ELSE m - 1 + 1
    <3>1. 1 \in Nat /\ 1 <= 1 /\ m <= m
        BY <1>0
    <3> QED
        BY <1>0, <1>1, <3>1
  <2> QED
      BY <1>0, <2>1
<1>10. Stack(word, m, start, pos)
    BY <1>5, <1>6, <1>7, <1>8, <1>9 DEF Stack, m
<1> QED
    BY <1>2, <1>10 DEF Follows, m

(* At the end: the directory is what the path means.                       *)
LEMMA StackIsMeaning ==
    ASSUME NEW word \in Seq(Components), NEW dir \in Seq(DirNames),
           NEW pos, Stack(word, Len(word), dir, pos)
    PROVE  dir = Meaning(word)
<1> DEFINE S == Stays(word)
           d == Len(dir)
<1>0. Len(word) \in Nat /\ d \in Nat /\ DOMAIN word = 1 .. Len(word)
    OBVIOUS
<1>1. S = StaysTo(word, Len(word))
    BY <1>0 DEF Stays, StaysTo
<1>2. /\ pos \in [1 .. d -> 1 .. Len(word)]
      /\ \A k, l \in 1 .. d : k < l => pos[k] < pos[l]
      /\ \A k \in 1 .. d : dir[k] = word[pos[k]]
    BY DEF Stack
<1>3. /\ \A k \in 1 .. d : pos[k] \in S
      /\ \A i \in S : \E k \in 1 .. d : pos[k] = i
  <2>1. S \subseteq 1 .. Len(word)
      BY <1>0, <1>1, StaysFinite
  <2>2. \A i \in 1 .. Len(word) : i \in S <=> \E k \in 1 .. d : pos[k] = i
      BY <1>1 DEF Stack
  <2> HIDE DEF S
  <2> QED
      BY <1>2, <2>1, <2>2
<1> HIDE DEF S, d
<1>4. \A k, l \in 1 .. d : pos[k] = pos[l] => k = l
  <2>1. ASSUME NEW k \in 1 .. d, NEW l \in 1 .. d, pos[k] = pos[l] PROVE k = l
    <3>1. pos[k] \in 1 .. Len(word) /\ pos[l] \in 1 .. Len(word)
        BY <1>2
    <3>2. ~ (k < l) /\ ~ (l < k)
        BY <1>0, <1>2, <2>1, <3>1
    <3> QED
        BY <1>0, <3>2
  <2> QED
      BY <2>1
<1>5. ASSUME NEW k \in 0 .. d, NEW T, T \subseteq S,
             \A l \in 1 .. d : l <= k <=> pos[l] \in T
      PROVE  Cardinality(T) = k
  <2> DEFINE f == [l \in 1 .. k |-> pos[l]]
  <2>1. \A l \in 1 .. k : l \in 1 .. d /\ f[l] = pos[l] /\ f[l] \in T
      BY <1>0, <1>5
  <2>2. f \in [1 .. k -> T]
      BY <2>1
  <2>3. \A t \in T : \E l \in 1 .. k : f[l] = t
    <3>1. ASSUME NEW t \in T PROVE \E l \in 1 .. k : f[l] = t
      <4>1. PICK l \in 1 .. d : pos[l] = t
          BY <1>3, <1>5
      <4>2. l \in 1 .. k
          BY <1>0, <1>5, <4>1
      <4> QED
          BY <2>1, <4>1, <4>2
    <3> QED
        BY <3>1
  <2>4. \A a, b \in 1 .. k : f[a] = f[b] => a = b
      BY <1>4, <2>1
  <2> HIDE DEF f
  <2>5. f \in Bijection(1 .. k, T)
      BY <2>2, <2>3, <2>4 DEF Bijection, Injection, Surjection, IsInjective
  <2>6. ExistsBijection(1 .. k, T) /\ k \in Nat
      BY <1>0, <2>5 DEF ExistsBijection
  <2> QED
      BY <2>6, FS_CountingElements
<1>6. Cardinality(S) = d
  <2>1. d \in 0 .. d /\ S \subseteq S /\ \A l \in 1 .. d : l <= d <=> pos[l] \in S
      BY <1>0, <1>3
  <2> QED
      BY <1>5, <2>1
<1>7. \A k \in 1 .. d : Place(pos[k], S) = k
  <2>1. ASSUME NEW k \in 1 .. d PROVE Place(pos[k], S) = k
    <3> DEFINE T == {j \in S : j <= pos[k]}
    <3>1. ASSUME NEW l \in 1 .. d PROVE l <= k <=> pos[l] \in T
      <4>1. pos[k] \in 1 .. Len(word) /\ pos[l] \in 1 .. Len(word) /\ pos[l] \in S
          BY <1>2, <1>3
      <4>2. l < k => pos[l] < pos[k]
          BY <1>2
      <4>3. k < l => pos[k] < pos[l]
          BY <1>2
      <4>4. l < k \/ l = k \/ k < l
          BY <1>0
      <4>5. l <= k <=> pos[l] <= pos[k]
          BY <1>0, <4>1, <4>2, <4>3, <4>4
      <4> QED
          BY <4>1, <4>5
    <3>2. T \subseteq S /\ k \in 0 .. d
        BY <1>0
    <3>3. Place(pos[k], S) = Cardinality(T)
        BY DEF Place
    <3> HIDE DEF T
    <3> QED
        BY <1>5, <3>1, <3>2, <3>3
  <2> QED
      BY <2>1
<1>8. ASSUME NEW k \in 1 .. d
      PROVE  (CHOOSE i \in S : Place(i, S) = k) = pos[k]
  <2>1. pos[k] \in S /\ Place(pos[k], S) = k
      BY <1>3, <1>7
  <2>2. ASSUME NEW i \in S, Place(i, S) = k PROVE i = pos[k]
    <3>1. PICK l \in 1 .. d : pos[l] = i
        BY <1>3
    <3>2. l = k
        BY <1>7, <2>2, <3>1
    <3> QED
        BY <3>1, <3>2
  <2> QED
      BY <2>1, <2>2
<1>9. Meaning(word) = [k \in 1 .. d |-> word[CHOOSE i \in S : Place(i, S) = k]]
    BY <1>6 DEF Meaning, S
<1>10. Meaning(word) = [k \in 1 .. d |-> dir[k]]
  <2>1. \A k \in 1 .. d : word[CHOOSE i \in S : Place(i, S) = k] = dir[k]
      BY <1>2, <1>8
  <2> QED
      BY <1>9, <2>1
<1>11. dir = [k \in 1 .. d |-> dir[k]]
    BY DEF d
<1> QED
    BY <1>10, <1>11

LEMMA WalkFollows ==
    ASSUME NEW start \in Seq(DirNames), NEW cs \in Seq(Components)
    PROVE  \A n \in 0 .. Len(cs) :
               /\ Walk(start, cs)[n] \in Walks
               /\ Follows(start \o cs, Len(start) + n, Walk(start, cs)[n])
<1> DEFINE word == start \o cs
           m == Len(start)
           w == Walk(start, cs)
           P(n) == w[n] \in Walks /\ Follows(word, m + n, w[n])
           T == {n \in 0 .. Len(cs) : ~ P(n)}
<1>0. /\ m \in Nat /\ Len(cs) \in Nat
      /\ \A i \in 1 .. m : word[i] = start[i]
      /\ \A i \in 1 .. Len(cs) : word[m + i] = cs[i]
      /\ \A i \in 1 .. Len(cs) : cs[i] \in Components
    OBVIOUS
<1>1. /\ w[0] = [dir |-> start, stopped |-> FALSE]
      /\ \A n \in 1 .. Len(cs) : w[n] = WalkStep(w[n - 1], cs[n])
    BY <1>0, WalkSteps
<1> HIDE DEF word, m, w
<1>2. P(0)
  <2>1. Follows(word, m, [dir |-> start, stopped |-> FALSE])
      BY <1>0, StartFollows DEF m
  <2>2. [dir |-> start, stopped |-> FALSE] \in Walks
      BY DEF Walks
  <2>3. m + 0 = m
      BY <1>0
  <2> QED
      BY <1>1, <2>1, <2>2, <2>3
<1>3. ASSUME NEW n \in 1 .. Len(cs), P(n - 1) PROVE P(n)
  <2>1. m + (n - 1) \in Nat /\ m + (n - 1) + 1 = m + n /\ word[m + n] \in Components
      BY <1>0
  <2>2. w[n] = WalkStep(w[n - 1], word[m + n])
      BY <1>0, <1>1
  <2> QED
      BY <1>3, <2>1, <2>2, StepFollows
<1> SUFFICES ASSUME T # {} PROVE FALSE
    BY DEF word, m, w
<1>4. T \in SUBSET Nat
    OBVIOUS
<1>5. PICK n \in T : \A k \in T : n <= k
  <2> HIDE DEF T
  <2> QED
      BY <1>4, Least
<1>6. n \in 0 .. Len(cs) /\ ~ P(n)
    OBVIOUS
<1> HIDE DEF P
<1>7. n \in 1 .. Len(cs) /\ n - 1 \in 0 .. Len(cs)
    BY <1>0, <1>2, <1>6
<1>8. n - 1 \notin T
    BY <1>5, <1>7
<1>9. P(n - 1)
    BY <1>7, <1>8
<1> QED
    BY <1>3, <1>6, <1>7, <1>9

LEMMA TrimmedRoot == Trimmed(<<>>) = <<>>
<1>1. {i \in DOMAIN <<>> : <<>>[i] # ""} = {}
    OBVIOUS
<1> QED
    BY <1>1 DEF Trimmed

(* From any directory along any path, of whatever length.                  *)
AnyPaths == [absolute : BOOLEAN, components : Seq(Components)]

LEMMA AnyStart ==
    ASSUME NEW dir \in Seq(DirNames), NEW path \in AnyPaths
    PROVE  path.components \in Seq(Components) /\ Start(dir, path) \in Seq(DirNames)
<1>1. path.components \in Seq(Components)
    BY DEF AnyPaths
<1>2. <<>> \in Seq(DirNames)
    OBVIOUS
<1>3. Start(dir, path) \in Seq(DirNames)
    BY <1>2 DEF Start
<1> QED
    BY <1>1, <1>3

LEMMA LeadsAnyPath ==
    ASSUME NEW dir \in Seq(DirNames), NEW path \in AnyPaths
    PROVE  LET word == Start(dir, path) \o path.components
           IN  Cwd(dir, path) = IF LeavesRoot(word) THEN <<>> ELSE Trimmed(Meaning(word))
<1> DEFINE start == Start(dir, path)
           cs == path.components
           word == start \o cs
           at == Walk(start, cs)[Len(cs)]
<1>0. cs \in Seq(Components) /\ start \in Seq(DirNames)
    BY AnyStart
<1>1. start \in Seq(Components)
  <2>1. DirNames \subseteq Components
      BY DEF DirNames, Components
  <2> HIDE DEF start
  <2> QED
      BY <1>0, <2>1
<1> HIDE DEF start, cs
<1>2. /\ word \in Seq(Components) /\ Len(word) = Len(start) + Len(cs)
      /\ DOMAIN word = 1 .. Len(word)
      /\ Len(cs) \in Nat
    BY <1>0, <1>1
<1>3. at \in Walks /\ Follows(word, Len(word), at)
  <2>1. Len(cs) \in 0 .. Len(cs)
      BY <1>2
  <2> QED
      BY <1>0, <1>2, <2>1, WalkFollows
<1>4. Cwd(dir, path) = Trimmed(at.dir)
    BY DEF Cwd, start, cs
<1>5. LeavesRoot(word) <=> \E j \in 1 .. Len(word) : Ups(word, 1, j) > Downs(word, 1, j)
    BY <1>2 DEF LeavesRoot
<1> HIDE DEF word, at
<1>6. CASE LeavesRoot(word)
  <2>1. at.dir = <<>>
      BY <1>3, <1>5, <1>6 DEF Follows
  <2> QED
      BY <1>4, <1>6, <2>1, TrimmedRoot DEF word, start, cs
<1>7. CASE ~ LeavesRoot(word)
  <2>1. PICK pos : Stack(word, Len(word), at.dir, pos)
      BY <1>3, <1>5, <1>7 DEF Follows
  <2>2. at.dir \in Seq(DirNames)
      BY <1>3 DEF Walks
  <2>3. at.dir = Meaning(word)
      BY <1>2, <2>1, <2>2, StackIsMeaning
  <2> QED
      BY <1>4, <1>7, <2>3 DEF word, start, cs
<1> QED
    BY <1>6, <1>7

LEMMA DirectoriesAreNames == Directories \subseteq Seq(DirNames)
<1>1. ASSUME NEW dir \in Directories PROVE dir \in Seq(DirNames)
  <2>1. PICK n \in 0 .. MaxDepth : dir \in [1 .. n -> DirNames]
      BY DEF Directories, DirNames
  <2>2. n \in Nat
    <3>1. MaxDepth \in Nat
        BY FtpPathsAssumption
    <3> QED
        BY <3>1
  <2> QED
      BY <2>1, <2>2, SeqDef
<1> QED
    BY <1>1

LEMMA PathsAreAny == Paths \cup {CDUP} \subseteq AnyPaths
<1>1. ASSUME NEW path \in Paths PROVE path \in AnyPaths
  <2> DEFINE Bounded == UNION {[1 .. n -> Components] : n \in 1 .. MaxPath}
  <2>1. Bounded \subseteq Seq(Components)
    <3>1. ASSUME NEW cs \in Bounded PROVE cs \in Seq(Components)
      <4>1. PICK n \in 1 .. MaxPath : cs \in [1 .. n -> Components]
          OBVIOUS
      <4>2. n \in Nat
        <5>1. MaxPath \in Nat
            BY FtpPathsAssumption
        <5> QED
            BY <5>1
      <4> QED
          BY <4>1, <4>2, SeqDef
    <3> QED
        BY <3>1
  <2>2. path \in [absolute : BOOLEAN, components : Bounded]
      BY DEF Paths
  <2> HIDE DEF Bounded
  <2> QED
      BY <2>1, <2>2 DEF AnyPaths
<1>2. CDUP \in AnyPaths
  <2>1. <<"..">> \in Seq(Components)
      BY DEF Components
  <2> QED
      BY <2>1 DEF CDUP, AnyPaths
<1> QED
    BY <1>1, <1>2

(* CWD from any directory along any path, whatever names there are and     *)
(* however long either is: the session comes to the names that no step up  *)
(* takes back, and to the root when the path leaves it on its way.         *)
THEOREM AnyPathLeads ==
    \A dir \in Seq(DirNames), path \in AnyPaths :
        LET word == Start(dir, path) \o path.components
        IN  Cwd(dir, path) = IF LeavesRoot(word) THEN <<>> ELSE Trimmed(Meaning(word))
    BY LeadsAnyPath

LEMMA PathsLead == LeadsWhereItSays
    BY AnyPathLeads, DirectoriesAreNames, PathsAreAny DEF LeadsWhereItSays

(* A logged in client's path leads where it says, in every state of the    *)
(* server and for all bounds on paths and directories.                     *)
THEOREM CwdAlwaysLeads == Spec => []CwdLeadsWhereItSays
<1>1. CwdLeadsWhereItSays
    BY PathsLead DEF CwdLeadsWhereItSays
<1> QED
    BY <1>1, PTL

(* What CWD leaves is a directory again: names, and none empty at its end. *)
LEMMA TrimmedEnds ==
    ASSUME NEW dir \in Seq(DirNames)
    PROVE  /\ Trimmed(dir) \in Seq(DirNames)
           /\ Trimmed(dir) # <<>> => Last(Trimmed(dir)) # ""
<1> DEFINE last == {i \in DOMAIN dir : dir[i] # ""}
<1>0. Len(dir) \in Nat /\ DOMAIN dir = 1 .. Len(dir) /\ \A i \in 1 .. Len(dir) : dir[i] \in DirNames
    OBVIOUS
<1>1. CASE last = {}
  <2>1. Trimmed(dir) = SubSeq(dir, 1, 0)
      BY <1>1 DEF Trimmed
  <2>2. SubSeq(dir, 1, 0) = <<>>
      BY SubSeqEmpty
  <2>3. <<>> \in Seq(DirNames)
      OBVIOUS
  <2> QED
      BY <2>1, <2>2, <2>3
<1>2. CASE last # {}
  <2> DEFINE x == Max(last)
  <2>1. last \in SUBSET (1 .. Len(dir))
      BY <1>0
  <2>2. Trimmed(dir) = SubSeq(dir, 1, x)
      BY <1>2 DEF Trimmed
  <2>3. x \in last
    <3> HIDE DEF last
    <3> QED
        BY <1>0, <1>2, <2>1, Greatest
  <2>4. x \in 1 .. Len(dir) /\ dir[x] # ""
      BY <1>0, <2>3
  <2> HIDE DEF x
  <2>5. 1 \in Int /\ x \in Int /\ 1 <= x /\ \A i \in 1 .. x : dir[i] \in DirNames
    <3> HIDE DEF last
    <3>1. \A l \in Nat : \A y \in 1 .. l : y \in Int /\ 1 <= y /\ 1 .. y \subseteq 1 .. l
        OBVIOUS
    <3>2. x \in Int /\ 1 <= x /\ 1 .. x \subseteq 1 .. Len(dir)
        BY <1>0, <2>4, <3>1
    <3> QED
        BY <1>0, <3>2
  <2>6. /\ SubSeq(dir, 1, x) \in Seq(DirNames)
        /\ Len(SubSeq(dir, 1, x)) = IF 1 <= x THEN x - 1 + 1 ELSE 0
        /\ \A i \in 1 .. x - 1 + 1 : SubSeq(dir, 1, x)[i] = dir[1 + i - 1]
      BY <2>5, SubSeqProperties
  <2>7. Len(SubSeq(dir, 1, x)) = x
      BY <2>5, <2>6
  <2>8. SubSeq(dir, 1, x)[x] = dir[x]
    <3>1. x \in 1 .. x - 1 + 1 /\ 1 + x - 1 = x
        BY <2>5
    <3> QED
        BY <2>6, <3>1
  <2> QED
      BY <2>2, <2>4, <2>6, <2>7, <2>8 DEF Last
<1> QED
    BY <1>1, <1>2

IsDirectory(dir) == dir \in Seq(DirNames) /\ (dir # <<>> => Last(dir) # "")

LEMMA StaysADirectory ==
    ASSUME NEW dir, IsDirectory(dir), NEW path \in AnyPaths
    PROVE  IsDirectory(Cwd(dir, path))
<1> DEFINE start == Start(dir, path)
           cs == path.components
<1>1. cs \in Seq(Components) /\ start \in Seq(DirNames) /\ Len(cs) \in 0 .. Len(cs)
  <2>1. cs \in Seq(Components) /\ start \in Seq(DirNames)
      BY AnyStart DEF IsDirectory
  <2> HIDE DEF cs
  <2> QED
      BY <2>1
<1> HIDE DEF start, cs
<1>2. Walk(start, cs)[Len(cs)] \in Walks
    BY <1>1, WalkFollows
<1>3. Cwd(dir, path) = Trimmed(Walk(start, cs)[Len(cs)].dir)
    BY DEF Cwd, start, cs
<1>4. Walk(start, cs)[Len(cs)].dir \in Seq(DirNames)
    BY <1>2 DEF Walks
<1> QED
    BY <1>3, <1>4, TrimmedEnds DEF IsDirectory

(* So does every CWD and CDUP of a session, one after the other: what each *)
(* leaves behind is a directory the next may begin with.                   *)
THEOREM CwdStaysADirectory ==
    \A dir, path :
        IsDirectory(dir) /\ path \in AnyPaths \cup {CDUP} => IsDirectory(Cwd(dir, path))
<1>1. CDUP \in AnyPaths
    BY PathsAreAny
<1> QED
    BY <1>1, StaysADirectory

-----------------------------------------------------------------------------
(* http_open.                                                              *)

Phases == {"connect", "send", "status", "header", "line"}

(* Between connections http_open holds no descriptor, during one an open   *)
(* one, and the stream has none as long as it runs.                        *)
Holds ==
    /\ sock = NoFD \/ sock \in open
    /\ phase \in Phases => sock # NoFD
    /\ phase \notin Phases => sock = NoFD
    /\ phase # "idle" => m_fdSocket = NoFD

(* What the phase says of the server.                                      *)
Knows ==
    /\ phase \in {"send", "status", "header", "line"} => up
    /\ phase \in {"header", "line"} =>
          /\ status \in {"ok", "plain", "moved"}
          /\ relocate = (status = "moved")

(* Each relocation is a connection, and one is the first.                  *)
Counts ==
    /\ phase \in {"resolve", "socket"} => connections = numrelocs
    /\ phase \in Phases => connections = numrelocs + 1
    /\ connections <= numrelocs + 1

OpenInv == OpenTypeOK /\ Holds /\ Knows /\ Counts /\ ReturnedIsAnswered

-----------------------------------------------------------------------------
LEMMA OpenInitInv == OpenInit => OpenInv
<1> SUFFICES ASSUME OpenInit PROVE OpenInv
  OBVIOUS
<1> USE HttpOpenAssumption DEF OpenInit, Phases
<1>1. {exiting, relocate, purl, up} \subseteq BOOLEAN OBVIOUS
<1>2. OpenTypeOK BY <1>1 DEF OpenTypeOK
<1>3. Holds /\ Knows /\ Counts BY DEF Holds, Knows, Counts
<1>4. ReturnedIsAnswered BY DEF ReturnedIsAnswered
<1> QED BY <1>2, <1>3, <1>4 DEF OpenInv

(* The steps outside of a call.                                            *)
LEMMA OutsideInv ==
  ASSUME OpenInv, Exit \/ Close \/ Hangup \/ Begin
  PROVE  OpenInv'
<1> USE HttpOpenAssumption DEF OpenInv, openVars, local, heard
<1>1. CASE Exit
  BY <1>1 DEF Exit, OpenTypeOK, Holds, Knows, Counts, ReturnedIsAnswered, Phases
<1>2. CASE Close
  BY <1>2 DEF Close, CloseSocket, OpenTypeOK, Holds, Knows, Counts,
              ReturnedIsAnswered, Phases
<1>3. CASE Hangup
  BY <1>3 DEF Hangup, OpenTypeOK, Holds, Knows, Counts, ReturnedIsAnswered, Phases
<1>4. CASE Begin
  <2> USE <1>4 DEF Begin, CloseSocket
  <2>1. {exiting', relocate', purl', up'} \subseteq BOOLEAN BY DEF OpenTypeOK
  <2>2. OpenTypeOK' BY <2>1 DEF OpenTypeOK
  <2>3. (Holds /\ Knows /\ Counts)' BY DEF Holds, Knows, Counts, Phases
  <2>4. ReturnedIsAnswered' BY DEF ReturnedIsAnswered
  <2> QED BY <2>2, <2>3, <2>4
<1> QED BY <1>1, <1>2, <1>3, <1>4

(* The steps up to the request.                                            *)
LEMMA ConnectInv ==
  ASSUME OpenInv,
         \/ NotResolved \/ Resolve \/ NoSocket
         \/ \E s \in Sockets : Socket(s)
         \/ Connected \/ Progress \/ NotConnected \/ SendRequest
  PROVE  OpenInv'
<1> USE HttpOpenAssumption DEF OpenInv, local, heard, OpenTypeOK, Holds, Knows,
        Counts, ReturnedIsAnswered, Phases, Return
<1>1. CASE NotResolved BY <1>1 DEF NotResolved
<1>2. CASE Resolve BY <1>2 DEF Resolve
<1>3. CASE NoSocket BY <1>3 DEF NoSocket
<1>4. CASE \E s \in Sockets : Socket(s)
  <2>1. PICK s \in Sockets : Socket(s) BY <1>4
  <2>2. {exiting', relocate', purl', up'} \subseteq BOOLEAN
    BY <2>1 DEF Socket
  <2>3. OpenTypeOK' BY <2>1, <2>2 DEF Socket
  <2>4. (Holds /\ Knows /\ Counts)' BY <2>1 DEF Socket
  <2>5. ReturnedIsAnswered' BY <2>1 DEF Socket
  <2> QED BY <2>3, <2>4, <2>5
<1>5. CASE Connected BY <1>5 DEF Connected
<1>6. CASE Progress BY <1>6 DEF Progress
<1>7. CASE NotConnected BY <1>7 DEF NotConnected
<1>8. CASE SendRequest
  <2>1. CASE exiting BY <1>8, <2>1 DEF SendRequest
  <2>2. CASE ~exiting
    <3> USE <1>8, <2>2 DEF SendRequest
    <3>1. {exiting', relocate', purl', up'} \subseteq BOOLEAN OBVIOUS
    <3>2. OpenTypeOK' BY <3>1
    <3>3. (Holds /\ Knows /\ Counts)' OBVIOUS
    <3>4. ReturnedIsAnswered' OBVIOUS
    <3> QED BY <3>2, <3>3, <3>4
  <2> QED BY <2>1, <2>2
<1> QED BY <1>1, <1>2, <1>3, <1>4, <1>5, <1>6, <1>7, <1>8

(* What becomes of a status line.                                          *)
LEMMA StatusInv ==
  ASSUME OpenInv, NEW l \in Statuses \cup {"empty"}, Status(l)
  PROVE  OpenInv'
<1> USE HttpOpenAssumption DEF OpenInv, local, heard, OpenTypeOK, Holds, Knows,
        Counts, ReturnedIsAnswered, Phases, Statuses
<1>1. CASE l \in {"ok", "moved", "plain"}
  BY <1>1 DEF Status, GotStatus, Read
<1>2. CASE l \notin {"ok", "moved", "plain"}
  BY <1>2 DEF Status, Refused, Return
<1> QED BY <1>1, <1>2

(* The status and the header, whether they come whole or not.              *)
LEMMA AnswerInv ==
  ASSUME OpenInv,
         \/ ReadStatus \/ StatusEnds \/ NextLine
         \/ HeaderLine \/ HeaderEnds \/ BlankLine \/ BlankEnds
  PROVE  OpenInv'
<1>1. CASE ReadStatus \/ StatusEnds
  <2>1. \E l \in Statuses \cup {"empty"} : Status(l)
    BY <1>1 DEF ReadStatus, StatusEnds
  <2> QED BY <2>1, StatusInv
<1> USE HttpOpenAssumption DEF OpenInv, local, heard, OpenTypeOK, Holds, Knows,
        Counts, ReturnedIsAnswered, Phases, Statuses
<1>2. CASE NextLine
  <2>1. CASE exiting BY <1>2, <2>1 DEF NextLine, Return
  <2>2. CASE ~exiting BY <1>2, <2>2 DEF NextLine
  <2> QED BY <2>1, <2>2
<1>3. CASE HeaderLine \/ HeaderEnds
  <2>1. Header /\ purl' \in BOOLEAN BY <1>3 DEF HeaderLine, HeaderEnds
  <2> QED BY <2>1 DEF Header, Read
<1>4. CASE BlankLine \/ BlankEnds
  <2>1. AtBlank BY <1>4 DEF BlankLine, BlankEnds
  <2>2. CASE Relocate BY <2>1, <2>2 DEF AtBlank, Relocate
  <2>3. CASE TooMany BY <2>1, <2>3 DEF AtBlank, TooMany, Return
  <2>4. CASE Opened BY <2>1, <2>4 DEF AtBlank, Opened, Return
  <2> QED BY <2>1, <2>2, <2>3, <2>4 DEF AtBlank
<1> QED BY <1>1, <1>2, <1>3, <1>4

LEMMA OpenNextInv == OpenInv /\ [OpenNext]_openVars => OpenInv'
<1> SUFFICES ASSUME OpenInv, [OpenNext]_openVars PROVE OpenInv'
  OBVIOUS
<1>1. CASE Exit \/ Close \/ Hangup \/ Begin BY <1>1, OutsideInv
<1>2. CASE Own BY <1>2, ConnectInv, AnswerInv DEF Own
<1>3. CASE Answered BY <1>3, AnswerInv DEF Answered
<1>4. CASE UNCHANGED openVars
  BY <1>4 DEF openVars, local, heard, OpenInv, OpenTypeOK, Holds, Knows, Counts,
              ReturnedIsAnswered, Phases
<1> QED BY <1>1, <1>2, <1>3, <1>4 DEF OpenNext

LEMMA OpenInvariant == OpenSpec => []OpenInv
  BY OpenInitInv, OpenNextInv, PTL DEF OpenSpec

(* The variables keep their types: no more tries than ConnectWithTimeout   *)
(* has seconds, no more relocations than http_open follows.                *)
THEOREM OpenTypeCorrect == OpenSpec => []OpenTypeOK
<1>1. OpenInv => OpenTypeOK BY DEF OpenInv
<1> QED BY <1>1, OpenInvariant, PTL

(* A descriptor that http_open returns is open, connected, and of a server *)
(* that has taken the request.                                             *)
THEOREM OpenedIsAnswered == OpenSpec => []ReturnedIsAnswered
<1>1. OpenInv => ReturnedIsAnswered BY DEF OpenInv
<1> QED BY <1>1, OpenInvariant, PTL

(* http_open makes at most one connection more than it follows relocations.*)
THEOREM ConnectionsAreBounded == OpenSpec => []BoundedConnections
<1>1. OpenInv => BoundedConnections
  BY HttpOpenAssumption DEF OpenInv, OpenTypeOK, Counts, BoundedConnections
<1> QED BY <1>1, OpenInvariant, PTL

-----------------------------------------------------------------------------
(* The three ways in which http_open may lose a descriptor.                *)
LossIsNamed ==
    \/ Lost' \subseteq Lost
    \/ exiting
    \/ status' \in {"bad", "empty", "moved"}

LEMMA NextLoses == OpenInv /\ [OpenNext]_openVars => LossIsNamed
<1> SUFFICES ASSUME OpenInv, [OpenNext]_openVars PROVE LossIsNamed
  OBVIOUS
<1> USE HttpOpenAssumption
    DEF OpenInv, LossIsNamed, Lost, OpenTypeOK, Holds, Phases, local, heard
<1>1. CASE Exit \/ Hangup BY <1>1 DEF Exit, Hangup
<1>2. CASE Close \/ Begin BY <1>2 DEF Close, Begin, CloseSocket
<1>3. CASE NotResolved \/ Resolve \/ NoSocket
  BY <1>3 DEF NotResolved, Resolve, NoSocket, Return
<1>4. CASE \E s \in Sockets : Socket(s)
  <2>1. PICK s \in Sockets : Socket(s) BY <1>4
  <2> QED BY <2>1 DEF Socket
<1>5. CASE Connected \/ Progress BY <1>5 DEF Connected, Progress
<1>6. CASE NotConnected BY <1>6 DEF NotConnected, Return
<1>7. CASE SendRequest BY <1>7 DEF SendRequest
<1>8. CASE ReadStatus \/ StatusEnds
  <2>1. PICK l \in Statuses \cup {"empty"} : Status(l)
    BY <1>8 DEF ReadStatus, StatusEnds
  <2>2. CASE l \in {"ok", "moved", "plain"}
    BY <2>1, <2>2 DEF Status, GotStatus
  <2>3. CASE l \notin {"ok", "moved", "plain"}
    BY <2>1, <2>3 DEF Status, Refused, Statuses
  <2> QED BY <2>2, <2>3
<1>9. CASE NextLine BY <1>9 DEF NextLine
<1>10. CASE HeaderLine \/ HeaderEnds
  BY <1>10 DEF HeaderLine, HeaderEnds, Header
<1>11. CASE BlankLine \/ BlankEnds
  <2>1. AtBlank BY <1>11 DEF BlankLine, BlankEnds
  <2>2. CASE Relocate \/ TooMany
    BY <2>1, <2>2 DEF AtBlank, Relocate, TooMany, Knows
  <2>3. CASE Opened BY <2>1, <2>3 DEF AtBlank, Opened, Return
  <2> QED BY <2>1, <2>2, <2>3 DEF AtBlank
<1>12. CASE UNCHANGED openVars BY <1>12 DEF openVars
<1> QED
  BY <1>1, <1>2, <1>3, <1>4, <1>5, <1>6, <1>7, <1>8, <1>9, <1>10, <1>11,
     <1>12 DEF OpenNext, Own, Answered

(* http_open loses a descriptor only when the program ends, or when the    *)
(* server has refused, not answered or moved.                              *)
THEOREM LossesAreKnown == OpenSpec => LossesAreNamed
<1>1. OpenInv /\ [OpenNext]_openVars => [LossIsNamed]_openVars
  BY NextLoses
<1> QED BY <1>1, OpenInvariant, PTL DEF OpenSpec, LossesAreNamed, LossIsNamed

=============================================================================
