---------------------------- MODULE Connections -----------------------------
(***************************************************************************)
(* How a client and a server process come to share a connection.  The      *)
(* server listens on port 3310, accepts once, writes the header of its     *)
(* object stream and reads the client's; a client, the Swing window or the *)
(* console one, connects, writes its header and reads the server's.        *)
(* Connections nobody has accepted wait in the backlog, where the          *)
(* operating system takes what their clients write.  Session starts where  *)
(* this ends: the server in its loop, its client past the headers.         *)
(***************************************************************************)
EXTENDS Naturals, Sequences

CONSTANTS
    Clients,        \* client processes, each started at most once
    None,
    Backlog,        \* connections the listening socket holds
    MaxProcesses    \* bound on the server processes

ASSUME ClientsAssumption == None \notin Clients
ASSUME BacklogAssumption == Backlog \in Nat \ {0} /\ MaxProcesses \in Nat

VARIABLES
    server,     \* the call Server.main is about to make, or "down"
    processes,  \* server processes started
    peer,       \* the client the process has accepted, None before
    cause,      \* why the last process ended
    backlog,    \* clients connected and not accepted
    phase,      \* the call each client is about to make
    how,        \* each client's end of its connection: "open", "fin", "rst"
    headerUp,   \* clients whose header is written
    headerDown, \* clients the server has written its header to
    lost,       \* clients whose connection the end of a server broke
    served      \* history: clients past the headers with this process

serverVars == <<server, processes, peer, cause>>
clientVars == <<phase, how, headerUp>>
vars == <<serverVars, clientVars, backlog, headerDown, lost, served>>

Phases == {"off", "writeHeader", "readHeader", "open", "closed"}
Causes == {"none", "EOF", "IO", "ended"}

Init ==
    /\ server = "down" /\ processes = 0 /\ peer = None /\ cause = "none"
    /\ backlog = <<>>
    /\ phase = [c \in Clients |-> "off"]
    /\ how = [c \in Clients |-> "open"]
    /\ headerUp = {} /\ headerDown = {} /\ lost = {} /\ served = {}

Waiting == {backlog[i] : i \in 1 .. Len(backlog)}
-----------------------------------------------------------------------------
(* new ServerSocket(3310) in a new process. *)
StartServer ==
    /\ server = "down"
    /\ processes < MaxProcesses
    /\ server' = "accept"
    /\ processes' = processes + 1
    /\ peer' = None
    /\ cause' = "none"
    /\ served' = {}
    /\ UNCHANGED <<clientVars, backlog, headerDown, lost>>

(* The process ends: the accepted connection and the backlog break. *)
Ends(why) ==
    /\ server' = "down"
    /\ cause' = why
    /\ backlog' = <<>>
    /\ lost' = lost \cup Waiting \cup ({peer} \ {None})
    /\ UNCHANGED <<processes, peer, clientVars, headerDown, served>>

(* Mutant: the loop accepts again once its client has left. *)
MutAcceptAgain ==
    /\ server = "accept" \/ (server = "loop" /\ how[peer] # "open")
    /\ backlog # <<>>
    /\ peer' = Head(backlog)
    /\ backlog' = Tail(backlog)
    /\ server' = "writeHeader"
    /\ UNCHANGED <<processes, cause, clientVars, headerDown, lost, served>>

(* Mutant: the loop accepts the next client as soon as there is one. *)
MutAcceptMore ==
    /\ server \in {"accept", "loop"}
    /\ backlog # <<>>
    /\ peer' = Head(backlog)
    /\ backlog' = Tail(backlog)
    /\ server' = "writeHeader"
    /\ UNCHANGED <<processes, cause, clientVars, headerDown, lost, served>>

(* serverSocket.accept(), which also returns a client that has left. *)
Accept ==
    /\ server = "accept"
    /\ backlog # <<>>
    /\ peer' = Head(backlog)
    /\ backlog' = Tail(backlog)
    /\ server' = "writeHeader"
    /\ UNCHANGED <<processes, cause, clientVars, headerDown, lost, served>>

(* Mutant: the header stays in a buffer of the server. *)
MutServerHeaderBuffered ==
    /\ server = "writeHeader"
    /\ server' = "readHeader"
    /\ UNCHANGED <<processes, peer, cause, clientVars, backlog, headerDown, lost, served>>

(* new ObjectOutputStream(socket.getOutputStream()) *)
ServerWriteHeader ==
    /\ server = "writeHeader"
    /\ how[peer] # "rst"
    /\ headerDown' = headerDown \cup {peer}
    /\ server' = "readHeader"
    /\ UNCHANGED <<processes, peer, cause, clientVars, backlog, lost, served>>

(* new ObjectInputStream(socket.getInputStream()) *)
ServerReadHeader ==
    /\ server = "readHeader"
    /\ peer \in headerUp
    /\ server' = "loop"
    /\ UNCHANGED <<processes, peer, cause, clientVars, backlog, headerDown, lost, served>>

(* The client left before it wrote its header.  This read is not in the    *)
(* try of the loop, so its EOFException ends the process.                  *)
ServerReadHeaderEOF ==
    /\ server = "readHeader"
    /\ peer \notin headerUp
    /\ how[peer] = "fin"
    /\ Ends("EOF")

(* A reset connection, wherever it is used. *)
ServerReset ==
    /\ server \in {"writeHeader", "readHeader", "loop"}
    /\ how[peer] = "rst"
    /\ Ends("IO")

(* The loop ends by an exception (Session), or the process is killed. *)
ServerEnds == server # "down" /\ Ends("ended")

ServerStep == Accept \/ ServerWriteHeader \/ ServerReadHeader \/ ServerReadHeaderEOF \/ ServerReset
-----------------------------------------------------------------------------
(* new Socket("localhost", 3310): the operating system accepts for the     *)
(* server.                                                                 *)
Connect(c) ==
    /\ phase[c] = "off"
    /\ server # "down"
    /\ Len(backlog) < Backlog
    /\ backlog' = Append(backlog, c)
    /\ phase' = [phase EXCEPT ![c] = "writeHeader"]
    /\ UNCHANGED <<serverVars, how, headerUp, headerDown, lost, served>>

(* The same with nobody listening, or too many waiting: the client ends. *)
ConnectRefused(c) ==
    /\ phase[c] = "off"
    /\ server = "down" \/ Len(backlog) = Backlog
    /\ phase' = [phase EXCEPT ![c] = "closed"]
    /\ UNCHANGED <<serverVars, how, headerUp, backlog, headerDown, lost, served>>

(* new ObjectOutputStream(os) *)
WriteHeader(c) ==
    /\ phase[c] = "writeHeader"
    /\ phase' = [phase EXCEPT ![c] = "readHeader"]
    /\ headerUp' = headerUp \cup {c}
    /\ UNCHANGED <<serverVars, how, backlog, headerDown, lost, served>>

(* new ObjectInputStream(inputStream).  What a process that has ended had  *)
(* written may still arrive.                                               *)
ReadHeader(c) ==
    /\ phase[c] = "readHeader"
    /\ c \in headerDown
    /\ phase' = [phase EXCEPT ![c] = "open"]
    /\ served' = IF c \in lost THEN served ELSE served \cup {c}
    /\ UNCHANGED <<serverVars, how, headerUp, backlog, headerDown, lost>>

(* Mutant: only a write notices that the server has ended. *)
MutHeaderThrowsOnWrite(c) ==
    /\ phase[c] = "writeHeader"
    /\ c \in lost
    /\ phase' = [phase EXCEPT ![c] = "closed"]
    /\ how' = [how EXCEPT ![c] = "fin"]
    /\ UNCHANGED <<serverVars, headerUp, backlog, headerDown, lost, served>>

(* The server has ended: IOException, and the client ends. *)
HeaderThrows(c) ==
    /\ phase[c] \in {"writeHeader", "readHeader"}
    /\ c \in lost
    /\ phase' = [phase EXCEPT ![c] = "closed"]
    /\ how' = [how EXCEPT ![c] = "fin"]
    /\ UNCHANGED <<serverVars, headerUp, backlog, headerDown, lost, served>>

(* The window is closed, or the console client has asked its questions, of *)
(* which it sends nothing, or one of the answers is not a number.          *)
Close(c) ==
    /\ phase[c] = "open"
    /\ phase' = [phase EXCEPT ![c] = "closed"]
    /\ how' = [how EXCEPT ![c] = "fin"]
    /\ UNCHANGED <<serverVars, headerUp, backlog, headerDown, lost, served>>

DropFromBacklog(c) ==
    \E i \in 1 .. Len(backlog) :
        /\ backlog[i] = c
        /\ backlog' = SubSeq(backlog, 1, i - 1) \o SubSeq(backlog, i + 1, Len(backlog))

(* The process is killed.  The system may take a connection that was reset *)
(* out of the backlog, or leave it there.                                  *)
KillClient(c) ==
    /\ phase[c] \in {"writeHeader", "readHeader", "open"}
    /\ phase' = [phase EXCEPT ![c] = "closed"]
    /\ \/ how' = [how EXCEPT ![c] = "fin"] /\ backlog' = backlog
       \/ how' = [how EXCEPT ![c] = "rst"] /\ (backlog' = backlog \/ DropFromBacklog(c))
    /\ UNCHANGED <<serverVars, headerUp, headerDown, lost, served>>

ClientStep(c) == WriteHeader(c) \/ ReadHeader(c) \/ HeaderThrows(c)

ClientUser(c) == Connect(c) \/ ConnectRefused(c) \/ Close(c) \/ KillClient(c)

Next ==
    \/ StartServer \/ ServerStep \/ ServerEnds
    \/ \E c \in Clients : ClientStep(c) \/ ClientUser(c)

Spec == Init /\ [][Next]_vars

(* Every process that has a call to make and can make it does so; nobody   *)
(* has to start, close or kill anything.                                   *)
FairSpec == Spec /\ WF_vars(ServerStep) /\ \A c \in Clients : WF_vars(ClientStep(c))
-----------------------------------------------------------------------------
(* The types of the variables of the server, its sockets and the clients. *)
ConnTypeOK ==
    /\ server \in {"down", "accept", "writeHeader", "readHeader", "loop"}
    /\ processes \in 0 .. MaxProcesses
    /\ peer \in Clients \cup {None}
    /\ cause \in Causes
    /\ backlog \in Seq(Clients) /\ Len(backlog) <= Backlog
    /\ phase \in [Clients -> Phases]
    /\ how \in [Clients -> {"open", "fin", "rst"}]
    /\ headerUp \subseteq Clients /\ headerDown \subseteq Clients
    /\ lost \subseteq Clients /\ served \subseteq Clients
    /\ server \in {"writeHeader", "readHeader", "loop"} => peer # None

(* A server process serves one client in its life (Server.java:21): even   *)
(* after that one has left, a client that connected meanwhile stays in the *)
(* backlog, and its constructor at its header (clientGUI.java:73), until   *)
(* the process ends.                                                       *)
OneClientPerProcess == \A c, d \in served : c = d

(* A client past the headers is never cut off by another client's death: *)
(* when the EOFException of Server.java:24, which no catch is there for,   *)
(* or a reset ends the process, whoever it has served has left.  Clients   *)
(* die before, between and after their headers, with others behind them in *)
(* the backlog.                                                            *)
ServedClientsAreSafe ==
    cause \in {"EOF", "IO"} => \A c \in served : phase[c] = "closed"

(* A client that waits, at its header, for a server (clientGUI.java:72-73, *)
(* Client.java:15-16) waits for one that runs and has it as its peer or in *)
(* its backlog, or its connection is broken and it will be told: accepting *)
(* and leaving, in any order, forget nobody.                               *)
NobodyWaitsInVain ==
    \A c \in Clients \ lost :
        phase[c] \in {"writeHeader", "readHeader"} =>
            server # "down" /\ (c = peer \/ c \in Waiting)

(* Who is first in line when the server accepts gets past the headers, or  *)
(* is told: both sides write their header before they read the other's     *)
(* (Server.java:23-24, clientGUI.java:72-73).                              *)
FirstInLineIsAnswered ==
    \A c \in Clients :
        server = "accept" /\ backlog # <<>> /\ Head(backlog) = c ~> phase[c] \in {"open", "closed"}

(* The end of a server process frees every client that waits for it, those *)
(* it had not accepted included (clientGUI.java:73, Client.java:16).       *)
LostClientsAreTold == \A c \in Clients : c \in lost ~> phase[c] \in {"open", "closed"}

(***************************************************************************)
(* The strengthening that makes the invariants inductive: a header of  *)
(* the server reaches its peer, or a client of a process that has ended.   *)
(***************************************************************************)
HeadersGoToPeer ==
    /\ headerDown \ lost \subseteq {peer}
    /\ served \subseteq {peer}
    /\ server \in {"down", "accept"} => headerDown \subseteq lost
    /\ server = "accept" => served = {} /\ peer = None
    /\ server = "writeHeader" => served = {} /\ headerDown \subseteq lost
    /\ server \in {"accept", "writeHeader", "readHeader", "loop"} => cause = "none"
    /\ cause \in {"EOF", "IO"} => peer \in Clients /\ phase[peer] = "closed"
    /\ \A c \in Clients : how[c] # "open" => phase[c] = "closed"

(* The headers the server wrote and the clients it served agree            *)
(* (Server.java:20-26).                                                    *)
ConnInv ==
    /\ ConnTypeOK
    /\ HeadersGoToPeer
    /\ OneClientPerProcess
    /\ ServedClientsAreSafe
    /\ NobodyWaitsInVain
=============================================================================
