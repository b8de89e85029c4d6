------------------------- MODULE ConnectionsProofs --------------------------
(***************************************************************************)
(* Proofs of the invariants of Connections, for any number of clients, any *)
(* backlog and any number of server processes.                             *)
(***************************************************************************)
EXTENDS Connections, TLAPS

USE ClientsAssumption, BacklogAssumption DEF ClientsAssumption, BacklogAssumption

LEMMA ConnInit == Init => ConnInv
  BY DEF Init, ConnInv, ConnTypeOK, Causes, Phases, HeadersGoToPeer, OneClientPerProcess,
         ServedClientsAreSafe, NobodyWaitsInVain

(* What waits in the backlog are clients, also after one has been dropped. *)
LEMMA BacklogTypes ==
    ASSUME backlog \in Seq(Clients), Len(backlog) <= Backlog
    PROVE  /\ Waiting \subseteq Clients
           /\ backlog # <<>> => /\ Head(backlog) \in Clients
                                /\ Tail(backlog) \in Seq(Clients)
                                /\ Len(Tail(backlog)) <= Backlog
           /\ \A c \in Clients : /\ Append(backlog, c) \in Seq(Clients)
                                 /\ Len(Append(backlog, c)) = Len(backlog) + 1
           /\ \A c \in Clients :
                DropFromBacklog(c) => backlog' \in Seq(Clients) /\ Len(backlog') <= Backlog
<1>1. Waiting \subseteq Clients
  BY DEF Waiting
<1>2. ASSUME NEW i \in 1 .. Len(backlog),
             backlog' = SubSeq(backlog, 1, i - 1) \o SubSeq(backlog, i + 1, Len(backlog))
      PROVE  backlog' \in Seq(Clients) /\ Len(backlog') <= Backlog
  <2>1. /\ SubSeq(backlog, 1, i - 1) \in Seq(Clients)
        /\ Len(SubSeq(backlog, 1, i - 1)) = i - 1
    OBVIOUS
  <2>2. /\ SubSeq(backlog, i + 1, Len(backlog)) \in Seq(Clients)
        /\ Len(SubSeq(backlog, i + 1, Len(backlog))) = Len(backlog) - i
    OBVIOUS
  <2>3. \A front, rest \in Seq(Clients) :
            front \o rest \in Seq(Clients) /\ Len(front \o rest) = Len(front) + Len(rest)
    OBVIOUS
  <2>4. backlog' \in Seq(Clients) /\ Len(backlog') = (i - 1) + (Len(backlog) - i)
    BY <1>2, <2>1, <2>2, <2>3, Zenon
  <2> QED
    BY <2>4
<1>3. \A c \in Clients :
        DropFromBacklog(c) => backlog' \in Seq(Clients) /\ Len(backlog') <= Backlog
  BY <1>2 DEF DropFromBacklog
<1>4. backlog # <<>> => /\ Head(backlog) \in Clients
                        /\ Tail(backlog) \in Seq(Clients)
                        /\ Len(Tail(backlog)) <= Backlog
  OBVIOUS
<1>5. \A c \in Clients : /\ Append(backlog, c) \in Seq(Clients)
                         /\ Len(Append(backlog, c)) = Len(backlog) + 1
  OBVIOUS
<1> QED
  BY <1>1, <1>3, <1>4, <1>5

(* Nobody but the one who is accepted, or dropped, leaves the backlog.     *)
LEMMA BacklogKeeps ==
    ASSUME backlog \in Seq(Clients)
    PROVE  /\ backlog # <<>> /\ backlog' = Tail(backlog) => Waiting \subseteq Waiting' \cup {Head(backlog)}
           /\ \A c \in Clients : backlog' = Append(backlog, c) => Waiting \cup {c} \subseteq Waiting'
           /\ \A c \in Clients : DropFromBacklog(c) => Waiting \subseteq Waiting' \cup {c}
<1>0. Len(backlog) \in Nat
  OBVIOUS
<1>1. ASSUME backlog # <<>>, backlog' = Tail(backlog), NEW i \in 1 .. Len(backlog)
      PROVE  backlog[i] \in Waiting' \cup {Head(backlog)}
  <2>1. CASE i = 1
    BY <1>1, <2>1
  <2>2. CASE i # 1
    <3>1. i - 1 \in 1 .. Len(backlog') /\ backlog'[i - 1] = backlog[i]
      BY <1>1, <2>2
    <3> QED
      BY <3>1 DEF Waiting
  <2> QED
    BY <2>1, <2>2
<1>2. ASSUME NEW c \in Clients, backlog' = Append(backlog, c)
      PROVE  Waiting \cup {c} \subseteq Waiting'
  <2>1. /\ Len(backlog') = Len(backlog) + 1 /\ backlog'[Len(backlog) + 1] = c
        /\ \A i \in 1 .. Len(backlog) : backlog'[i] = backlog[i]
    BY <1>2
  <2>2. Len(backlog) + 1 \in 1 .. Len(backlog') /\ \A i \in 1 .. Len(backlog) : i \in 1 .. Len(backlog')
    BY <1>0, <2>1
  <2> QED
    BY <2>1, <2>2 DEF Waiting
<1>3. ASSUME NEW c \in Clients, NEW i \in 1 .. Len(backlog), backlog[i] = c,
             backlog' = SubSeq(backlog, 1, i - 1) \o SubSeq(backlog, i + 1, Len(backlog)),
             NEW n \in 1 .. Len(backlog)
      PROVE  backlog[n] \in Waiting' \cup {c}
  <2>1. PICK front, rest : front = SubSeq(backlog, 1, i - 1) /\ rest = SubSeq(backlog, i + 1, Len(backlog))
    OBVIOUS
  <2>2. /\ front \in Seq(Clients) /\ Len(front) = i - 1
        /\ \A k \in 1 .. i - 1 : front[k] = backlog[k]
    BY <2>1
  <2>3. /\ rest \in Seq(Clients) /\ Len(rest) = Len(backlog) - i
        /\ \A k \in 1 .. Len(backlog) - i : rest[k] = backlog[k + i]
    BY <2>1
  <2>4. \A one, two \in Seq(Clients) :
            /\ Len(one \o two) = Len(one) + Len(two)
            /\ \A k \in 1 .. Len(one) : (one \o two)[k] = one[k]
            /\ \A k \in 1 .. Len(two) : (one \o two)[Len(one) + k] = two[k]
    OBVIOUS
  <2>5. /\ Len(front \o rest) = Len(front) + Len(rest)
        /\ \A k \in 1 .. Len(front) : (front \o rest)[k] = front[k]
        /\ \A k \in 1 .. Len(rest) : (front \o rest)[Len(front) + k] = rest[k]
    BY <2>2, <2>3, <2>4, Zenon
  <2>6. backlog' = front \o rest
    BY <1>3, <2>1
  <2>7. /\ Len(backlog') = Len(backlog) - 1
        /\ \A k \in 1 .. i - 1 : backlog'[k] = backlog[k]
        /\ \A k \in 1 .. Len(backlog) - i : backlog'[(i - 1) + k] = backlog[k + i]
    BY <1>0, <2>2, <2>3, <2>5, <2>6
  <2>8. CASE n = i
    BY <1>3, <2>8
  <2>9. CASE n < i
    BY <1>0, <2>7, <2>9 DEF Waiting
  <2>10. CASE n > i
    <3>1. n - i \in 1 .. Len(backlog) - i /\ (n - i) + i = n /\ (i - 1) + (n - i) = n - 1
      BY <1>0, <2>10
    <3>2. backlog'[(i - 1) + (n - i)] = backlog[(n - i) + i]
      BY <2>7, <3>1
    <3>3. n - 1 \in 1 .. Len(backlog') /\ backlog'[n - 1] = backlog[n]
      BY <1>0, <2>7, <2>10, <3>1, <3>2
    <3> QED
      BY <3>3 DEF Waiting
  <2> QED
    BY <2>8, <2>9, <2>10
<1>4. \A c \in Clients : DropFromBacklog(c) => Waiting \subseteq Waiting' \cup {c}
  BY <1>3 DEF DropFromBacklog, Waiting
<1>5. backlog # <<>> /\ backlog' = Tail(backlog) => Waiting \subseteq Waiting' \cup {Head(backlog)}
  BY <1>1 DEF Waiting
<1> QED
  BY <1>2, <1>4, <1>5

(* What is invariant without regard to who waits.                          *)
ServingInv == ConnTypeOK /\ HeadersGoToPeer /\ OneClientPerProcess /\ ServedClientsAreSafe

(* The end of a process. *)
LEMMA EndsStep ==
    ASSUME ServingInv, server # "down", NEW why \in Causes \ {"none"}, Ends(why),
           why \in {"EOF", "IO"} => peer # None /\ how[peer] # "open"
    PROVE  ServingInv'
<1> USE DEF ServingInv
<1>1. ConnTypeOK'
  BY BacklogTypes DEF Ends, ConnTypeOK, clientVars
<1>2. HeadersGoToPeer' /\ OneClientPerProcess' /\ ServedClientsAreSafe'
  BY DEF Ends, ConnTypeOK, HeadersGoToPeer, OneClientPerProcess, ServedClientsAreSafe, clientVars
<1> QED
  BY <1>1, <1>2

LEMMA ServerSteps ==
    ASSUME ServingInv, StartServer \/ ServerStep \/ ServerEnds
    PROVE  ServingInv'
<1> USE DEF ServingInv
<1>1. CASE StartServer
  BY <1>1 DEF StartServer, ConnTypeOK, Causes, HeadersGoToPeer, OneClientPerProcess,
              ServedClientsAreSafe, clientVars
<1>2. CASE Accept
  BY <1>2, BacklogTypes DEF Accept, ConnTypeOK, HeadersGoToPeer, OneClientPerProcess,
                            ServedClientsAreSafe, clientVars
<1>3. CASE ServerWriteHeader
  BY <1>3 DEF ServerWriteHeader, ConnTypeOK, HeadersGoToPeer, OneClientPerProcess,
              ServedClientsAreSafe, clientVars
<1>4. CASE ServerReadHeader
  BY <1>4 DEF ServerReadHeader, ConnTypeOK, HeadersGoToPeer, OneClientPerProcess,
              ServedClientsAreSafe, clientVars
<1>5. CASE ServerReadHeaderEOF \/ ServerReset \/ ServerEnds
  BY <1>5, EndsStep DEF ServerReadHeaderEOF, ServerReset, ServerEnds, Causes, ConnTypeOK
<1> QED
  BY <1>1, <1>2, <1>3, <1>4, <1>5 DEF ServerStep

(* A client's step leaves the server alone; only ReadHeader adds to served,*)
(* and only the server's own peer.                                         *)
LEMMA ClientSteps ==
    ASSUME ServingInv, NEW c \in Clients, ClientStep(c) \/ ClientUser(c)
    PROVE  ServingInv'
<1> USE DEF ServingInv
<1>1. CASE Connect(c)
  <2>1. backlog' \in Seq(Clients) /\ Len(backlog') <= Backlog
    BY <1>1, BacklogTypes DEF Connect, ConnTypeOK
  <2> QED
    BY <1>1, <2>1 DEF Connect, ConnTypeOK, Phases, HeadersGoToPeer, OneClientPerProcess,
                      ServedClientsAreSafe, serverVars
<1>2. CASE ConnectRefused(c) \/ HeaderThrows(c) \/ Close(c)
  BY <1>2 DEF ConnectRefused, HeaderThrows, Close, ConnTypeOK, Phases, HeadersGoToPeer,
              OneClientPerProcess, ServedClientsAreSafe, serverVars
<1>3. CASE WriteHeader(c)
  BY <1>3 DEF WriteHeader, ConnTypeOK, Phases, HeadersGoToPeer, OneClientPerProcess,
              ServedClientsAreSafe, serverVars
<1>4. CASE ReadHeader(c)
  BY <1>4 DEF ReadHeader, ConnTypeOK, Phases, HeadersGoToPeer, OneClientPerProcess,
              ServedClientsAreSafe, serverVars
<1>5. CASE KillClient(c)
  <2>1. backlog' \in Seq(Clients) /\ Len(backlog') <= Backlog
    BY <1>5, BacklogTypes DEF KillClient, ConnTypeOK
  <2>2. PICK e \in {"fin", "rst"} : how' = [how EXCEPT ![c] = e]
    BY <1>5 DEF KillClient
  <2> QED
    BY <1>5, <2>1, <2>2 DEF KillClient, ConnTypeOK, Phases, HeadersGoToPeer, OneClientPerProcess,
                      ServedClientsAreSafe, serverVars
<1> QED
  BY <1>1, <1>2, <1>3, <1>4, <1>5 DEF ClientStep, ClientUser

(* Who waits stays with the server, is accepted, is told or gives up.      *)
LEMMA WaitingSteps ==
    ASSUME ConnInv, [Next]_vars
    PROVE  NobodyWaitsInVain'
<1> USE DEF ConnInv
<1> SUFFICES ASSUME NEW d \in Clients, d \notin lost', phase'[d] \in {"writeHeader", "readHeader"}
             PROVE  server' # "down" /\ (d = peer' \/ d \in Waiting')
  BY DEF NobodyWaitsInVain
<1>0. backlog \in Seq(Clients) /\ phase \in [Clients -> Phases]
  BY DEF ConnTypeOK
<1>1. ASSUME d \notin lost, phase[d] \in {"writeHeader", "readHeader"}
      PROVE  server # "down" /\ (d = peer \/ d \in Waiting)
  BY <1>1 DEF NobodyWaitsInVain
<1>2. CASE StartServer
  BY <1>1, <1>2 DEF StartServer, clientVars
<1>3. CASE Accept
  <2>1. d \in Waiting /\ server' # "down" /\ peer' = Head(backlog)
    BY <1>1, <1>3 DEF Accept, clientVars, HeadersGoToPeer
  <2>2. Waiting \subseteq Waiting' \cup {Head(backlog)}
    BY <1>0, <1>3, BacklogKeeps DEF Accept
  <2> QED
    BY <2>1, <2>2
<1>4. CASE ServerReadHeaderEOF \/ ServerReset \/ ServerEnds
  BY <1>1, <1>4 DEF ServerReadHeaderEOF, ServerReset, ServerEnds, Ends, clientVars
<1>5. CASE ServerWriteHeader \/ ServerReadHeader \/ UNCHANGED vars
  <2>1. UNCHANGED <<peer, backlog, phase, lost>> /\ (server' = server \/ server' # "down")
    BY <1>5 DEF ServerWriteHeader, ServerReadHeader, vars, serverVars, clientVars
  <2> QED
    BY <1>1, <2>1 DEF Waiting
<1>6. ASSUME NEW c \in Clients, ClientStep(c) \/ ClientUser(c)
      PROVE  server' # "down" /\ (d = peer' \/ d \in Waiting')
  <2>1. UNCHANGED <<server, peer, lost>>
    BY <1>6 DEF ClientStep, ClientUser, WriteHeader, ReadHeader, HeaderThrows, Connect,
                ConnectRefused, Close, KillClient, serverVars
  <2>2. CASE Connect(c)
    <3>1. Waiting \cup {c} \subseteq Waiting' /\ server # "down"
      BY <1>0, <2>2, BacklogKeeps DEF Connect
    <3>2. d # c => phase[d] = phase'[d]
      BY <1>0, <2>2 DEF Connect
    <3> QED
      BY <1>1, <2>1, <3>1, <3>2
  <2>3. CASE KillClient(c)
    <3>1. d # c /\ phase[d] = phase'[d]
      BY <1>0, <2>3 DEF KillClient
    <3>2. Waiting \subseteq Waiting' \cup {c}
      <4>1. CASE backlog' = backlog
        BY <4>1 DEF Waiting
      <4>2. CASE DropFromBacklog(c)
        BY <1>0, <4>2, BacklogKeeps
      <4> QED
        BY <2>3, <4>1, <4>2 DEF KillClient
    <3> QED
      BY <1>1, <2>1, <3>1, <3>2
  <2>4. CASE WriteHeader(c) \/ ReadHeader(c) \/ HeaderThrows(c) \/ ConnectRefused(c) \/ Close(c)
    <3>1. Waiting' = Waiting
      BY <2>4 DEF WriteHeader, ReadHeader, HeaderThrows, ConnectRefused, Close, Waiting
    <3>2. phase[d] \in {"writeHeader", "readHeader"}
      BY <1>0, <2>4 DEF WriteHeader, ReadHeader, HeaderThrows, ConnectRefused, Close
    <3> QED
      BY <1>1, <2>1, <3>1, <3>2
  <2> QED
    BY <1>6, <2>2, <2>3, <2>4 DEF ClientStep, ClientUser
<1> QED
  BY <1>2, <1>3, <1>4, <1>5, <1>6 DEF Next, ServerStep

(* The inductive invariant, whoever connects, leaves or is killed when     *)
(* (Server.java:20-26, clientGUI.java:67-73, Client.java:10-16).           *)
THEOREM ConnInvCorrect == Spec => []ConnInv
<1>1. ServingInv /\ UNCHANGED vars => ServingInv'
  BY DEF vars, serverVars, clientVars, ServingInv, ConnTypeOK, HeadersGoToPeer,
         OneClientPerProcess, ServedClientsAreSafe
<1>2. ServingInv /\ [Next]_vars => ServingInv'
  BY <1>1, ServerSteps, ClientSteps DEF Next
<1>3. ConnInv /\ [Next]_vars => ConnInv'
  BY <1>2, WaitingSteps DEF ConnInv, ServingInv
<1> QED
  BY ConnInit, <1>3, PTL DEF Spec

(* A server process never serves a second client (Server.java:21). *)
THEOREM OneClientCorrect == Spec => []OneClientPerProcess
<1>1. ConnInv => OneClientPerProcess
  BY DEF ConnInv
<1> QED
  BY ConnInvCorrect, <1>1, PTL

(* Another client's death never cuts off a client past the headers         *)
(* (Server.java:21-24).                                                    *)
THEOREM ServedSafeCorrect == Spec => []ServedClientsAreSafe
<1>1. ConnInv => ServedClientsAreSafe
  BY DEF ConnInv
<1> QED
  BY ConnInvCorrect, <1>1, PTL

(* Who waits at its header is the peer or in the backlog of a server that  *)
(* runs, or is told (Server.java:20-24, clientGUI.java:72-73).             *)
THEOREM NobodyWaitsCorrect == Spec => []NobodyWaitsInVain
<1>1. ConnInv => NobodyWaitsInVain
  BY DEF ConnInv
<1> QED
  BY ConnInvCorrect, <1>1, PTL
=============================================================================
