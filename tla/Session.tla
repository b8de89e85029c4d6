------------------------------ MODULE Session -------------------------------
(***************************************************************************)
(* A client and the server on one connection, through successive sessions. *)
(* A server process serves the one connection it accepts, so a new session *)
(* needs a new server process as well as a new client; the tables are all  *)
(* that survives.                                                          *)
(***************************************************************************)
EXTENDS Server, WireClient

CONSTANT MaxSessions    \* bound on the sessions

ASSUME MaxSessionsAssumption == MaxSessions \in Nat \ {0}

VARIABLE session

vars == <<wireVars, serverVars, clientVars, session>>

Init ==
    /\ WireInit
    /\ ServerStart
    /\ DbInit
    /\ ClientStart
    /\ session = 1

(* Both processes are gone and are started again. *)
NewSession ==
    /\ session < MaxSessions
    /\ exit # "running"
    /\ clientPc = "closed"
    /\ session' = session + 1
    /\ c2s' = <<>> /\ s2c' = <<>> /\ clientEnd' = "open" /\ exit' = "running"
    /\ serverPc' = "readUTF" /\ requestType' = "showTable"
    /\ request' = ShowRequest /\ instance' = "null"
    /\ clientPc' = "start" /\ pending' = ShowRequest /\ sent' = 0 /\ aborted' = FALSE
    /\ UNCHANGED dbVars

ClientUser ==
    \/ \E r \in Requests : WriteType(r)
    \/ WriteTypeThrows
    \/ CloseWindow
    \/ KillClient

ServerNext == ServerStep \/ DatabaseFails \/ KillServer

Next ==
    \/ ServerNext /\ UNCHANGED <<clientVars, session>>
    \/ (ClientStep \/ ClientUser) /\ UNCHANGED <<serverVars, session>>
    \/ NewSession

Spec == Init /\ [][Next]_vars

(***************************************************************************)
(* Both programs run on: the server's thread and the event dispatch thread *)
(* are scheduled.  Nothing is assumed of the user, the operator, crashes   *)
(* or database failures.                                                   *)
(***************************************************************************)
Fairness ==
    /\ WF_vars(ServerStep /\ UNCHANGED <<clientVars, session>>)
    /\ WF_vars(ClientStep /\ UNCHANGED <<serverVars, session>>)

FairSpec == Spec /\ Fairness
-----------------------------------------------------------------------------
IsTable(t, Rows) == DOMAIN t \subseteq Nat /\ t \in [DOMAIN t -> Rows]

Replies == {s2c[i] : i \in 1 .. Len(s2c)}

(* The types of the variables of Server.main, DBConnection and the client. *)
TypeOK ==
    /\ c2s \in Seq(Items) /\ Len(c2s) <= Capacity
    /\ s2c \in Seq(Replies) /\ \A t \in Replies : IsTable(t, ViewRow)
    /\ clientEnd \in {"open", "fin", "rst"}
    /\ exit \in Exits
    /\ serverPc \in ServerPcs
    /\ requestType \in RequestTypes
    /\ request \in Requests \cup {ShowRequest}
    /\ instance \in {"null", "open"}
    /\ IsTable(billboard, Texts)
    /\ IsTable(view, ViewRow)
    /\ nextBillboard \in Nat /\ nextView \in Nat
    /\ torn \in BOOLEAN
    /\ edited \subseteq DOMAIN billboard
    /\ clientPc \in ClientPcs
    /\ pending \in Requests \cup {ShowRequest}
    /\ sent \in 0 .. MaxRequests
    /\ aborted \in BOOLEAN
    /\ session \in 1 .. MaxSessions

(* The server's main dies of a misread object only after the client's      *)
(* delete handler threw between the type and the object; it never casts an *)
(* object to the wrong class (Server.java:34,50,100,109).                  *)
MisreadOnlyAfterAbort ==
    /\ exit # "ClassCast"
    /\ exit = "OptionalData" => aborted

(* ois.readUTF() at Server.java:30 always finds a string, never an object: *)
(* the loop would otherwise spin on an object it cannot skip.              *)
ReadUTFFindsString ==
    At("readUTF") /\ c2s # <<>> => Head(c2s).tag = "utf"

(* A case of the switch works on the request its type was written for.    *)
(* The cast does not see to that: addBillboard and addView both carry an   *)
(* Add (Server.java:34,50).                                                *)
RunsRequestAsSent ==
    exit = "running" /\ serverPc \notin {"readUTF", "readObject"} => request.type = requestType

(* With generated keys, in tables that started together, every row the     *)
(* client is shown has a row of its key in billboard, for the edit at      *)
(* Server.java:114 to find, wherever an add was cut short: billboard is    *)
(* written first and never deleted from.                                   *)
EditFindsRow == ViewAutoInc => DOMAIN view \subseteq DOMAIN billboard

(* The two inserts of Server.java:42-43 each draw a key of their own; in   *)
(* tables that started together they draw the same one for as long as no   *)
(* add was cut between them.                                               *)
KeysInStep ==
    ViewAutoInc /\ ~torn =>
        nextBillboard = nextView + (IF At("execute2") THEN 1 ELSE 0)

(* With generated keys a row of view still holds the content of the        *)
(* billboard of its key, the one an edit of that row changes, unless an    *)
(* edit went to billboard alone (Server.java:114) or an add was cut short. *)
(* Nothing else pairs the two tables.                                      *)
SameKeySameText ==
    ViewAutoInc /\ ~torn =>
        \A k \in DOMAIN view \ edited : k \in DOMAIN billboard /\ view[k].text = billboard[k]

(* A failed connect (DBConnection.java:30-36) can only be met by the       *)
(* request for the table, before the window opens: a user's request never  *)
(* runs into the null that getInstance() returned (Server.java:41,57,68,   *)
(* 103,112), although every case asks for the connection anew.             *)
NullOnlyBeforeTable == exit = "NullPointer" => requestType = "showTable" /\ sent = 0

(* The client has left in good order and all it sent has been read. *)
Abandoned ==
    /\ exit = "running"
    /\ clientEnd = "fin"
    /\ c2s = <<>>
    /\ serverPc \in {"readUTF", "readObject"}

(* An abandoned server only turns in its loop, catching EOFException       *)
(* (Server.java:122-124): it never ends by itself, serves nobody, and does *)
(* not carry out the request it was reading when the client left.          *)
SpinsUntilKilled ==
    [][Abandoned => (Abandoned' \/ exit' = "killed") /\ UNCHANGED <<billboard, view, s2c>>]_vars

(***************************************************************************)
(* The strengthening that makes the invariants above inductive.  Item(0)   *)
(* is the type the server has read and waits for the object of.            *)
(***************************************************************************)
Item(i) == IF i = 0 THEN Utf(requestType) ELSE c2s[i]

Unread == (IF serverPc = "readObject" THEN 0 ELSE 1) .. Len(c2s)

(* Every object follows the type it was written for. *)
ObjectsFollowTypes ==
    \A i \in Unread : \/ Item(i).tag = "utf"
                      \/ i - 1 \in Unread /\ Item(i - 1) = Utf(Item(i).val.type)

(* Every type but "showTable" is followed by an object, unless that is     *)
(* still to be written, never will be (the client is gone), or is the one  *)
(* an aborted delete did not write.                                        *)
TypesAwaitObjects ==
    \A i \in Unread :
        Item(i).tag = "utf" /\ Item(i).val # "showTable" =>
            \/ i + 1 \in Unread /\ Item(i + 1).tag # "utf"
            \/ i = Len(c2s) /\ clientPc \in {"writeObject", "closed"}
            \/ aborted /\ Item(i).val = "delete"

Framing ==
    exit = "running" =>
        /\ ObjectsFollowTypes
        /\ TypesAwaitObjects
        /\ clientPc = "writeObject" => Len(c2s) \in Unread /\ Item(Len(c2s)) = Utf(pending.type)

Control ==
    /\ clientEnd = "open" <=> clientPc # "closed"
    /\ clientPc = "writeObject" => pending \in Requests
    /\ serverPc = "readObject" => requestType # "showTable"
    /\ serverPc = "execute2" => requestType = "addBillboard"

Keys ==
    ViewAutoInc =>
        /\ FirstKey .. nextBillboard - 1 \subseteq DOMAIN billboard
        /\ FirstKey <= nextView
        /\ nextView <= nextBillboard
        /\ At("execute2") => nextView < nextBillboard
        /\ DOMAIN billboard \subseteq 0 .. nextBillboard - 1
        /\ At("execute2") /\ ~torn => billboard[nextView] = request.data

(* The table is the first thing asked for, and it only comes over an open  *)
(* database connection.                                                    *)
StartUp ==
    /\ s2c # <<>> \/ clientPc \in {"idle", "writeObject"} \/ sent > 0 => instance = "open"
    /\ sent = 0 => /\ requestType = "showTable"
                   /\ \A i \in 1 .. Len(c2s) : c2s[i] = Utf("showTable")
    /\ clientPc \in {"start", "await"} => sent = 0
    /\ clientPc = "writeObject" => sent > 0
    /\ serverPc \in {"execute", "execute2"} => instance = "open"
    /\ exit = "NullPointer" => instance = "null"

(* The stream is a sequence of types, each followed by the object of its   *)
(* request except where the delete handler threw, and the generated keys   *)
(* of view never overtake those of billboard (clientGUI.java:124-128,      *)
(* Server.java:30-50).                                                     *)
IndInv ==
    /\ TypeOK
    /\ Control
    /\ Framing
    /\ MisreadOnlyAfterAbort
    /\ RunsRequestAsSent
    /\ Keys
    /\ EditFindsRow
    /\ KeysInStep
    /\ SameKeySameText
    /\ StartUp

(***************************************************************************)
(* The requests handed over whole: the one the server has in hand, then    *)
(* the objects still in the stream.  A type without its object is none.    *)
(***************************************************************************)
InHand ==
    IF serverPc \in {"readUTF", "readObject"} \/ requestType = "showTable"
    THEN <<>> ELSE <<request>>

(* The requests of the objects among the first i items of s. *)
ObjectsUpto(s) ==
    LET upto[i \in 0 .. Len(s)] ==
            IF i = 0 THEN <<>>
            ELSE IF s[i].tag = "utf" THEN upto[i - 1] ELSE Append(upto[i - 1], s[i].val)
    IN  upto

Objects(s) == ObjectsUpto(s)[Len(s)]

Queue == IF exit = "running" THEN InHand \o Objects(c2s) ELSE <<>>

Promise == INSTANCE RequestQueue WITH queue <- Queue, half <- At("execute2")

(* The server carries out the requests its client wrote whole, in order    *)
(* and at most once, and half a request changes nothing, through client    *)
(* crashes, aborted handlers, server crashes and restarts                  *)
(* (Server.java:26-130).                                                   *)
CarriesOutRequests == Promise!Spec

(* The constructor's readObject at clientGUI.java:84 does not block for    *)
(* ever: the table arrives or the constructor throws.                      *)
TableOrError == clientPc = "await" ~> clientPc # "await"

(* A click does not freeze the window: the handler that is writing its     *)
(* object to a full socket (clientGUI.java:127,181,227,317) finishes,      *)
(* because the server keeps reading or its end breaks the connection.      *)
HandlerFinishes == clientPc = "writeObject" ~> clientPc # "writeObject"

(* Once the user stops, the server catches up: every request handed over   *)
(* whole is carried out or lost with the process (Server.java:26-130).     *)
ServerCatchesUp == Queue # <<>> ~> Queue = <<>>

(* The comment on DBConnection.getInstance (DBConnection.java:42) promises *)
(* "a handle to the singleton instance": at createStatement() there is one.*)
GetInstanceReturnsHandle == At("createStatement") => instance = "open"
=============================================================================
