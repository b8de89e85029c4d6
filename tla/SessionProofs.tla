--------------------------- MODULE SessionProofs ----------------------------
(***************************************************************************)
(* Proofs of the invariants of Session, for every set of texts, schedules  *)
(* and ids, every socket capacity and any number of requests and sessions. *)
(***************************************************************************)
EXTENDS Session, TLAPS

(* What the handlers put in a request (clientGUI.java:126,180,226,316). *)
LEMMA RequestFacts ==
    ASSUME NEW r \in Requests
    PROVE  /\ r.type \in RequestTypes \ {"showTable"}
           /\ r.type = "addBillboard" => r.data \in Texts
           /\ r.type = "addView" => r.data \in Scheds
           /\ r.type = "editTable" => r.data \in Texts
  BY DEF Requests, RequestTypes

(* The two kinds of items in the stream. *)
LEMMA ItemFacts ==
    ASSUME NEW item \in Items
    PROVE  \/ item.tag = "utf" /\ item.val \in RequestTypes /\ item = Utf(item.val)
           \/ /\ item.tag # "utf"
              /\ item.val \in Requests
              /\ item.tag = PayloadClass[item.val.type]
  BY RequestFacts DEF Items, Utf, Object, PayloadClass, RequestTypes

(* What is written is an item. *)
LEMMA UtfIsItem == \A t \in RequestTypes : Utf(t) \in Items
  BY DEF Items

LEMMA ObjectIsItem ==
    ASSUME NEW r \in Requests, ~(r.type = "delete" /\ r.id = Null)
    PROVE  Object(r) \in Items
  BY DEF Items

USE DataAssumption, IdAssumption, CapacityAssumption, TableAssumption,
    MaxRequestsAssumption, MaxSessionsAssumption
    DEF DataAssumption, IdAssumption, CapacityAssumption, TableAssumption,
        MaxRequestsAssumption, MaxSessionsAssumption

(***************************************************************************)
(* Types.                                                                  *)
(***************************************************************************)
(* A write appends one item or nothing. *)
LEMMA WriteTypes ==
    ASSUME c2s \in Seq(Items), Len(c2s) <= Capacity, NEW item \in Items, Write(item)
    PROVE  c2s' \in Seq(Items) /\ Len(c2s') <= Capacity
  BY DEF Write

LEMMA TailTypes ==
    ASSUME c2s \in Seq(Items), Len(c2s) <= Capacity, c2s # <<>>, c2s' = Tail(c2s)
    PROVE  c2s' \in Seq(Items) /\ Len(c2s') <= Capacity
  BY DEF Write

(* WithRow, WithoutRow and an update keep a table a table. *)
LEMMA PutTable ==
    ASSUME NEW t, NEW Rows, IsTable(t, Rows), NEW k \in Nat, NEW row \in Rows
    PROVE  IsTable(WithRow(t, k, row), Rows)
  BY DEF IsTable, WithRow

LEMMA RemoveTable ==
    ASSUME NEW t, NEW Rows, IsTable(t, Rows), NEW k
    PROVE  IsTable(WithoutRow(t, k), Rows)
  BY DEF IsTable, WithoutRow

(* The initial state is one of the inductive invariant's. *)
LEMMA InitIndInv == Init => IndInv
<1> SUFFICES ASSUME Init PROVE IndInv
  OBVIOUS
<1> USE DEF Init, WireInit, ServerStart, DbInit, ClientStart
<1>1. TypeOK
  <2>1. /\ c2s \in Seq(Items) /\ Len(c2s) <= Capacity
        /\ s2c \in Seq(Replies) /\ \A t \in Replies : IsTable(t, ViewRow)
        /\ sent \in 0 .. MaxRequests
        /\ session \in 1 .. MaxSessions
        /\ nextBillboard \in Nat /\ nextView \in Nat
    BY DEF Replies
  <2>2. IsTable(billboard, Texts) /\ IsTable(view, ViewRow)
    BY DEF IsTable, ViewRow
  <2> QED
    BY <2>1, <2>2 DEF TypeOK, Exits, ServerPcs, RequestTypes, ClientPcs
<1>2. Control /\ MisreadOnlyAfterAbort /\ RunsRequestAsSent
  BY DEF Control, MisreadOnlyAfterAbort, RunsRequestAsSent
<1>3. Framing
  BY DEF Framing, ObjectsFollowTypes, TypesAwaitObjects, Unread, Item
<1>4. Keys /\ EditFindsRow /\ KeysInStep /\ SameKeySameText
  BY DEF Keys, EditFindsRow, KeysInStep, SameKeySameText, At
<1>5. StartUp
  BY DEF StartUp
<1> QED
  BY <1>1, <1>2, <1>3, <1>4, <1>5 DEF IndInv

(* Nothing but exit and torn changes when an exception ends the server. *)
LEMMA DiesTypes ==
    ASSUME TypeOK, NEW cause \in Exits, Dies(cause), UNCHANGED <<clientVars, session>>
    PROVE  TypeOK'
  BY DEF TypeOK, Dies, clientVars, IsTable, Replies

(* The steps that leave the tables and the reply alone. *)
LEMMA ReadTypes ==
    ASSUME IndInv, UNCHANGED <<clientVars, session>>,
           \/ ReadRequestType \/ ReadObject \/ ReadEOF
           \/ GetInstance \/ CreateStatement
    PROVE  TypeOK'
<1> USE DEF IndInv, TypeOK, clientVars, wireVars, dbVars, At, ServerPcs
<1>1. CASE ReadRequestType
  <2> USE <1>1 DEF ReadRequestType
  <2>1. Head(c2s) \in Items
    OBVIOUS
  <2>2. requestType' \in RequestTypes
    BY <2>1, ItemFacts
  <2>3. c2s' \in Seq(Items) /\ Len(c2s') <= Capacity
    BY TailTypes
  <2>4. serverPc' \in ServerPcs /\ request' \in Requests \cup {ShowRequest}
    OBVIOUS
  <2> QED
    BY <2>2, <2>3, <2>4, Zenon DEF IsTable, Replies
<1>2. CASE ReadObject
  <2> USE <1>2 DEF ReadObject
  <2>1. Head(c2s) \in Items
    OBVIOUS
  <2>2. request' \in Requests
    BY <2>1, ItemFacts DEF PayloadClass, RequestTypes, Control
  <2>3. c2s' \in Seq(Items) /\ Len(c2s') <= Capacity
    BY TailTypes
  <2> QED
    BY <2>2, <2>3, Zenon DEF IsTable, Replies
<1>3. CASE ReadEOF
  BY <1>3, Zenon DEF ReadEOF, IsTable, Replies
<1>4. CASE GetInstance
  <2>1. instance' \in {"null", "open"} /\ serverPc' \in ServerPcs
    BY <1>4 DEF GetInstance
  <2> QED
    BY <1>4, <2>1, Zenon DEF GetInstance, IsTable, Replies
<1>5. CASE CreateStatement
  BY <1>5, Zenon DEF CreateStatement, IsTable, Replies
<1> QED
  BY <1>1, <1>2, <1>3, <1>4, <1>5

(* The statements: the row each writes is a row, because the request is of *)
(* the type of the case that runs it.                                      *)
LEMMA StatementTypes ==
    ASSUME IndInv, UNCHANGED <<clientVars, session>>,
           \/ InsertBillboard \/ InsertView \/ UpdateView
           \/ DeleteFromView \/ UpdateBillboard \/ ShowTable
    PROVE  TypeOK'
<1> USE DEF IndInv
<1>1. CASE InsertBillboard
  <2> USE <1>1 DEF InsertBillboard, Executes, At
  <2>1. request.data \in Texts
    BY RequestFacts DEF TypeOK, RunsRequestAsSent, ShowRequest
  <2>2. IsTable(billboard', Texts)
    BY <2>1, PutTable DEF TypeOK
  <2>3. nextBillboard' \in Nat
    BY DEF TypeOK
  <2>4. serverPc' \in ServerPcs
    BY DEF ServerPcs
  <2>5. edited' \subseteq DOMAIN billboard'
    BY DEF TypeOK, WithRow
  <2> QED
    BY <2>2, <2>3, <2>4, <2>5, Zenon DEF TypeOK, clientVars, wireVars, Replies
<1>2. CASE InsertView
  <2> USE <1>2 DEF InsertView, Executes, At, Done
  <2>1. [text |-> request.data, sched |-> Null] \in ViewRow
    BY RequestFacts DEF TypeOK, RunsRequestAsSent, ShowRequest, ViewRow
  <2>2. ViewKey \in Nat /\ nextView' \in Nat
    BY DEF TypeOK, ViewKey
  <2>3. IsTable(view', ViewRow)
    BY <2>1, <2>2, PutTable DEF TypeOK
  <2>4. serverPc' \in ServerPcs
    BY DEF ServerPcs
  <2> QED
    BY <2>2, <2>3, <2>4, Zenon DEF TypeOK, clientVars, wireVars, Replies
<1>3. CASE UpdateView
  <2> USE <1>3 DEF UpdateView, Executes, At, Done
  <2>1. request.data \in Scheds
    BY RequestFacts DEF TypeOK, RunsRequestAsSent, ShowRequest
  <2>2. \A row \in ViewRow : [row EXCEPT !.sched = request.data] \in ViewRow
    BY <2>1 DEF ViewRow
  <2>3. IsTable(view', ViewRow)
    BY <2>2 DEF TypeOK, IsTable
  <2>4. serverPc' \in ServerPcs
    BY DEF ServerPcs
  <2> QED
    BY <2>3, <2>4, Zenon DEF TypeOK, clientVars, wireVars, Replies
<1>4. CASE DeleteFromView
  <2> USE <1>4 DEF DeleteFromView, Executes, At, Done
  <2>1. IsTable(view', ViewRow)
    BY RemoveTable DEF TypeOK
  <2>2. serverPc' \in ServerPcs
    BY DEF ServerPcs
  <2> QED
    BY <2>1, <2>2, Zenon DEF TypeOK, clientVars, wireVars, Replies
<1>5. CASE UpdateBillboard
  <2> USE <1>5 DEF UpdateBillboard, Executes, At, Done
  <2>1. request.data \in Texts
    BY RequestFacts DEF TypeOK, RunsRequestAsSent, ShowRequest
  <2>2. IsTable(billboard', Texts)
    BY <2>1 DEF TypeOK, IsTable
  <2>3. serverPc' \in ServerPcs
    BY DEF ServerPcs
  <2> QED
    BY <2>2, <2>3, Zenon DEF TypeOK, clientVars, wireVars, Replies
<1>6. CASE ShowTable
  <2> USE <1>6 DEF ShowTable, Executes, At
  <2>1. s2c' \in Seq(Replies') /\ Replies' \subseteq Replies \cup {view}
    <3>1. /\ Len(s2c') = Len(s2c) + 1
          /\ \A i \in 1 .. Len(s2c') : s2c'[i] = IF i = Len(s2c') THEN view ELSE s2c[i]
      BY DEF TypeOK
    <3>2. Replies' \subseteq Replies \cup {view}
      BY <3>1 DEF Replies, TypeOK
    <3>3. s2c' \in Seq(Replies')
      BY <3>1 DEF Replies, TypeOK
    <3> QED
      BY <3>2, <3>3
  <2>2. \A t \in Replies' : IsTable(t, ViewRow)'
    BY <2>1 DEF TypeOK, IsTable, ViewRow
  <2>3. serverPc' \in ServerPcs
    BY DEF ServerPcs
  <2> QED
    BY <2>1, <2>2, <2>3, Zenon DEF TypeOK, clientVars, dbVars, IsTable
<1> QED
  BY <1>1, <1>2, <1>3, <1>4, <1>5, <1>6

(* Every step of the server keeps the types. *)
LEMMA ServerTypes ==
    ASSUME IndInv, ServerNext, UNCHANGED <<clientVars, session>>
    PROVE  TypeOK'
<1>1. CASE \E cause \in Exits : Dies(cause)
  BY <1>1, DiesTypes DEF IndInv
<1>2. CASE ~\E cause \in Exits : Dies(cause)
  <2>1. \/ ReadRequestType \/ ReadObject \/ ReadEOF \/ GetInstance \/ CreateStatement
        \/ InsertBillboard \/ InsertView \/ UpdateView
        \/ DeleteFromView \/ UpdateBillboard \/ ShowTable
    BY <1>2 DEF ServerNext, ServerStep, MisreadObject, ReadReset, CreateStatementOnNull,
                ShowTableThrows, RefusedStatement, DatabaseFails, KillServer, Exits
  <2> QED
    BY <2>1, ReadTypes, StatementTypes
<1> QED
  BY <1>1, <1>2

(* Every step of the client keeps the types. *)
LEMMA ClientTypes ==
    ASSUME IndInv, ClientStep \/ ClientUser, UNCHANGED <<serverVars, session>>
    PROVE  TypeOK'
<1> USE DEF IndInv, TypeOK, serverVars, dbVars
<1>1. ASSUME /\ c2s' \in Seq(Items) /\ Len(c2s') <= Capacity
             /\ s2c' \in Seq(Replies') /\ Replies' \subseteq Replies
             /\ clientEnd' \in {"open", "fin", "rst"}
             /\ exit' = exit
             /\ clientPc' \in ClientPcs
             /\ pending' \in Requests \cup {ShowRequest}
             /\ sent' \in 0 .. MaxRequests
             /\ aborted' \in BOOLEAN
      PROVE  TypeOK'
  BY <1>1, Zenon DEF IsTable
<1>2. s2c' = s2c => s2c' \in Seq(Replies') /\ Replies' \subseteq Replies
  BY DEF Replies
<1>3. CASE RequestTable
  <2>1. c2s' \in Seq(Items) /\ Len(c2s') <= Capacity
    BY <1>3, WriteTypes, UtfIsItem DEF RequestTable, RequestTypes
  <2> QED
    BY <1>1, <1>2, <1>3, <2>1 DEF RequestTable, ClientPcs
<1>4. CASE ReadTable
  <2>1. s2c' \in Seq(Replies') /\ Replies' \subseteq Replies
    <3>1. /\ Len(s2c') = Len(s2c) - 1
          /\ \A i \in 1 .. Len(s2c') : s2c'[i] = s2c[i + 1]
      BY <1>4 DEF ReadTable
    <3>2. Replies' \subseteq Replies
      BY <1>4, <3>1 DEF ReadTable, Replies
    <3>3. s2c' \in Seq(Replies) /\ \A i \in 1 .. Len(s2c') : s2c'[i] \in Replies'
      BY <1>4, <3>1 DEF ReadTable, Replies
    <3>4. s2c' \in Seq(Replies')
      BY <3>3
    <3> QED
      BY <3>2, <3>4
  <2> QED
    BY <1>1, <1>4, <2>1 DEF ReadTable, ClientPcs
<1>5. CASE ConstructorThrows
  BY <1>1, <1>2, <1>5 DEF ConstructorThrows, ClientPcs
<1>6. ASSUME NEW r \in Requests, WriteType(r) PROVE TypeOK'
  <2>1. c2s' \in Seq(Items) /\ Len(c2s') <= Capacity
    BY <1>6, WriteTypes, UtfIsItem, RequestFacts DEF WriteType, RequestTypes
  <2> QED
    BY <1>1, <1>2, <1>6, <2>1 DEF WriteType, ClientPcs
<1>7. CASE WriteTypeThrows
  BY <1>1, <1>2, <1>7 DEF WriteTypeThrows, wireVars
<1>8. CASE WriteObject
  <2>1. c2s' \in Seq(Items) /\ Len(c2s') <= Capacity
    BY <1>8, WriteTypes, ObjectIsItem DEF WriteObject, Control
  <2> QED
    BY <1>1, <1>2, <1>8, <2>1 DEF WriteObject, ClientPcs
<1>9. CASE WriteObjectThrows
  BY <1>1, <1>2, <1>9 DEF WriteObjectThrows, ClientPcs, wireVars
<1>10. CASE AbortDelete
  BY <1>1, <1>2, <1>10 DEF AbortDelete, ClientPcs, wireVars
<1>11. CASE CloseWindow
  BY <1>1, <1>2, <1>11 DEF CloseWindow, ClientPcs
<1>12. CASE KillClient
  BY <1>1, <1>2, <1>12 DEF KillClient, ClientPcs
<1> QED
  BY <1>3, <1>4, <1>5, <1>6, <1>7, <1>8, <1>9, <1>10, <1>11, <1>12
  DEF ClientStep, ClientUser

LEMMA TypesStep ==
    ASSUME IndInv, [Next]_vars
    PROVE  TypeOK'
<1>1. CASE NewSession
  <2>1. /\ c2s' \in Seq(Items) /\ Len(c2s') <= Capacity
        /\ s2c' \in Seq(Replies') /\ \A t \in Replies' : IsTable(t, ViewRow)
        /\ sent' \in 0 .. MaxRequests
        /\ session' \in 1 .. MaxSessions
    BY <1>1 DEF NewSession, Replies, IndInv, TypeOK
  <2> QED
    BY <1>1, <2>1, Zenon DEF NewSession, IndInv, TypeOK, Exits, ServerPcs, ClientPcs,
                             RequestTypes, dbVars, IsTable
<1>2. CASE UNCHANGED vars
  BY <1>2, Zenon DEF vars, wireVars, serverVars, dbVars, clientVars, IndInv, TypeOK, IsTable, Replies
<1> QED
  BY <1>1, <1>2, ServerTypes, ClientTypes DEF Next

(***************************************************************************)
(* Control.                                                                *)
(***************************************************************************)
LEMMA ControlStep ==
    ASSUME IndInv, [Next]_vars
    PROVE  Control'
<1> USE DEF IndInv, Control
<1>1. CASE ServerNext /\ UNCHANGED <<clientVars, session>>
  BY <1>1 DEF ServerNext, ServerStep, ReadRequestType, ReadObject, MisreadObject, ReadEOF,
      ReadReset, GetInstance, CreateStatement, CreateStatementOnNull, InsertBillboard,
      InsertView, UpdateView, DeleteFromView, UpdateBillboard, ShowTable, ShowTableThrows,
      RefusedStatement, DatabaseFails, KillServer, Dies, Done, Executes, At, clientVars, wireVars
<1>2. CASE ClientUser /\ UNCHANGED <<serverVars, session>>
  BY <1>2 DEF ClientUser, WriteType, WriteTypeThrows, CloseWindow, KillClient, wireVars, serverVars
<1>3. CASE ClientStep /\ UNCHANGED <<serverVars, session>>
  BY <1>3 DEF ClientStep, RequestTable, ReadTable, ConstructorThrows, WriteObject,
      WriteObjectThrows, AbortDelete, wireVars, serverVars
<1>4. CASE NewSession
  BY <1>4 DEF NewSession
<1>5. CASE UNCHANGED vars
  BY <1>5 DEF vars, wireVars, serverVars, clientVars
<1> QED
  BY <1>1, <1>2, <1>3, <1>4, <1>5 DEF Next

(* The object the server reads next belongs to the type it has read, or is *)
(* a string that the delete handler's exception left there.                *)
LEMMA NextObject ==
    ASSUME IndInv, At("readObject"), c2s # <<>>
    PROVE  \/ /\ Head(c2s).val.type = requestType
              /\ Head(c2s).tag = PayloadClass[requestType]
              /\ Head(c2s).tag # "utf"
           \/ Head(c2s).tag = "utf" /\ aborted
<1> USE DEF IndInv, At
<1>1. Head(c2s) = Item(1) /\ Head(c2s) \in Items /\ 0 \in Unread /\ 1 \in Unread /\ 0 # Len(c2s)
  BY DEF TypeOK, Item, Unread
<1>2. Item(0) = Utf(requestType) /\ requestType # "showTable"
  BY DEF Item, Control
<1>3. CASE Head(c2s).tag = "utf"
  BY <1>1, <1>2, <1>3 DEF Framing, TypesAwaitObjects, Utf
<1>4. CASE Head(c2s).tag # "utf"
  <2>1. Item(0) = Utf(Item(1).val.type)
    BY <1>1, <1>4 DEF Framing, ObjectsFollowTypes
  <2> QED
    BY <1>1, <1>2, <1>4, <2>1, ItemFacts DEF Utf
<1> QED
  BY <1>3, <1>4

(* readUTF is not called on an object. *)
LEMMA NextType == IndInv => ReadUTFFindsString
<1> SUFFICES ASSUME IndInv, At("readUTF"), c2s # <<>> PROVE Head(c2s).tag = "utf"
  BY DEF ReadUTFFindsString
<1>1. Head(c2s) = Item(1) /\ 1 \in Unread /\ 0 \notin Unread
  BY DEF IndInv, TypeOK, Item, Unread, At
<1> QED
  BY <1>1 DEF IndInv, Framing, ObjectsFollowTypes, At

LEMMA MisreadStep ==
    ASSUME IndInv, [Next]_vars
    PROVE  MisreadOnlyAfterAbort' /\ RunsRequestAsSent'
<1> USE DEF IndInv, MisreadOnlyAfterAbort, RunsRequestAsSent
<1>1. CASE ReadRequestType /\ UNCHANGED clientVars
  BY <1>1 DEF ReadRequestType, clientVars, At, ShowRequest
<1>2. CASE ReadObject /\ UNCHANGED clientVars
  <2>1. Head(c2s).val.type = requestType
    BY <1>2, NextObject, ItemFacts DEF ReadObject, At, PayloadClass, TypeOK, Control, RequestTypes
  <2> QED
    BY <1>2, <2>1 DEF ReadObject, clientVars, At
<1>3. CASE MisreadObject /\ UNCHANGED clientVars
  BY <1>3, NextObject DEF MisreadObject, clientVars, Dies
<1>4. CASE \E cause \in Exits \ {"OptionalData", "ClassCast", "running"} :
               Dies(cause) /\ UNCHANGED clientVars
  BY <1>4 DEF Dies, clientVars
<1>5. CASE /\ ReadEOF \/ GetInstance \/ CreateStatement \/ InsertBillboard \/ InsertView
              \/ UpdateView \/ DeleteFromView \/ UpdateBillboard \/ ShowTable
           /\ UNCHANGED clientVars
  BY <1>5 DEF ReadEOF, GetInstance, CreateStatement, InsertBillboard, InsertView, UpdateView,
      DeleteFromView, UpdateBillboard, ShowTable, Executes, At, Done, wireVars, clientVars
<1>6. CASE ServerNext /\ UNCHANGED <<clientVars, session>>
  BY <1>1, <1>2, <1>3, <1>4, <1>5, <1>6 DEF ServerNext, ServerStep, ReadReset,
      CreateStatementOnNull, ShowTableThrows, RefusedStatement, DatabaseFails, KillServer, Exits
<1>7. CASE (ClientStep \/ ClientUser) /\ UNCHANGED <<serverVars, session>>
  BY <1>7 DEF ClientStep, ClientUser, RequestTable, ReadTable, ConstructorThrows, WriteType,
      WriteTypeThrows, WriteObject, WriteObjectThrows, AbortDelete, CloseWindow, KillClient,
      wireVars, serverVars
<1>8. CASE NewSession
  BY <1>8 DEF NewSession
<1>9. CASE UNCHANGED vars
  BY <1>9 DEF vars, wireVars, serverVars, clientVars
<1> QED
  BY <1>6, <1>7, <1>8, <1>9 DEF Next

(***************************************************************************)
(* Framing.  The server's reads drop items from the front of the stream,   *)
(* the client's writes add one at its end.                                 *)
(***************************************************************************)
LEMMA FramingRead ==
    ASSUME IndInv, ReadRequestType \/ ReadObject, UNCHANGED clientVars
    PROVE  Framing'
<1> USE DEF IndInv
<1>1. /\ Len(c2s) \in Nat \ {0} /\ Len(c2s') = Len(c2s) - 1
      /\ \A i \in 1 .. Len(c2s') : c2s'[i] = c2s[i + 1]
      /\ Head(c2s) = c2s[1]
      /\ \A i \in 1 .. Len(c2s) : c2s[i] \in Items
      /\ exit = "running"
  <2>1. c2s \in Seq(Items) /\ c2s # <<>> /\ c2s' = Tail(c2s) /\ exit = "running"
    BY DEF TypeOK, ReadRequestType, ReadObject, At
  <2> QED
    BY <2>1
<1>2. \A i \in 1 .. Len(c2s) : Item(i) = c2s[i]
  BY DEF Item
<1>3. ObjectsFollowTypes /\ TypesAwaitObjects
  BY <1>1 DEF Framing
<1>4. clientPc = "writeObject" => /\ Item(Len(c2s)) = Utf(pending.type)
                                  /\ pending.type # "showTable"
  BY <1>1, RequestFacts DEF Framing, Control
<1>f. ASSUME NEW i \in Nat, i + 1 \in Unread, Item(i + 1).tag # "utf"
      PROVE  i \in Unread /\ Item(i) = Utf(Item(i + 1).val.type)
  <2>1. (i + 1) - 1 = i
    OBVIOUS
  <2> QED
    BY <1>3, <1>f, <2>1 DEF ObjectsFollowTypes
<1>5. CASE ReadRequestType
  <2>1. /\ Unread = 1 .. Len(c2s) /\ c2s[1].tag = "utf"
        /\ c2s[1] = Utf(requestType') /\ requestType' = c2s[1].val
    BY <1>1, <1>5, ItemFacts DEF ReadRequestType, At, Unread
  <2>2. CASE requestType' = "showTable"
    <3>1. Unread' = 1 .. Len(c2s) - 1 /\ \A i \in Unread' : Item(i)' = Item(i + 1)
      BY <1>1, <1>5, <2>1, <2>2 DEF ReadRequestType, Unread, Item
    <3>2. 2 \in Unread => Item(2).tag = "utf"
      <4> SUFFICES ASSUME 2 \in Unread, Item(2).tag # "utf" PROVE FALSE
        OBVIOUS
      <4>1. Item(2 - 1) = Utf(Item(2).val.type)
        BY <1>3, Zenon DEF ObjectsFollowTypes
      <4>2. Item(2) \in Items /\ Item(2 - 1) = c2s[1]
        BY <1>1, <2>1 DEF Item
      <4>3. Item(2).val.type # "showTable"
        BY <4>2, ItemFacts, RequestFacts
      <4> QED
        BY <2>1, <2>2, <4>1, <4>2, <4>3 DEF Utf
    <3>3. ObjectsFollowTypes'
      <4>1. ASSUME NEW i \in Unread', Item(i)'.tag # "utf"
            PROVE  i - 1 \in Unread' /\ Item(i - 1)' = Utf(Item(i)'.val.type)
        <5>1. i \in Nat /\ i + 1 \in Unread /\ Item(i + 1).tag # "utf" /\ i # 1
          BY <1>1, <2>1, <3>1, <3>2, <4>1
        <5>2. Item(i) = Utf(Item(i + 1).val.type) /\ i - 1 \in Unread'
          BY <1>1, <1>f, <3>1, <4>1, <5>1
        <5> QED
          BY <3>1, <5>1, <5>2 DEF Item
      <4> QED
        BY <4>1 DEF ObjectsFollowTypes, Item, Utf
    <3>4. TypesAwaitObjects'
      BY <1>1, <1>3, <2>1, <3>1 DEF TypesAwaitObjects, clientVars, Item
    <3>5. clientPc = "writeObject" => Len(c2s) # 1
      BY <1>2, <1>4, <1>1, <2>1, <2>2 DEF Utf
    <3> QED
      BY <1>1, <1>4, <2>1, <3>1, <3>3, <3>4, <3>5 DEF Framing, clientVars, Utf, Item
  <2>3. CASE requestType' # "showTable"
    <3>1. Unread' = 0 .. Len(c2s) - 1 /\ \A i \in Unread' : Item(i)' = Item(i + 1)
      BY <1>1, <1>2, <1>5, <2>1, <2>3 DEF ReadRequestType, Unread, Item, Utf
    <3>2. ObjectsFollowTypes'
      <4>1. ASSUME NEW i \in Unread', Item(i)'.tag # "utf"
            PROVE  i - 1 \in Unread' /\ Item(i - 1)' = Utf(Item(i)'.val.type)
        <5>1. i \in Nat /\ i + 1 \in Unread /\ Item(i + 1).tag # "utf"
          BY <1>1, <2>1, <3>1, <4>1
        <5>2. i \in Unread /\ Item(i) = Utf(Item(i + 1).val.type)
          BY <1>f, <5>1
        <5>3. i - 1 \in Unread'
          BY <1>1, <2>1, <3>1, <4>1, <5>1, <5>2
        <5> QED
          BY <3>1, <5>1, <5>2, <5>3 DEF Item
      <4> QED
        BY <4>1 DEF ObjectsFollowTypes, Item, Utf
    <3>3. TypesAwaitObjects'
      BY <1>1, <1>3, <2>1, <3>1 DEF TypesAwaitObjects, clientVars, Item
    <3> QED
      BY <1>1, <1>4, <2>1, <3>1, <3>2, <3>3 DEF Framing, clientVars, Utf, Item
  <2> QED
    BY <2>2, <2>3
<1>6. CASE ReadObject
  <2>1. /\ Unread = 0 .. Len(c2s) /\ Item(1).tag # "utf"
        /\ Unread' = 1 .. Len(c2s) - 1
        /\ \A i \in Unread' : Item(i)' = Item(i + 1)
    <3>1. Head(c2s).tag # "utf"
      BY <1>6 DEF ReadObject, PayloadClass, RequestTypes, Control, TypeOK, At
    <3> QED
      BY <1>1, <1>2, <1>6, <3>1 DEF ReadObject, At, Unread, Item
  <2>2. 2 \in Unread => Item(2).tag = "utf"
    <3> SUFFICES ASSUME 2 \in Unread, Item(2).tag # "utf" PROVE FALSE
      OBVIOUS
    <3>1. Item(2 - 1) = Utf(Item(2).val.type)
      BY <1>3, Zenon DEF ObjectsFollowTypes
    <3>2. Item(2 - 1) = Item(1)
      OBVIOUS
    <3> QED
      BY <2>1, <3>1, <3>2 DEF Utf
  <2>3. ObjectsFollowTypes'
    <3>1. ASSUME NEW i \in Unread', Item(i)'.tag # "utf"
          PROVE  i - 1 \in Unread' /\ Item(i - 1)' = Utf(Item(i)'.val.type)
      <4>1. i \in Nat /\ i + 1 \in Unread /\ Item(i + 1).tag # "utf" /\ i # 1
        BY <1>1, <2>1, <2>2, <3>1
      <4>2. Item(i) = Utf(Item(i + 1).val.type) /\ i - 1 \in Unread'
        BY <1>1, <1>f, <2>1, <3>1, <4>1
      <4> QED
        BY <2>1, <4>1, <4>2 DEF Item
    <3> QED
      BY <3>1 DEF ObjectsFollowTypes, Item, Utf
  <2>4. TypesAwaitObjects'
    BY <1>1, <1>3, <2>1 DEF TypesAwaitObjects, clientVars, Item
  <2>5. clientPc = "writeObject" => Len(c2s) # 1
    <3>1. Utf(pending.type).tag = "utf"
      BY DEF Utf
    <3> QED
      BY <1>4, <2>1, <3>1
  <2> QED
    BY <1>1, <1>4, <2>1, <2>3, <2>4, <2>5 DEF Framing, clientVars, Utf, Item
<1> QED
  BY <1>5, <1>6

LEMMA FramingWrite ==
    ASSUME IndInv, exit = "running", UNCHANGED serverVars,
           RequestTable \/ (\E r \in Requests : WriteType(r)) \/ WriteObject
    PROVE  Framing'
<1> USE DEF IndInv
<1>1. PICK item : c2s' = Append(c2s, item)
  BY DEF RequestTable, WriteType, WriteObject, Write
<1>n. PICK n \in Nat : n = Len(c2s) + 1
  BY DEF TypeOK
<1>2. /\ Len(c2s) \in Nat /\ n = Len(c2s) + 1 /\ Len(c2s') = n
      /\ \A i \in 1 .. Len(c2s) : c2s'[i] = c2s[i]
      /\ c2s'[n] = item
  BY <1>1, <1>n DEF TypeOK
<1>3. /\ Unread' = Unread \cup {n} /\ n \notin Unread
      /\ \A i \in Unread : Item(i)' = Item(i) /\ i <= Len(c2s)
      /\ Unread \subseteq Nat
      /\ Item(n)' = item
  <2>1. serverPc' = serverPc /\ requestType' = requestType
    BY DEF serverVars
  <2>2. PICK lo \in {0, 1} : Unread = lo .. Len(c2s) /\ Unread' = lo .. Len(c2s')
    BY <2>1 DEF Unread
  <2>3. lo .. n = (lo .. Len(c2s)) \cup {n} /\ n \notin lo .. Len(c2s)
    BY <1>2
  <2>4. \A i \in Unread : Item(i)' = Item(i)
    BY <1>2, <2>1, <2>2 DEF Item
  <2>5. Item(n)' = item
    BY <1>2 DEF Item
  <2>6. Unread \subseteq Nat /\ \A i \in Unread : i <= Len(c2s)
    BY <1>2, <2>2
  <2>7. Unread' = Unread \cup {n} /\ n \notin Unread
    BY <1>2, <2>2, <2>3
  <2> QED
    BY <2>4, <2>5, <2>6, <2>7
<1>4. ObjectsFollowTypes /\ TypesAwaitObjects
  BY DEF Framing
<1>5. CASE RequestTable \/ (\E r \in Requests : WriteType(r))
  <2>1. PICK t \in RequestTypes : /\ c2s' = Append(c2s, Utf(t))
                                  /\ \/ t = "showTable" /\ clientPc' = "await"
                                     \/ clientPc' = "writeObject" /\ t = pending'.type
    BY <1>5, RequestFacts DEF RequestTable, WriteType, Write, RequestTypes
  <2>2. item = Utf(t)
    BY <1>2, <2>1 DEF TypeOK
  <2>3. clientPc \notin {"writeObject", "closed"} /\ aborted' = aborted
    BY <1>5 DEF RequestTable, WriteType
  <2>4. ObjectsFollowTypes'
    <3>1. ASSUME NEW i \in Unread, Item(i).tag # "utf"
          PROVE  i - 1 \in Unread /\ Item(i - 1) = Utf(Item(i).val.type)
      BY <1>4, <3>1 DEF ObjectsFollowTypes
    <3>2. Item(n)'.tag = "utf"
      BY <1>3, <2>2 DEF Utf
    <3> QED
      BY <1>3, <3>1, <3>2 DEF ObjectsFollowTypes, Item, Utf
  <2>5. TypesAwaitObjects'
    <3>1. ASSUME NEW i \in Unread, Item(i).tag = "utf", Item(i).val # "showTable"
          PROVE  \/ i + 1 \in Unread /\ Item(i + 1).tag # "utf"
                 \/ aborted /\ Item(i).val = "delete"
      BY <1>4, <2>3, <3>1 DEF TypesAwaitObjects
    <3>2. Item(n)'.val = t
      BY <1>3, <2>2 DEF Utf
    <3> QED
      BY <1>2, <1>3, <2>1, <2>3, <3>1, <3>2 DEF TypesAwaitObjects, Item, Utf
  <2> QED
    BY <1>2, <1>3, <2>1, <2>2, <2>4, <2>5 DEF Framing, Utf, Item
<1>6. CASE WriteObject
  <2>1. item = Object(pending) /\ clientPc' = "idle" /\ aborted' = aborted /\ pending \in Requests
    BY <1>2, <1>6 DEF WriteObject, Write, TypeOK, Control
  <2>2. item.tag # "utf" /\ item.val = pending
    BY <2>1, RequestFacts DEF Object, PayloadClass, RequestTypes
  <2>3. Len(c2s) \in Unread /\ Item(Len(c2s)) = Utf(pending.type)
    BY <1>6 DEF WriteObject, Framing
  <2>4. ObjectsFollowTypes'
    <3>1. ASSUME NEW i \in Unread, Item(i).tag # "utf"
          PROVE  i - 1 \in Unread /\ Item(i - 1) = Utf(Item(i).val.type)
      BY <1>4, <3>1 DEF ObjectsFollowTypes
    <3>2. n - 1 \in Unread /\ Item(n - 1) = Utf(item.val.type)
      BY <1>2, <2>2, <2>3
    <3> QED
      BY <1>3, <3>1, <3>2 DEF ObjectsFollowTypes, Item, Utf
  <2>5. TypesAwaitObjects'
    <3>1. ASSUME NEW i \in Unread, Item(i).tag = "utf", Item(i).val # "showTable"
          PROVE  \/ i + 1 \in Unread /\ Item(i + 1).tag # "utf"
                 \/ i + 1 = n
                 \/ aborted /\ Item(i).val = "delete"
      BY <1>2, <1>4, <3>1 DEF TypesAwaitObjects
    <3> QED
      BY <1>2, <1>3, <2>1, <2>2, <3>1 DEF TypesAwaitObjects, Item, Utf
  <2> QED
    BY <2>1, <2>4, <2>5 DEF Framing
<1> QED
  BY <1>5, <1>6

LEMMA FramingStep ==
    ASSUME IndInv, [Next]_vars
    PROVE  Framing'
<1> USE DEF IndInv
<1>1. CASE exit' # "running"
  BY <1>1 DEF Framing
<1>2. CASE (ReadRequestType \/ ReadObject) /\ UNCHANGED clientVars
  BY <1>2, FramingRead
<1>3. CASE /\ exit = "running"
           /\ RequestTable \/ (\E r \in Requests : WriteType(r)) \/ WriteObject
           /\ UNCHANGED serverVars
  BY <1>3, FramingWrite
<1>4. ASSUME /\ exit = "running"
             /\ UNCHANGED <<c2s, requestType, pending, aborted>>
             /\ (serverPc = "readObject") <=> (serverPc' = "readObject")
             /\ \/ clientPc' = "closed"
                \/ clientPc' = clientPc
                \/ {clientPc, clientPc'} \cap {"writeObject", "closed"} = {}
      PROVE  Framing'
  <2>1. Unread' = Unread /\ \A i : Item(i)' = Item(i)
    BY <1>4 DEF Unread, Item
  <2> QED
    BY <1>4, <2>1 DEF Framing, ObjectsFollowTypes, TypesAwaitObjects, Item
<1>5. CASE /\ GetInstance \/ CreateStatement \/ InsertBillboard \/ InsertView
              \/ UpdateView \/ DeleteFromView \/ UpdateBillboard \/ ShowTable
           /\ UNCHANGED clientVars
  BY <1>4, <1>5 DEF GetInstance, CreateStatement, InsertBillboard, InsertView, UpdateView,
      DeleteFromView, UpdateBillboard, ShowTable, Executes, At, Done, wireVars, clientVars
<1>6. CASE ReadEOF /\ UNCHANGED clientVars
  <2>1. clientPc = "closed" /\ Unread' = {} /\ UNCHANGED clientPc
    BY <1>6 DEF ReadEOF, Control, Unread, wireVars, clientVars
  <2> QED
    BY <2>1 DEF Framing, ObjectsFollowTypes, TypesAwaitObjects
<1>7. CASE AbortDelete /\ UNCHANGED serverVars /\ exit = "running"
  <2>1. /\ Unread' = Unread /\ \A i : Item(i)' = Item(i)
        /\ Item(Len(c2s)) = Utf("delete") /\ aborted' = TRUE /\ clientPc' = "idle"
        /\ c2s' = c2s
    BY <1>7 DEF AbortDelete, Unread, Item, serverVars, wireVars, Framing
  <2>2. ObjectsFollowTypes'
    BY <1>7, <2>1 DEF Framing, ObjectsFollowTypes, Item
  <2>3. TypesAwaitObjects'
    BY <1>7, <2>1 DEF Framing, TypesAwaitObjects, AbortDelete, Item, Utf
  <2> QED
    BY <2>1, <2>2, <2>3 DEF Framing
<1>8. CASE /\ exit = "running"
           /\ ReadTable \/ CloseWindow \/ KillClient \/ ConstructorThrows
           /\ UNCHANGED serverVars
  BY <1>4, <1>8 DEF ReadTable, CloseWindow, KillClient, ConstructorThrows, serverVars
<1>9. CASE NewSession
  <2>1. Unread' = {} /\ clientPc' = "start"
    BY <1>9 DEF NewSession, Unread
  <2> QED
    BY <2>1 DEF Framing, ObjectsFollowTypes, TypesAwaitObjects
<1>10. CASE UNCHANGED vars /\ exit = "running"
  BY <1>4, <1>10 DEF vars, wireVars, serverVars, clientVars
<1>11. CASE exit' = "running" /\ ServerNext /\ UNCHANGED <<clientVars, session>>
  BY <1>2, <1>5, <1>6, <1>11 DEF ServerNext, ServerStep, MisreadObject, ReadReset,
      CreateStatementOnNull, ShowTableThrows, RefusedStatement, DatabaseFails, KillServer, Dies
<1>12. CASE /\ exit' = "running"
            /\ ClientStep \/ ClientUser
            /\ UNCHANGED <<serverVars, session>>
  <2>1. exit = "running"
    BY <1>12 DEF ClientStep, ClientUser, RequestTable, ReadTable, ConstructorThrows, WriteType,
        WriteTypeThrows, WriteObject, WriteObjectThrows, AbortDelete, CloseWindow, KillClient,
        wireVars
  <2> QED
    BY <1>3, <1>7, <1>8, <1>12, <2>1 DEF ClientStep, ClientUser, WriteTypeThrows,
        WriteObjectThrows, WriteThrows
<1> QED
  BY <1>1, <1>9, <1>10, <1>11, <1>12 DEF Next, vars, wireVars

(***************************************************************************)
(* Keys.                                                                   *)
(***************************************************************************)
LEMMA KeysStep ==
    ASSUME IndInv, [Next]_vars
    PROVE  Keys' /\ EditFindsRow' /\ KeysInStep' /\ SameKeySameText'
<1> USE DEF IndInv, Keys, EditFindsRow, KeysInStep, SameKeySameText
<1>t. nextBillboard \in Nat /\ nextView \in Nat /\ DOMAIN billboard \subseteq Nat
  BY DEF TypeOK, IsTable
<1>1. CASE InsertBillboard
  <2>1. /\ billboard' = WithRow(billboard, nextBillboard, request.data)
        /\ nextBillboard' = nextBillboard + 1
        /\ ~At("execute2") /\ At("execute2")'
        /\ UNCHANGED <<request, view, nextView, torn, edited>>
    BY <1>1 DEF InsertBillboard, Executes, At, wireVars
  <2>2. Keys' /\ EditFindsRow' /\ KeysInStep'
    BY <1>t, <2>1 DEF WithRow
  <2>3. SameKeySameText'
    <3> SUFFICES ASSUME ViewAutoInc, ~torn, NEW k \in DOMAIN view \ edited
                 PROVE  k \in DOMAIN billboard' /\ view[k].text = billboard'[k]
      BY <2>1
    <3>1. k \in DOMAIN billboard /\ k # nextBillboard
      BY <1>t
    <3> QED
      BY <2>1, <3>1 DEF WithRow
  <2> QED
    BY <2>2, <2>3
<1>2. CASE InsertView
  <2>1. /\ view' = WithRow(view, ViewKey, [text |-> request.data, sched |-> Null])
        /\ UNCHANGED <<billboard, nextBillboard, torn, edited, request>>
        /\ nextView' = IF ViewAutoInc THEN nextView + 1 ELSE nextView
        /\ At("execute2") /\ ~At("execute2")'
    BY <1>2 DEF InsertView, Executes, At, Done, wireVars
  <2>2. ViewAutoInc => nextView \in DOMAIN billboard
    BY <1>t, <2>1
  <2>3. Keys' /\ EditFindsRow' /\ KeysInStep'
    BY <1>t, <2>1, <2>2 DEF WithRow, ViewKey
  <2>4. SameKeySameText'
    <3> SUFFICES ASSUME ViewAutoInc, ~torn, NEW k \in DOMAIN view' \ edited
                 PROVE  k \in DOMAIN billboard /\ view'[k].text = billboard[k]
      BY <2>1
    <3>1. CASE k = nextView
      BY <2>1, <2>2, <3>1 DEF WithRow, ViewKey
    <3>2. CASE k # nextView
      BY <2>1, <3>2 DEF WithRow, ViewKey
    <3> QED
      BY <3>1, <3>2
  <2> QED
    BY <2>3, <2>4
<1>3. CASE UpdateView
  <2>1. /\ DOMAIN view' = DOMAIN view
        /\ UNCHANGED <<billboard, nextBillboard, nextView, torn, edited>>
        /\ ~At("execute2")'
    BY <1>3 DEF UpdateView, Executes, At, Done, wireVars
  <2>2. \A k \in DOMAIN view : view'[k].text = view[k].text
    BY <1>3 DEF UpdateView, Done, TypeOK, IsTable, ViewRow
  <2>3. ~At("execute2")
    BY <1>3 DEF UpdateView, Executes, At
  <2> QED
    BY <2>1, <2>2, <2>3
<1>4. CASE DeleteFromView \/ ShowTable
  BY <1>4 DEF DeleteFromView, ShowTable, Executes, At, Done, WithoutRow, dbVars, wireVars
<1>5. CASE UpdateBillboard
  BY <1>5 DEF UpdateBillboard, Executes, At, Done, wireVars
<1>6. CASE \E cause \in Exits \ {"running"} : Dies(cause)
  BY <1>6 DEF Dies, At
<1>7. CASE ReadRequestType \/ ReadObject \/ ReadEOF \/ GetInstance \/ CreateStatement
  BY <1>7 DEF ReadRequestType, ReadObject, ReadEOF, GetInstance, CreateStatement, At, dbVars, wireVars
<1>8. CASE UNCHANGED <<serverVars, exit>>
  BY <1>8 DEF serverVars, dbVars, At
<1>9. CASE NewSession
  BY <1>9 DEF NewSession, At, dbVars
<1>10. CASE ServerNext
  BY <1>1, <1>2, <1>3, <1>4, <1>5, <1>6, <1>7, <1>10 DEF ServerNext, ServerStep, MisreadObject,
      ReadReset, CreateStatementOnNull, ShowTableThrows, RefusedStatement, DatabaseFails,
      KillServer, Exits
<1>11. CASE (ClientStep \/ ClientUser) /\ UNCHANGED <<serverVars, session>>
  BY <1>8, <1>11 DEF ClientStep, ClientUser, RequestTable, ReadTable, ConstructorThrows, WriteType,
      WriteTypeThrows, WriteObject, WriteObjectThrows, AbortDelete, CloseWindow, KillClient,
      wireVars
<1>12. CASE UNCHANGED vars
  BY <1>8, <1>12 DEF vars, wireVars
<1> QED
  BY <1>9, <1>10, <1>11, <1>12 DEF Next

(* An abandoned server stays so until it is killed: every other step needs *)
(* an item to read, a request in hand, or a client that is still there.    *)
LEMMA AbandonedStep ==
    ASSUME IndInv, [Next]_vars, Abandoned
    PROVE  (Abandoned' \/ exit' = "killed") /\ UNCHANGED <<billboard, view, s2c>>
<1> USE DEF Abandoned
<1>1. clientPc = "closed"
  BY DEF IndInv, Control
<1>2. CASE ServerNext /\ UNCHANGED <<clientVars, session>>
  BY <1>2 DEF ServerNext, ServerStep, ReadRequestType, ReadObject, MisreadObject, ReadEOF,
      ReadReset, GetInstance, CreateStatement, CreateStatementOnNull, InsertBillboard,
      InsertView, UpdateView, DeleteFromView, UpdateBillboard, ShowTable, ShowTableThrows,
      RefusedStatement, DatabaseFails, KillServer, Dies, Executes, At, dbVars, wireVars
<1>3. CASE ClientStep \/ ClientUser
  BY <1>1, <1>3 DEF ClientStep, ClientUser, RequestTable, ReadTable, ConstructorThrows, WriteType,
      WriteTypeThrows, WriteObject, WriteObjectThrows, AbortDelete, CloseWindow, KillClient
<1>4. CASE NewSession
  BY <1>4 DEF NewSession
<1>5. CASE UNCHANGED vars
  BY <1>5 DEF vars, wireVars, serverVars, dbVars
<1> QED
  BY <1>2, <1>3, <1>4, <1>5 DEF Next

(***************************************************************************)
(* Start-up.                                                               *)
(***************************************************************************)
LEMMA StartUpServer ==
    ASSUME IndInv, ServerNext, UNCHANGED <<clientVars, session>>
    PROVE  StartUp'
<1> USE DEF IndInv, StartUp, clientVars
<1>t. sent \in Nat /\ c2s \in Seq(Items)
  BY DEF TypeOK
<1>1. CASE \E cause \in Exits \ {"NullPointer"} : Dies(cause)
  BY <1>1 DEF Dies
<1>2. CASE CreateStatementOnNull
  BY <1>2 DEF CreateStatementOnNull, Dies
<1>3. CASE ReadRequestType
  <2>1. /\ Head(c2s) = c2s[1] /\ 1 \in 1 .. Len(c2s)
        /\ \A i \in 1 .. Len(c2s') : c2s'[i] = c2s[i + 1] /\ i + 1 \in 1 .. Len(c2s)
    BY <1>3, <1>t DEF ReadRequestType
  <2> QED
    BY <1>3, <2>1 DEF ReadRequestType, Utf
<1>4. CASE ReadObject
  <2>1. /\ sent # 0
    <3>1. Head(c2s) = c2s[1] /\ 1 \in 1 .. Len(c2s) /\ Head(c2s).tag # "utf"
      BY <1>4, <1>t DEF ReadObject, PayloadClass, RequestTypes, Control, TypeOK, At
    <3> QED
      BY <3>1 DEF Utf
  <2> QED
    BY <1>4, <2>1 DEF ReadObject
<1>5. CASE ReadEOF
  BY <1>5 DEF ReadEOF, wireVars
<1>6. CASE GetInstance \/ CreateStatement
  BY <1>6 DEF GetInstance, CreateStatement, wireVars, At
<1>7. CASE InsertBillboard \/ InsertView \/ UpdateView \/ DeleteFromView \/ UpdateBillboard
  BY <1>7 DEF InsertBillboard, InsertView, UpdateView, DeleteFromView, UpdateBillboard,
      Executes, At, Done, wireVars
<1>8. CASE ShowTable
  BY <1>8 DEF ShowTable, Executes, At
<1> QED
  BY <1>1, <1>2, <1>3, <1>4, <1>5, <1>6, <1>7, <1>8 DEF ServerNext, ServerStep, MisreadObject,
      ReadReset, ShowTableThrows, RefusedStatement, DatabaseFails, KillServer, Exits

LEMMA StartUpClient ==
    ASSUME IndInv, ClientStep \/ ClientUser, UNCHANGED <<serverVars, session>>
    PROVE  StartUp'
<1> USE DEF IndInv, StartUp, serverVars
<1>t. sent \in Nat /\ c2s \in Seq(Items) /\ s2c \in Seq(Replies)
  BY DEF TypeOK
<1>1. CASE RequestTable
  <2>1. \A i \in 1 .. Len(c2s') : \/ i \in 1 .. Len(c2s) /\ c2s'[i] = c2s[i]
                                  \/ c2s'[i] = Utf("showTable")
    BY <1>1, <1>t DEF RequestTable, Write
  <2> QED
    BY <1>1, <2>1 DEF RequestTable
<1>2. CASE ReadTable
  BY <1>2, <1>t DEF ReadTable
<1>3. CASE ConstructorThrows \/ CloseWindow \/ KillClient
  BY <1>3 DEF ConstructorThrows, CloseWindow, KillClient
<1>4. CASE (\E r \in Requests : WriteType(r)) \/ WriteTypeThrows
  BY <1>4, <1>t DEF WriteType, WriteTypeThrows, wireVars
<1>5. CASE WriteObject \/ WriteObjectThrows \/ AbortDelete
  <2>1. sent # 0
    <3>1. clientPc = "writeObject"
      BY <1>5 DEF WriteObject, WriteObjectThrows, AbortDelete
    <3> QED
      BY <1>t, <3>1
  <2> QED
    BY <1>5, <2>1 DEF WriteObject, WriteObjectThrows, AbortDelete, wireVars
<1> QED
  BY <1>1, <1>2, <1>3, <1>4, <1>5 DEF ClientStep, ClientUser

LEMMA StartUpStep ==
    ASSUME IndInv, [Next]_vars
    PROVE  StartUp'
<1>1. CASE NewSession
  BY <1>1 DEF NewSession, StartUp
<1>2. CASE UNCHANGED vars
  BY <1>2 DEF vars, wireVars, serverVars, clientVars, IndInv, StartUp
<1> QED
  BY <1>1, <1>2, StartUpServer, StartUpClient DEF Next

LEMMA IndInvStep == IndInv /\ [Next]_vars => IndInv'
  BY TypesStep, ControlStep, FramingStep, MisreadStep, KeysStep, StartUpStep DEF IndInv

(***************************************************************************)
(* The theorems.                                                           *)
(***************************************************************************)
(* IndInv is an invariant of client and server, whatever the user clicks   *)
(* and whichever process dies (clientGUI.java:65-337, Server.java:19-135). *)
THEOREM IndInvCorrect == Spec => []IndInv
  BY InitIndInv, IndInvStep, PTL DEF Spec

(* The types hold; in particular no statement writes a schedule where a    *)
(* text belongs, though both arrive in an Add (Server.java:34,50).         *)
THEOREM TypeCorrect == Spec => []TypeOK
<1>1. IndInv => TypeOK
  BY DEF IndInv
<1> QED
  BY IndInvCorrect, <1>1, PTL

(* readUTF at Server.java:30 always finds a string. *)
THEOREM ReadUTFCorrect == Spec => []ReadUTFFindsString
  BY IndInvCorrect, NextType, PTL

(* No object is cast to a wrong class, and an object is missed only after  *)
(* a delete was aborted (Server.java:34,50,100,109).                       *)
THEOREM MisreadCorrect == Spec => []MisreadOnlyAfterAbort
<1>1. IndInv => MisreadOnlyAfterAbort
  BY DEF IndInv
<1> QED
  BY IndInvCorrect, <1>1, PTL

(* The case that runs is the one the request was written for. *)
THEOREM AsSentCorrect == Spec => []RunsRequestAsSent
<1>1. IndInv => RunsRequestAsSent
  BY DEF IndInv
<1> QED
  BY IndInvCorrect, <1>1, PTL

(* A failed connect is met by the request for the table alone              *)
(* (DBConnection.java:30-36, Server.java:68).                              *)
THEOREM NullCorrect == Spec => []NullOnlyBeforeTable
<1>1. IndInv => NullOnlyBeforeTable
  BY DEF IndInv, StartUp, NullOnlyBeforeTable, TypeOK
<1> QED
  BY IndInvCorrect, <1>1, PTL

(* With generated keys, view never shows a key that billboard lacks        *)
(* (Server.java:42-43,104).                                                *)
THEOREM EditFindsRowCorrect == Spec => []EditFindsRow
<1>1. IndInv => EditFindsRow
  BY DEF IndInv
<1> QED
  BY IndInvCorrect, <1>1, PTL

(* The two keys of an add agree until one is cut short (Server.java:42-43).*)
THEOREM KeysCorrect == Spec => []KeysInStep
<1>1. IndInv => KeysInStep
  BY DEF IndInv
<1> QED
  BY IndInvCorrect, <1>1, PTL

(* Until an add is cut short, a row of view no edit has reached has the    *)
(* content of the billboard of its key (Server.java:42-43,114).            *)
THEOREM SameTextCorrect == Spec => []SameKeySameText
<1>1. IndInv => SameKeySameText
  BY DEF IndInv
<1> QED
  BY IndInvCorrect, <1>1, PTL

(* A server whose client left turns in its loop until it is killed         *)
(* (Server.java:122-124).                                                  *)
THEOREM SpinsCorrect == Spec => SpinsUntilKilled
<1>1. IndInv /\ [Next]_vars =>
        [Abandoned => (Abandoned' \/ exit' = "killed") /\ UNCHANGED <<billboard, view, s2c>>]_vars
  BY AbandonedStep
<1> QED
  BY IndInvCorrect, <1>1, PTL DEF Spec, SpinsUntilKilled
=============================================================================
