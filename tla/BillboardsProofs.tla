-------------------------- MODULE BillboardsProofs --------------------------
(***************************************************************************)
(* The window implements Session, and keeps its rows, its highlight and    *)
(* its fields in step with the tables, for any number of rows, requests    *)
(* and sessions.                                                           *)
(***************************************************************************)
EXTENDS Billboards, QueueProofs, FiniteSetTheorems

USE TypedAssumption, ShownAssumption, IdAssumption DEF TypedAssumption, ShownAssumption, IdAssumption

(***************************************************************************)
(* The selection and the rows.                                             *)
(***************************************************************************)
(* A set of indices has a smallest one: what getSelectedRow() returns. *)
LEMMA SmallestIndex ==
    ASSUME NEW S, S \subseteq Nat, S # {}
    PROVE  /\ SelectedRow(S) \in S
           /\ \A j \in S : SelectedRow(S) <= j
<1>1. PICK i \in S : \A j \in S : i <= j
  BY FirstPlace
<1> QED
  BY <1>1, Zenon DEF SelectedRow

(* removeRow takes one row out and moves up those below it. *)
LEMMA RowTakenOut ==
    ASSUME NEW T, NEW s \in Seq(T), NEW i \in 1 .. Len(s)
    PROVE  /\ RemoveAt(s, i) \in Seq(T)
           /\ Len(RemoveAt(s, i)) = Len(s) - 1
           /\ \A j \in 1 .. Len(s) - 1 :
                  RemoveAt(s, i)[j] = IF j < i THEN s[j] ELSE s[j + 1]
<1> DEFINE above == SubSeq(s, 1, i - 1)
           below == SubSeq(s, i + 1, Len(s))
<1>1. /\ above \in Seq(T) /\ Len(above) = i - 1
      /\ \A j \in 1 .. i - 1 : above[j] = s[j]
  OBVIOUS
<1>2. /\ below \in Seq(T) /\ Len(below) = Len(s) - i
      /\ \A j \in 1 .. Len(s) - i : below[j] = s[j + i]
  OBVIOUS
<1>3. RemoveAt(s, i) = above \o below
  BY DEF RemoveAt
<1> HIDE DEF above, below
<1>4. /\ above \o below \in Seq(T)
      /\ Len(above \o below) = Len(s) - 1
  BY <1>1, <1>2
<1>5. ASSUME NEW j \in 1 .. Len(s) - 1
      PROVE  (above \o below)[j] = IF j < i THEN s[j] ELSE s[j + 1]
  <2>1. CASE j < i
    BY <1>1, <1>2, <2>1
  <2>2. CASE ~(j < i)
    <3>1. (above \o below)[j] = below[j - (i - 1)] /\ j - (i - 1) \in 1 .. Len(s) - i
      BY <1>1, <1>2, <2>2
    <3> QED
      BY <1>2, <2>2, <3>1
  <2> QED
    BY <2>1, <2>2
<1> QED
  BY <1>3, <1>4, <1>5

(***************************************************************************)
(* Every step of the window is one of Session's client, or none.           *)
(***************************************************************************)
LEMMA GuiStepRefines == GuiStep => ClientStep \/ ClientUser
<1> USE DEF ClientStep, ClientUser
<1>1. (RequestTable \/ ConstructorThrows) /\ UNCHANGED guiVars => ClientStep
  OBVIOUS
<1>2. FillTable \/ FinishDelete \/ AbortedDelete \/ FinishUpdate \/ FinishSchedule => ClientStep
  BY DEF FillTable, FinishDelete, AbortedDelete, FinishUpdate, FinishSchedule
<1>3. UpdateThrows \/ OtherThrows => ClientStep \/ ClientUser
  BY DEF UpdateThrows, OtherThrows
<1> QED
  BY <1>1, <1>2, <1>3 DEF GuiStep

LEMMA GuiUserRefines ==
    ASSUME GuiTypeOK, GuiUser, UNCHANGED <<serverVars, session>>
    PROVE  ClientUser \/ UNCHANGED vars
<1> USE DEF ClientUser
<1>1. CASE \/ \E S \in Selections : SelectRows(S)
           \/ \E i \in 0 .. Len(rows) - 1, id \in CellIds : EditCell(i, id)
           \/ DragColumn \/ PressEdit
           \/ \E id \in TypedIds \cup {NaN} : TypeEditID(id)
  <2>1. UNCHANGED <<wireVars, clientVars>>
    BY <1>1, Zenon DEF SelectRows, EditCell, DragColumn, PressEdit, TypeEditID
  <2> QED
    BY <2>1 DEF vars
<1>2. CASE DeleteType
  <2>1. [type |-> "delete", id |-> billboardID, data |-> Null] \in Requests
    BY DEF GuiTypeOK, Requests
  <2> QED
    BY <1>2, <2>1, Zenon DEF DeleteType
<1>3. CASE \E text \in Texts : UpdateType(text)
  BY <1>3 DEF UpdateType, GuiTypeOK, Requests
<1>4. CASE \E id \in TypedIds \cup {NaN}, sched \in Scheds : ScheduleType(id, sched)
  BY <1>4 DEF ScheduleType, Requests
<1>5. CASE CloseWindow \/ KillClient
  BY <1>5
<1> QED
  BY <1>1, <1>2, <1>3, <1>4, <1>5 DEF GuiUser

LEMMA WindowRefines ==
    ASSUME GuiTypeOK, [WindowNext]_windowVars
    PROVE  [Next]_vars
<1>1. CASE ServerNext /\ UNCHANGED <<clientVars, guiVars, session>>
  BY <1>1 DEF Next
<1>2. CASE GuiStep /\ UNCHANGED <<serverVars, session>>
  BY <1>2, GuiStepRefines DEF Next
<1>3. CASE GuiUser /\ UNCHANGED <<serverVars, session>>
  BY <1>3, GuiUserRefines DEF Next
<1>4. CASE WindowNewSession
  BY <1>4 DEF WindowNewSession, Next
<1>5. CASE UNCHANGED windowVars
  BY <1>5 DEF windowVars
<1> QED
  BY <1>1, <1>2, <1>3, <1>4, <1>5 DEF WindowNext

(***************************************************************************)
(* The inductive invariant.                                                *)
(***************************************************************************)
LEMMA WindowInvInit == WindowInit => WindowInv
<1> SUFFICES ASSUME WindowInit PROVE WindowInv
  OBVIOUS
<1> USE DEF WindowInit, Init, GuiStart, WireInit, ServerStart, DbInit, ClientStart
<1>1. GuiTypeOK
  <2>1. rows \in Seq(Ids \cup {NaN}) /\ selectedRow \in Nat /\ rowToEdit \in Nat \cup {-1}
    OBVIOUS
  <2> QED
    BY <2>1, Zenon DEF GuiTypeOK
<1>2. IsFiniteSet(selection)
  BY FS_EmptySet
<1>3. Deletes = {} /\ ShownIds = {}
  BY DEF Deletes, ShownIds
<1>4. NoAdds /\ NothingShown /\ PendingFromFields /\ RowsOwnIds /\ EditLoaded
  <2>1. DOMAIN c2s = {} /\ DOMAIN s2c = {} /\ DOMAIN rows = {}
    OBVIOUS
  <2>2. DOMAIN view = InitView /\ pending.type = "showTable"
    BY DEF ShowRequest
  <2> QED
    BY <2>1, <2>2 DEF NoAdds, NothingShown, PendingFromFields, RowsOwnIds, EditLoaded
<1>5. DeletedNotShown /\ DeletesPicked
  BY <1>3 DEF DeletedNotShown, DeletesPicked
<1>6. ShownRowsExist /\ HighlightIsTarget
  BY DEF ShownRowsExist, HighlightIsTarget, IsRow
<1> QED
  BY <1>1, <1>2, <1>4, <1>5, <1>6 DEF WindowInv

(* What depends on the window alone, when the window does not change. *)
LEMMA WindowStays ==
    ASSUME WindowInv, UNCHANGED guiVars
    PROVE  /\ GuiTypeOK' /\ IsFiniteSet(selection)' /\ RowsOwnIds' /\ EditLoaded'
           /\ HighlightIsTarget' /\ ShownIds' = ShownIds
<1>1. /\ UNCHANGED <<rows, selection, idFirst, editFresh, overwritten>>
      /\ UNCHANGED <<billboardID, selectedRow, rowToEdit, editID, idEditable>>
      /\ UNCHANGED <<picked, strays, misread>>
  BY DEF guiVars, fieldVars, listenerVars
<1>2. GuiTypeOK' /\ IsFiniteSet(selection)' /\ RowsOwnIds' /\ EditLoaded' /\ ShownIds' = ShownIds
  BY <1>1, Zenon DEF WindowInv, GuiTypeOK, RowsOwnIds, EditLoaded, IsRow, RowId, ShownIds
<1>3. HighlightIsTarget'
  BY <1>1, Zenon DEF WindowInv, HighlightIsTarget, IsRow, RowId
<1> QED
  BY <1>2, <1>3

(***************************************************************************)
(* The server's steps.                                                     *)
(***************************************************************************)
(* The items the server reads are items. *)
LEMMA HeadItem ==
    ASSUME IndInv, c2s # <<>>
    PROVE  /\ Head(c2s) \in Items /\ Head(c2s) = c2s[1] /\ 1 \in DOMAIN c2s
           /\ Tail(c2s) \in Seq(Items)
           /\ \A n \in DOMAIN Tail(c2s) : n + 1 \in DOMAIN c2s /\ Tail(c2s)[n] = c2s[n + 1]
  BY DEF IndInv, TypeOK

(* A server step takes up or finishes a delete, and begins none. *)
LEMMA ServerDeletes ==
    ASSUME IndInv, ServerNext
    PROVE  Deletes' \subseteq Deletes
<1>1. CASE ReadRequestType
  <2>1. c2s # <<>> /\ c2s' = Tail(c2s) /\ serverPc' \in {"readObject", "getInstance"}
        /\ (serverPc' = "getInstance" => requestType' = "showTable")
    BY <1>1 DEF ReadRequestType
  <2> QED
    BY <2>1, HeadItem DEF Deletes
<1>2. CASE ReadObject
  <2>1. /\ c2s # <<>> /\ c2s' = Tail(c2s) /\ requestType' = requestType
        /\ request' = c2s[1].val /\ c2s[1].tag = PayloadClass[requestType]
    BY <1>2, HeadItem DEF ReadObject
  <2>2. requestType = "delete" => c2s[1].tag = "Delete"
    BY <2>1 DEF PayloadClass, RequestTypes
  <2> QED
    BY <2>1, <2>2, HeadItem DEF Deletes
<1>3. CASE GetInstance \/ CreateStatement \/ InsertBillboard
  <2>1. /\ UNCHANGED <<c2s, requestType, request>>
        /\ serverPc \notin {"readUTF", "readObject"}
    BY <1>3 DEF GetInstance, CreateStatement, InsertBillboard, Executes, At, wireVars
  <2> QED
    BY <2>1 DEF Deletes
<1>4. CASE ReadEOF \/ InsertView \/ UpdateView \/ DeleteFromView \/ UpdateBillboard \/ ShowTable
  <2>1. UNCHANGED c2s /\ serverPc' = "readUTF"
    BY <1>4 DEF ReadEOF, InsertView, UpdateView, DeleteFromView, UpdateBillboard, ShowTable,
                Done, wireVars
  <2> QED
    BY <2>1 DEF Deletes
<1>5. CASE \/ MisreadObject \/ ReadReset \/ CreateStatementOnNull \/ ShowTableThrows
           \/ RefusedStatement \/ DatabaseFails \/ KillServer
  <2>1. UNCHANGED <<c2s, serverPc, requestType, request>>
    BY <1>5 DEF MisreadObject, ReadReset, CreateStatementOnNull, ShowTableThrows,
                RefusedStatement, DatabaseFails, KillServer, Dies
  <2> QED
    BY <2>1, Zenon DEF Deletes
<1> QED
  BY <1>1, <1>2, <1>3, <1>4, <1>5 DEF ServerNext, ServerStep

(* A row leaves view only by a delete that was under way. *)
LEMMA ServerKeepsRows ==
    ASSUME ServerNext
    PROVE  \A k \in DOMAIN view : k \in DOMAIN view' \/ (k \in Deletes /\ requestType = "delete")
<1>1. CASE DeleteFromView
  BY <1>1 DEF DeleteFromView, WithoutRow, Executes, At, Deletes
<1>2. CASE InsertView \/ UpdateView
  BY <1>2 DEF InsertView, UpdateView, WithRow
<1>3. CASE view' = view
  BY <1>3
<1> QED
  BY <1>1, <1>2, <1>3 DEF ServerNext, ServerStep, ReadRequestType, ReadObject, MisreadObject,
      ReadEOF, ReadReset, GetInstance, CreateStatement, CreateStatementOnNull, InsertBillboard,
      UpdateBillboard, ShowTable, ShowTableThrows, RefusedStatement, DatabaseFails, KillServer,
      Dies, dbVars

(* A reply is the table as it is. *)
LEMMA ServerReplies ==
    ASSUME IndInv, ServerNext
    PROVE  \A n \in DOMAIN s2c' : (n \in DOMAIN s2c /\ s2c'[n] = s2c[n]) \/ s2c'[n] = view
<1>1. CASE ShowTable
  BY <1>1 DEF ShowTable, IndInv, TypeOK
<1>2. CASE s2c' = s2c
  BY <1>2
<1> QED
  BY <1>1, <1>2 DEF ServerNext, ServerStep, ReadRequestType, ReadObject, MisreadObject,
      ReadEOF, ReadReset, GetInstance, CreateStatement, CreateStatementOnNull, InsertBillboard,
      InsertView, UpdateView, DeleteFromView, UpdateBillboard, ShowTableThrows,
      RefusedStatement, DatabaseFails, KillServer, Dies, Done, wireVars

LEMMA ServerNoAdds ==
    ASSUME IndInv, NoAdds, ServerNext, UNCHANGED clientVars
    PROVE  NoAdds'
<1>1. /\ requestType' # "addBillboard"
      /\ \A n \in DOMAIN c2s' : c2s'[n].tag = "utf" => c2s'[n].val # "addBillboard"
  <2>1. CASE ReadRequestType
    <3>1. c2s # <<>> /\ c2s' = Tail(c2s) /\ c2s[1].tag = "utf" /\ requestType' = c2s[1].val
      BY <2>1, HeadItem DEF ReadRequestType
    <3> QED
      BY <3>1, HeadItem DEF NoAdds
  <2>2. CASE ReadObject
    <3>1. c2s # <<>> /\ c2s' = Tail(c2s) /\ requestType' = requestType
      BY <2>2 DEF ReadObject
    <3> QED
      BY <3>1, HeadItem DEF NoAdds
  <2>3. CASE UNCHANGED <<c2s, requestType>>
    BY <2>3 DEF NoAdds
  <2> QED
    BY <2>1, <2>2, <2>3 DEF ServerNext, ServerStep, MisreadObject,
      ReadEOF, ReadReset, GetInstance, CreateStatement, CreateStatementOnNull, InsertBillboard,
      InsertView, UpdateView, DeleteFromView, UpdateBillboard, ShowTable, ShowTableThrows,
      RefusedStatement, DatabaseFails, KillServer, Dies, Done, wireVars
<1>2. DOMAIN view' \subseteq DOMAIN view
  <2>1. CASE UpdateView \/ DeleteFromView
    BY <2>1 DEF UpdateView, DeleteFromView, WithoutRow
  <2>2. CASE view' = view
    BY <2>2
  <2>3. ~InsertView
    BY DEF InsertView, Executes, NoAdds
  <2> QED
    BY <2>1, <2>2, <2>3 DEF ServerNext, ServerStep, ReadRequestType, ReadObject, MisreadObject,
      ReadEOF, ReadReset, GetInstance, CreateStatement, CreateStatementOnNull, InsertBillboard,
      UpdateBillboard, ShowTable, ShowTableThrows, RefusedStatement, DatabaseFails, KillServer,
      Dies, dbVars
<1>3. \A n \in DOMAIN s2c' : DOMAIN s2c'[n] \subseteq InitView
  BY ServerReplies DEF NoAdds
<1>4. pending' = pending
  BY DEF clientVars
<1> QED
  BY <1>1, <1>2, <1>3, <1>4 DEF NoAdds

LEMMA ServerWindow ==
    ASSUME IndInv, WindowInv, ServerNext, UNCHANGED <<clientVars, guiVars, session>>
    PROVE  WindowInv'
<1>1. /\ UNCHANGED <<rows, selection, editFresh, overwritten, billboardID, selectedRow, editID>>
      /\ UNCHANGED <<picked, strays, clientPc, pending, sent>>
  BY DEF guiVars, fieldVars, listenerVars, clientVars
<1>2. /\ GuiTypeOK' /\ IsFiniteSet(selection)' /\ RowsOwnIds' /\ EditLoaded'
      /\ HighlightIsTarget' /\ ShownIds' = ShownIds
  BY WindowStays
<1>3. NoAdds'
  BY ServerNoAdds DEF WindowInv
<1>4. NothingShown'
  <2> SUFFICES ASSUME clientPc \in {"start", "await"}
               PROVE  \A n \in DOMAIN s2c' : DOMAIN s2c'[n] \subseteq DOMAIN view'
    BY <1>1 DEF WindowInv, NothingShown
  <2>1. requestType = "showTable"
    BY DEF IndInv, StartUp
  <2>2. DOMAIN view \subseteq DOMAIN view'
    BY <2>1, ServerKeepsRows
  <2> QED
    BY <2>2, ServerReplies DEF WindowInv, NothingShown
<1>5. PendingFromFields'
  BY <1>1, Zenon DEF WindowInv, PendingFromFields
<1>6. DeletedNotShown' /\ DeletesPicked'
  <2>1. IsRow(selectedRow)' = IsRow(selectedRow) /\ RowId(selectedRow)' = RowId(selectedRow)
    BY <1>1 DEF IsRow, RowId
  <2> QED
    BY <1>1, <1>2, <2>1, ServerDeletes DEF WindowInv, DeletedNotShown, DeletesPicked
<1>7. ShownRowsExist'
  <2> SUFFICES ASSUME ~overwritten, strays = {}, clientPc # "closed", NEW i \in 0 .. Len(rows) - 1
               PROVE  RowId(i) \in DOMAIN view'
    BY <1>1 DEF ShownRowsExist, RowId
  <2>1. RowId(i) \in DOMAIN view
    BY DEF WindowInv, ShownRowsExist
  <2>2. RowId(i) \in ShownIds
    BY DEF RowId, ShownIds, WindowInv, GuiTypeOK
  <2>3. RowId(i) \notin Deletes
    BY <2>2 DEF WindowInv, DeletedNotShown
  <2> QED
    BY <2>1, <2>3, ServerKeepsRows
<1> QED
  BY <1>2, <1>3, <1>4, <1>5, <1>6, <1>7 DEF WindowInv

(***************************************************************************)
(* The client's steps that leave the window as it is.                      *)
(***************************************************************************)
(* A write puts one item behind the others, or nothing. *)
LEMMA WriteAdds ==
    ASSUME IndInv, NEW item \in Items, Write(item)
    PROVE  \A n \in DOMAIN c2s' : (n \in DOMAIN c2s /\ c2s'[n] = c2s[n]) \/ c2s'[n] = item
  BY DEF Write, IndInv, TypeOK

(* Only the object of a delete hands over a delete, of its id. *)
LEMMA WriteDeletes ==
    ASSUME IndInv, NEW item \in Items, Write(item), UNCHANGED serverVars
    PROVE  \A d \in Deletes' : d \in Deletes \/ (item.tag = "Delete" /\ d = item.val.id)
<1>1. UNCHANGED <<serverPc, requestType, request>>
  BY DEF serverVars
<1> QED
  BY <1>1, WriteAdds DEF Deletes

LEMMA WindowAlone ==
    ASSUME WindowInv, UNCHANGED <<guiVars, serverVars, s2c>>,
           \A d \in Deletes' : d \in Deletes,
           \A n \in DOMAIN c2s' : c2s'[n].tag = "utf" => c2s'[n].val # "addBillboard",
           clientPc' \in {"start", "await"} => clientPc \in {"start", "await"},
           clientPc = "closed" => clientPc' = "closed",
           pending'.type # "addBillboard",
           PendingFromFields'
    PROVE  WindowInv'
<1>1. /\ UNCHANGED <<rows, selection, editFresh, overwritten, billboardID, selectedRow, editID>>
      /\ UNCHANGED <<picked, strays, view, requestType, s2c>>
  BY DEF guiVars, fieldVars, listenerVars, serverVars, dbVars
<1>2. /\ GuiTypeOK' /\ IsFiniteSet(selection)' /\ RowsOwnIds' /\ EditLoaded'
      /\ HighlightIsTarget' /\ ShownIds' = ShownIds
  BY WindowStays
<1>3. NoAdds' /\ NothingShown'
  BY <1>1 DEF WindowInv, NoAdds, NothingShown
<1>4. DeletedNotShown' /\ DeletesPicked'
  <2>1. IsRow(selectedRow)' = IsRow(selectedRow) /\ RowId(selectedRow)' = RowId(selectedRow)
    BY <1>1 DEF IsRow, RowId
  <2> QED
    BY <1>1, <1>2, <2>1 DEF WindowInv, DeletedNotShown, DeletesPicked
<1>5. ShownRowsExist'
  BY <1>1 DEF WindowInv, ShownRowsExist, RowId
<1> QED
  BY <1>2, <1>3, <1>4, <1>5 DEF WindowInv

LEMMA QuietWindow ==
    ASSUME IndInv, WindowInv, UNCHANGED <<serverVars, session>>,
           \/ (RequestTable \/ ConstructorThrows) /\ UNCHANGED guiVars
           \/ AbortedDelete \/ FinishSchedule \/ OtherThrows \/ DeleteType
           \/ \E text \in Texts : UpdateType(text)
           \/ \E id \in TypedIds \cup {NaN}, sched \in Scheds : ScheduleType(id, sched)
           \/ (CloseWindow \/ KillClient) /\ UNCHANGED guiVars
    PROVE  WindowInv'
<1>1. \A n \in DOMAIN c2s : c2s[n].tag = "utf" => c2s[n].val # "addBillboard"
  BY DEF WindowInv, NoAdds
<1>2. pending.type # "addBillboard"
  BY DEF WindowInv, NoAdds
<1>3. UNCHANGED guiVars => UNCHANGED <<billboardID, editID>>
  BY DEF guiVars, fieldVars
<1>4. CASE /\ \/ RequestTable
              \/ DeleteType
              \/ \E text \in Texts : UpdateType(text)
              \/ \E id \in TypedIds \cup {NaN}, sched \in Scheds : ScheduleType(id, sched)
           /\ UNCHANGED guiVars
  <2>1. PICK t \in RequestTypes \ {"addBillboard"} : Write(Utf(t))
    BY <1>4 DEF RequestTable, DeleteType, UpdateType, ScheduleType, WriteType, RequestTypes
  <2>2. /\ UNCHANGED s2c /\ pending'.type # "addBillboard"
        /\ clientPc' \in {"start", "await"} => clientPc \in {"start", "await"}
        /\ clientPc # "closed"
        /\ PendingFromFields'
    BY <1>2, <1>3, <1>4 DEF RequestTable, DeleteType, UpdateType, ScheduleType, WriteType,
                            PendingFromFields
  <2>3. Utf(t) \in Items /\ Utf(t).tag = "utf" /\ Utf(t).val = t
    BY <2>1, UtfIsItem DEF Utf
  <2>4. \A d \in Deletes' : d \in Deletes
    BY <2>1, <2>3, WriteDeletes
  <2>5. \A n \in DOMAIN c2s' : c2s'[n].tag = "utf" => c2s'[n].val # "addBillboard"
    BY <1>1, <2>1, <2>3, WriteAdds
  <2> QED
    BY <1>4, <2>2, <2>4, <2>5, WindowAlone
<1>5. CASE FinishSchedule
  <2>1. /\ pending.type = "addView" /\ Write(Object(pending)) /\ clientPc = "writeObject"
        /\ clientPc' = "idle" /\ pending' = pending /\ UNCHANGED <<s2c, guiVars>>
    BY <1>5 DEF FinishSchedule, WriteObject
  <2>2. pending \in Requests
    BY <2>1 DEF IndInv, Control
  <2>3. Object(pending) \in Items /\ Object(pending).tag = "Add"
    BY <2>1, <2>2, ObjectIsItem DEF Object, PayloadClass, RequestTypes
  <2>4. \A d \in Deletes' : d \in Deletes
    BY <2>1, <2>3, WriteDeletes
  <2>5. \A n \in DOMAIN c2s' : c2s'[n].tag = "utf" => c2s'[n].val # "addBillboard"
    BY <1>1, <2>1, <2>3, WriteAdds
  <2>6. PendingFromFields'
    BY <2>1 DEF PendingFromFields
  <2> QED
    BY <1>2, <2>1, <2>4, <2>5, <2>6, WindowAlone
<1>6. CASE /\ \/ ConstructorThrows \/ AbortedDelete \/ OtherThrows \/ CloseWindow \/ KillClient
           /\ UNCHANGED guiVars
  <2>1. /\ UNCHANGED <<c2s, s2c, pending>>
        /\ clientPc' \in {"idle", "closed"}
        /\ clientPc = "closed" => clientPc' = "closed"
    BY <1>6 DEF ConstructorThrows, AbortedDelete, AbortDelete, OtherThrows, WriteTypeThrows,
                WriteObjectThrows, CloseWindow, KillClient, wireVars
  <2>2. Deletes' = Deletes
    BY <2>1 DEF Deletes, serverVars
  <2>3. PendingFromFields'
    BY <2>1 DEF PendingFromFields
  <2> QED
    BY <1>1, <1>2, <1>6, <2>1, <2>2, <2>3, WindowAlone
<1> QED
  BY <1>4, <1>5, <1>6 DEF DeleteType, UpdateType, ScheduleType, AbortedDelete, OtherThrows

(***************************************************************************)
(* The selection listener.                                                 *)
(***************************************************************************)
(* What valueChanged leaves behind: the smallest selected row and its id,  *)
(* a number from another column, or what was there before.                 *)
LEMMA Listened ==
    ASSUME GuiTypeOK, NEW S, S \subseteq Nat, NEW table \in Seq(Ids \cup {NaN}),
           ValueChanged(S, table)
    PROVE  /\ billboardID' \in Ids \cup {Null} /\ selectedRow' \in Nat
           /\ picked' \subseteq Ids \cup {NaN} /\ strays' \subseteq Ids /\ misread' \in BOOLEAN
           /\ picked \subseteq picked' /\ strays \subseteq strays'
           /\ billboardID' = billboardID \/ billboardID' \in picked' \cup strays'
           /\ \/ UNCHANGED <<billboardID, selectedRow>>
              \/ strays' # {}
              \/ selectedRow' + 1 \in DOMAIN table /\ table[selectedRow' + 1] = billboardID'
           /\ LET i == SelectedRow(S) IN
              S # {} /\ i + 1 \in DOMAIN table /\ table[i + 1] # NaN /\ ~misread' =>
                  selectedRow' = i /\ billboardID' = table[i + 1]
<1> DEFINE i == SelectedRow(S)
<1>1. CASE ~(S # {} /\ i + 1 \in DOMAIN table)
  <2>1. UNCHANGED <<billboardID, selectedRow, picked, strays, misread>>
    BY <1>1 DEF ValueChanged, listenerVars
  <2>2. misread' \in BOOLEAN
    BY <2>1, Zenon DEF GuiTypeOK
  <2> QED
    BY <1>1, <2>1, <2>2 DEF GuiTypeOK
<1>2. CASE S # {} /\ i + 1 \in DOMAIN table
  <2>1. i \in Nat /\ table[i + 1] \in Ids \cup {NaN}
    <3>1. i \in S
      BY <1>2, SmallestIndex, Zenon
    <3>2. i \in Nat
      BY <3>1, Zenon
    <3>3. table[i + 1] \in Ids \cup {NaN}
      BY <1>2, <3>2
    <3> QED
      BY <3>2, <3>3
  <2>2. misread' = ~idFirst
    BY <1>2 DEF ValueChanged
  <2>3. misread' \in BOOLEAN
    BY <2>2, Zenon
  <2>4. ASSUME NEW id \in FirstCell(i, table) \ {NaN}, Remember(i, id, table[i + 1])
        PROVE  /\ billboardID' = id /\ id \in Ids /\ selectedRow' = i
               /\ picked' = picked \cup {table[i + 1]}
               /\ \/ idFirst /\ id = table[i + 1] /\ strays' = strays
                  \/ ~idFirst /\ strays' = strays \cup {id}
    BY <2>1, <2>4 DEF FirstCell, Remember
  <2>5. CASE \E id \in FirstCell(i, table) \ {NaN} : Remember(i, id, table[i + 1])
    BY <1>2, <2>1, <2>2, <2>3, <2>4, <2>5 DEF GuiTypeOK
  <2>6. CASE NaN \in FirstCell(i, table) /\ UNCHANGED <<billboardID, selectedRow, picked, strays>>
    <3>1. idFirst => table[i + 1] = NaN
      BY <2>6 DEF FirstCell
    <3> QED
      BY <1>2, <2>2, <2>3, <2>6, <3>1 DEF GuiTypeOK
  <2> QED
    BY <1>2, <2>5, <2>6 DEF ValueChanged
<1> QED
  BY <1>1, <1>2

LEMMA SelectWindow ==
    ASSUME IndInv, WindowInv, UNCHANGED <<serverVars, session>>,
           NEW S \in Selections, SelectRows(S)
    PROVE  WindowInv'
<1>1. /\ UNCHANGED <<c2s, s2c, clientPc, pending, view, requestType, serverPc, request>>
      /\ UNCHANGED <<rows, idFirst, rowToEdit, editID, idEditable, editFresh, overwritten>>
      /\ clientPc = "idle" /\ selection' = S /\ ValueChanged(S, rows)
  BY DEF SelectRows, serverVars, dbVars, wireVars, clientVars
<1>2. rows \in Seq(Ids \cup {NaN}) /\ S \subseteq Nat
  BY DEF WindowInv, GuiTypeOK, Selections
<1>3. IsFiniteSet(S)
  <2>1. IsFiniteSet(0 .. Len(rows) - 1)
    BY <1>2, FS_Interval
  <2>2. IsFiniteSet((0 .. Len(rows) - 1) \cup selection)
    BY <2>1, FS_Union DEF WindowInv
  <2> QED
    BY <2>2, FS_Subset DEF Selections
<1>4. Deletes' = Deletes /\ ShownIds' = ShownIds
  BY <1>1 DEF Deletes, ShownIds
<1> DEFINE Told ==
      /\ billboardID' = billboardID \/ billboardID' \in picked' \cup strays'
      /\ \/ UNCHANGED <<billboardID, selectedRow>>
         \/ strays' # {}
         \/ selectedRow' + 1 \in DOMAIN rows /\ rows[selectedRow' + 1] = billboardID'
      /\ LET i == SelectedRow(S) IN
         S # {} /\ i + 1 \in DOMAIN rows /\ rows[i + 1] # NaN /\ ~misread' =>
             selectedRow' = i /\ billboardID' = rows[i + 1]
<1>5. /\ billboardID' \in Ids \cup {Null} /\ selectedRow' \in Nat
      /\ picked' \subseteq Ids \cup {NaN} /\ strays' \subseteq Ids /\ misread' \in BOOLEAN
      /\ picked \subseteq picked' /\ strays \subseteq strays'
      /\ Told
  BY <1>1, <1>2, Listened, Zenon DEF WindowInv
<1>6. GuiTypeOK'
  BY <1>1, <1>2, <1>5, Zenon DEF WindowInv, GuiTypeOK
<1>7. NoAdds' /\ NothingShown' /\ PendingFromFields' /\ RowsOwnIds' /\ EditLoaded'
  BY <1>1 DEF WindowInv, NoAdds, NothingShown, PendingFromFields, RowsOwnIds, EditLoaded,
              IsRow, RowId
<1>8. DeletedNotShown'
  BY <1>1, <1>2, <1>4, <1>5 DEF WindowInv, DeletedNotShown, IsRow, RowId
<1>9. ShownRowsExist'
  BY <1>1, <1>5 DEF WindowInv, ShownRowsExist, RowId
<1>10. DeletesPicked'
  BY <1>4, <1>5 DEF WindowInv, DeletesPicked
<1>11. HighlightIsTarget'
  <2> SUFFICES ASSUME ~overwritten', ~misread', S # {}, SelectedRow(S) \in 0 .. Len(rows) - 1
               PROVE  selectedRow' = SelectedRow(S) /\ billboardID' = rows[SelectedRow(S) + 1]
    BY <1>1 DEF HighlightIsTarget, IsRow, RowId
  <2>1. SelectedRow(S) + 1 \in DOMAIN rows
    BY <1>2
  <2>2. rows[SelectedRow(S) + 1] # NaN
    BY <1>1, <2>1 DEF WindowInv, RowsOwnIds
  <2> QED
    BY <1>5, <2>1, <2>2
<1> QED
  BY <1>1, <1>3, <1>6, <1>7, <1>8, <1>9, <1>10, <1>11 DEF WindowInv

(***************************************************************************)
(* The steps that change the rows.                                         *)
(***************************************************************************)
LEMMA FillWindow ==
    ASSUME IndInv, WindowInv, UNCHANGED <<serverVars, session>>, FillTable
    PROVE  WindowInv'
<1> DEFINE keys == DOMAIN Head(s2c)
<1>1. /\ UNCHANGED <<c2s, pending, view, requestType, serverPc, request>>
      /\ UNCHANGED <<selection, idFirst, rowToEdit, editID, idEditable, editFresh, overwritten>>
      /\ UNCHANGED <<billboardID, selectedRow, picked, strays, misread>>
      /\ clientPc = "await" /\ clientPc' = "idle" /\ s2c # <<>> /\ s2c' = Tail(s2c)
  BY DEF FillTable, ReadTable, serverVars, dbVars, fieldVars, listenerVars
<1>2. PICK ids \in [1 .. Cardinality(keys) -> keys] :
          /\ \A i, j \in DOMAIN ids : i < j => ids[i] < ids[j]
          /\ rows' = ids
  BY DEF FillTable
<1>3. /\ Head(s2c) = s2c[1] /\ 1 \in DOMAIN s2c
      /\ \A n \in DOMAIN s2c' : n + 1 \in DOMAIN s2c /\ s2c'[n] = s2c[n + 1]
  BY <1>1 DEF IndInv, TypeOK
<1>4. keys \subseteq DOMAIN view /\ keys \subseteq InitView /\ billboardID = Null /\ selection = {}
      /\ ~editFresh
  BY <1>1, <1>3 DEF WindowInv, NothingShown, NoAdds
<1>5. Cardinality(keys) \in Nat
  <2>1. IsFiniteSet(0 .. FirstKey - 1)
    BY TableAssumption, FS_Interval DEF TableAssumption
  <2>2. keys \subseteq 0 .. FirstKey - 1
    BY <1>4, TableAssumption DEF TableAssumption
  <2> QED
    BY <2>1, <2>2, FS_Subset, FS_CardinalityType
<1>6. /\ rows' \in Seq(keys) /\ DOMAIN rows' = 1 .. Len(rows')
      /\ \A i \in DOMAIN rows' : rows'[i] \in keys
  BY <1>2, <1>5
<1>7. \A i, j \in DOMAIN rows' : rows'[i] = rows'[j] => i = j
  <2> SUFFICES ASSUME NEW i \in DOMAIN rows', NEW j \in DOMAIN rows', i # j
               PROVE  rows'[i] # rows'[j]
    OBVIOUS
  <2>1. i \in Nat /\ j \in Nat /\ (i < j \/ j < i)
    BY <1>6
  <2>2. rows'[i] \in Nat /\ rows'[j] \in Nat
    BY <1>4, <1>6
  <2>3. rows'[i] < rows'[j] \/ rows'[j] < rows'[i]
    BY <1>2, <2>1
  <2> QED
    BY <2>2, <2>3
<1>8. Deletes' = {}
  <2>1. requestType = "showTable" /\ \A n \in DOMAIN c2s : c2s[n] = Utf("showTable")
    BY <1>1 DEF IndInv, StartUp, TypeOK
  <2>2. Utf("showTable").tag = "utf"
    BY DEF Utf
  <2> QED
    BY <1>1, <2>1, <2>2 DEF Deletes
<1>9. ShownIds' \subseteq keys
  BY <1>6 DEF ShownIds
<1>10. GuiTypeOK'
  <2>1. rows' \in Seq(Ids \cup {NaN})
    BY <1>4, <1>6
  <2> QED
    BY <1>1, <2>1, Zenon DEF WindowInv, GuiTypeOK
<1>11. NoAdds' /\ NothingShown' /\ PendingFromFields' /\ EditLoaded'
  BY <1>1, <1>3, <1>4 DEF WindowInv, NoAdds, NothingShown, PendingFromFields, EditLoaded
<1>12. RowsOwnIds'
  BY <1>4, <1>6, <1>7 DEF RowsOwnIds
<1>13. DeletedNotShown' /\ DeletesPicked'
  BY <1>1, <1>4, <1>8, <1>9 DEF DeletedNotShown, DeletesPicked
<1>14. ShownRowsExist'
  BY <1>1, <1>4, <1>6 DEF ShownRowsExist, RowId
<1>15. HighlightIsTarget' /\ IsFiniteSet(selection)'
  BY <1>1, <1>4, FS_EmptySet DEF HighlightIsTarget
<1> QED
  BY <1>10, <1>11, <1>12, <1>13, <1>14, <1>15 DEF WindowInv

LEMMA FieldsWindow ==
    ASSUME IndInv, WindowInv, UNCHANGED <<serverVars, session>>,
           \/ \E i \in 0 .. Len(rows) - 1, id \in CellIds : EditCell(i, id)
           \/ DragColumn \/ PressEdit
           \/ \E id \in TypedIds \cup {NaN} : TypeEditID(id)
    PROVE  WindowInv'
<1>1. /\ UNCHANGED <<c2s, s2c, clientPc, pending, view, requestType, serverPc, request>>
      /\ UNCHANGED <<selection, billboardID, selectedRow, picked, strays, misread>>
      /\ clientPc = "idle"
  BY DEF EditCell, DragColumn, PressEdit, TypeEditID, serverVars, dbVars, wireVars, clientVars,
         fieldVars, listenerVars
<1>2. Deletes' = Deletes
  BY <1>1 DEF Deletes
<1>3. NoAdds' /\ NothingShown' /\ PendingFromFields' /\ DeletesPicked' /\ IsFiniteSet(selection)'
  BY <1>1, <1>2 DEF WindowInv, NoAdds, NothingShown, PendingFromFields, DeletesPicked
<1>4. CASE \E i \in 0 .. Len(rows) - 1, id \in CellIds : EditCell(i, id)
  <2>1. PICK i \in 0 .. Len(rows) - 1, id \in CellIds : EditCell(i, id)
    BY <1>4
  <2>2. /\ overwritten' = TRUE /\ editFresh' = FALSE /\ rows' = [rows EXCEPT ![i + 1] = id]
        /\ UNCHANGED <<idFirst, rowToEdit, editID, idEditable>>
    BY <2>1 DEF EditCell, fieldVars
  <2>3. rows' \in Seq(Ids \cup {NaN})
    BY <2>2 DEF WindowInv, GuiTypeOK
  <2>4. GuiTypeOK'
    BY <1>1, <2>2, <2>3, Zenon DEF WindowInv, GuiTypeOK
  <2> QED
    BY <1>3, <2>2, <2>4 DEF WindowInv, RowsOwnIds, DeletedNotShown, ShownRowsExist, EditLoaded,
                            HighlightIsTarget
<1>5. CASE UNCHANGED <<rows, overwritten>>
  <2>1. ShownIds' = ShownIds
    BY <1>5 DEF ShownIds
  <2>2. RowsOwnIds' /\ DeletedNotShown' /\ ShownRowsExist'
    BY <1>1, <1>2, <1>5, <2>1 DEF WindowInv, RowsOwnIds, DeletedNotShown, ShownRowsExist,
                                  IsRow, RowId
  <2>3. HighlightIsTarget'
    BY <1>1, <1>5, Zenon DEF WindowInv, HighlightIsTarget, IsRow, RowId
  <2>4. CASE DragColumn
    <3>1. idFirst' = ~idFirst /\ UNCHANGED <<rowToEdit, editID, idEditable, editFresh>>
      BY <2>4 DEF DragColumn, fieldVars
    <3>2. GuiTypeOK'
      BY <1>1, <1>5, <3>1, Zenon DEF WindowInv, GuiTypeOK
    <3>3. EditLoaded'
      BY <1>5, <3>1, Zenon DEF WindowInv, EditLoaded, IsRow, RowId
    <3> QED
      BY <1>3, <2>2, <2>3, <3>2, <3>3 DEF WindowInv
  <2>5. CASE PressEdit
    <3>1. /\ IsRow(selectedRow) /\ editID' = RowId(selectedRow) /\ idEditable' = FALSE
          /\ rowToEdit' = selectedRow /\ editFresh' = TRUE /\ UNCHANGED idFirst
      BY <2>5 DEF PressEdit
    <3>2. editID' \in Ids \cup {NaN} /\ rowToEdit' \in Nat \cup {-1}
      BY <3>1 DEF WindowInv, GuiTypeOK, IsRow, RowId
    <3>3. GuiTypeOK'
      BY <1>1, <1>5, <3>1, <3>2, Zenon DEF WindowInv, GuiTypeOK
    <3>4. EditLoaded'
      BY <1>5, <3>1 DEF EditLoaded, RowId
    <3> QED
      BY <1>3, <2>2, <2>3, <3>3, <3>4 DEF WindowInv
  <2>6. CASE \E id \in TypedIds \cup {NaN} : TypeEditID(id)
    <3>1. /\ idEditable /\ editID' \in Ids \cup {NaN}
          /\ UNCHANGED <<idFirst, rowToEdit, idEditable, editFresh>>
      BY <2>6 DEF TypeEditID
    <3>2. GuiTypeOK'
      BY <1>1, <1>5, <3>1, Zenon DEF WindowInv, GuiTypeOK
    <3>3. EditLoaded'
      BY <3>1 DEF WindowInv, EditLoaded
    <3> QED
      BY <1>3, <2>2, <2>3, <3>2, <3>3 DEF WindowInv
  <2>7. CASE \E i \in 0 .. Len(rows) - 1, id \in CellIds : EditCell(i, id)
    BY <1>4, <2>7
  <2> QED
    BY <2>4, <2>5, <2>6, <2>7
<1> QED
  BY <1>4, <1>5 DEF DragColumn, PressEdit, TypeEditID

LEMMA UpdateWindow ==
    ASSUME IndInv, WindowInv, UNCHANGED <<serverVars, session>>, FinishUpdate \/ UpdateThrows
    PROVE  WindowInv'
<1>1. /\ UNCHANGED <<s2c, pending, view, requestType, serverPc, request>>
      /\ UNCHANGED <<selection, idFirst, billboardID, selectedRow, idEditable, editFresh>>
      /\ UNCHANGED <<picked, strays, misread>>
      /\ clientPc \in {"idle", "writeObject"} /\ clientPc' = "idle"
  BY DEF FinishUpdate, UpdateThrows, WriteObject, WriteTypeThrows, WriteObjectThrows, wireVars,
         serverVars, dbVars, listenerVars
<1>2. /\ \A n \in DOMAIN c2s' : c2s'[n].tag = "utf" => c2s'[n].val # "addBillboard"
      /\ \A d \in Deletes' : d \in Deletes
  <2>1. CASE FinishUpdate
    <3>1. pending.type = "editTable" /\ Write(Object(pending)) /\ clientPc = "writeObject"
      BY <2>1 DEF FinishUpdate, WriteObject
    <3>2. pending \in Requests
      BY <3>1 DEF IndInv, Control
    <3>3. Object(pending) \in Items /\ Object(pending).tag = "Edit"
      BY <3>1, <3>2, ObjectIsItem DEF Object, PayloadClass, RequestTypes
    <3>4. \A d \in Deletes' : d \in Deletes
      BY <3>1, <3>3, WriteDeletes
    <3>5. \A n \in DOMAIN c2s' : c2s'[n].tag = "utf" => c2s'[n].val # "addBillboard"
      BY <3>1, <3>3, WriteAdds DEF WindowInv, NoAdds
    <3> QED
      BY <3>4, <3>5
  <2>2. CASE UpdateThrows
    <3>1. UNCHANGED c2s
      BY <2>2 DEF UpdateThrows, WriteTypeThrows, WriteObjectThrows, wireVars
    <3> QED
      BY <1>1, <3>1 DEF Deletes, WindowInv, NoAdds
  <2> QED
    BY <2>1, <2>2
<1>3. NoAdds' /\ NothingShown' /\ PendingFromFields' /\ DeletesPicked' /\ IsFiniteSet(selection)'
  BY <1>1, <1>2 DEF WindowInv, NoAdds, NothingShown, PendingFromFields, DeletesPicked
<1>4. CASE UNCHANGED <<rows, overwritten, rowToEdit>> /\ editID' \in {editID, NaN}
  <2>1. ShownIds' = ShownIds
    BY <1>4 DEF ShownIds
  <2>2. RowsOwnIds' /\ DeletedNotShown' /\ ShownRowsExist'
    BY <1>1, <1>2, <1>4, <2>1 DEF WindowInv, RowsOwnIds, DeletedNotShown, ShownRowsExist,
                                  IsRow, RowId
  <2>3. HighlightIsTarget'
    BY <1>1, <1>4, Zenon DEF WindowInv, HighlightIsTarget, IsRow, RowId
  <2>4. GuiTypeOK'
    BY <1>1, <1>4, Zenon DEF WindowInv, GuiTypeOK
  <2>5. EditLoaded'
    BY <1>1, <1>4 DEF WindowInv, EditLoaded, IsRow, RowId
  <2> QED
    BY <1>3, <2>2, <2>3, <2>4, <2>5 DEF WindowInv
<1>5. CASE /\ pending.type = "editTable" /\ clientPc = "writeObject"
           /\ IsRow(rowToEdit)
           /\ overwritten' = (overwritten \/ RowId(rowToEdit) # pending.id)
           /\ rows' = [rows EXCEPT ![rowToEdit + 1] = pending.id]
           /\ rowToEdit' = -1
           /\ editID' = NaN
  <2>1. pending.id \in Ids
    BY <1>5 DEF WindowInv, PendingFromFields, GuiTypeOK
  <2>2. rows \in Seq(Ids \cup {NaN}) /\ rowToEdit + 1 \in DOMAIN rows
    BY <1>5 DEF WindowInv, GuiTypeOK, IsRow
  <2>3. rows' \in Seq(Ids \cup {NaN})
    BY <1>5, <2>1, <2>2
  <2>4. overwritten' \in BOOLEAN
    BY <1>5, Zenon
  <2>5. rowToEdit' \in Nat \cup {-1}
    BY <1>5
  <2>6. GuiTypeOK'
    BY <1>1, <1>5, <2>3, <2>4, <2>5, Zenon DEF WindowInv, GuiTypeOK
  <2>7. EditLoaded'
    BY <1>1, <1>5 DEF WindowInv, EditLoaded
  <2>8. CASE overwritten'
    BY <1>3, <2>6, <2>7, <2>8 DEF WindowInv, RowsOwnIds, DeletedNotShown, ShownRowsExist,
                                  HighlightIsTarget
  <2>9. CASE ~overwritten'
    <3>1. ~overwritten /\ rows[rowToEdit + 1] = pending.id
      BY <1>5, <2>9 DEF RowId
    <3>2. rows' = rows
      BY <1>5, <2>2, <3>1
    <3>3. ShownIds' = ShownIds
      BY <3>2 DEF ShownIds
    <3>4. RowsOwnIds' /\ DeletedNotShown' /\ ShownRowsExist'
      BY <1>1, <1>2, <3>1, <3>2, <3>3 DEF WindowInv, RowsOwnIds, DeletedNotShown,
                                          ShownRowsExist, IsRow, RowId
    <3>5. HighlightIsTarget'
      BY <1>1, <3>1, <3>2, Zenon DEF WindowInv, HighlightIsTarget, IsRow, RowId
    <3> QED
      BY <1>3, <2>6, <2>7, <3>4, <3>5 DEF WindowInv
  <2> QED
    BY <2>8, <2>9
<1> QED
  BY <1>4, <1>5 DEF FinishUpdate, UpdateThrows, WriteObject

LEMMA NewWindow ==
    ASSUME WindowInv, WindowNewSession
    PROVE  WindowInv'
<1> USE DEF WindowNewSession, NewSession
<1>1. GuiTypeOK'
  <2>1. rows' \in Seq(Ids \cup {NaN}) /\ selectedRow' \in Nat /\ rowToEdit' \in Nat \cup {-1}
    OBVIOUS
  <2> QED
    BY <2>1, Zenon DEF GuiTypeOK
<1>2. IsFiniteSet(selection)'
  BY FS_EmptySet
<1>3. DOMAIN c2s' = {} /\ DOMAIN s2c' = {} /\ DOMAIN rows' = {} /\ Len(rows') = 0
  OBVIOUS
<1>4. Deletes' = {} /\ ShownIds' = {}
  BY <1>3 DEF Deletes, ShownIds
<1>5. pending'.type = "showTable" /\ view' = view
  BY DEF ShowRequest, dbVars
<1>6. NoAdds'
  BY <1>3, <1>5 DEF WindowInv, NoAdds
<1>7. NothingShown' /\ PendingFromFields' /\ RowsOwnIds' /\ EditLoaded'
  BY <1>3 DEF NothingShown, PendingFromFields, RowsOwnIds, EditLoaded
<1>8. DeletedNotShown' /\ DeletesPicked'
  BY <1>4 DEF DeletedNotShown, DeletesPicked
<1>9. ShownRowsExist' /\ HighlightIsTarget'
  BY <1>3 DEF ShownRowsExist, HighlightIsTarget
<1> QED
  BY <1>1, <1>2, <1>6, <1>7, <1>8, <1>9 DEF WindowInv

(* The selection JTable keeps after row r is removed: the rows below move  *)
(* up, r itself is no longer selected.                                     *)
Moved(S, r) == {i \in S : i < r} \cup {i - 1 : i \in {j \in S : j > r}}

(* It is as finite as before and, when r was the first, never the same. *)
LEMMA SelectionMoves ==
    ASSUME NEW S, S \subseteq Nat, IsFiniteSet(S), NEW r \in Nat
    PROVE  /\ Moved(S, r) \subseteq Nat
           /\ IsFiniteSet(Moved(S, r))
           /\ r \in S /\ (\A j \in S : r <= j) => Moved(S, r) # S
<1> DEFINE lower == {i \in S : i < r}
           higher == {j \in S : j > r}
           shifted == {i - 1 : i \in higher}
           shift == [i \in higher |-> i - 1]
<1>1. Moved(S, r) \subseteq Nat
  <2> SUFFICES ASSUME NEW k \in Moved(S, r) PROVE k \in Nat
    OBVIOUS
  <2>1. CASE k \in S
    BY <2>1
  <2>2. CASE \E i \in S : i > r /\ k = i - 1
    BY <2>2
  <2> QED
    BY <2>1, <2>2 DEF Moved
<1>2. IsFiniteSet(lower) /\ IsFiniteSet(higher)
  BY FS_Subset
<1>3. shift \in Surjection(higher, shifted)
  BY DEF Surjection
<1>4. IsFiniteSet(shifted) /\ Cardinality(shifted) <= Cardinality(higher)
  BY <1>2, <1>3, FS_Surjection
<1>5. IsFiniteSet(Moved(S, r))
  <2> HIDE DEF lower, shifted
  <2>1. IsFiniteSet(lower \cup shifted)
    BY <1>2, <1>4, FS_Union
  <2> QED
    BY <2>1 DEF Moved, lower, shifted
<1>6. ASSUME r \in S, \A j \in S : r <= j
      PROVE  Moved(S, r) # S
  <2>1. lower = {} /\ higher = S \ {r}
    <3>1. \A j \in S : j \in Nat /\ r <= j
      BY <1>6
    <3>2. \A j \in S : ~(j < r) /\ (j > r <=> j # r)
      BY <3>1
    <3> QED
      BY <3>2
  <2>2. Moved(S, r) = shifted
    BY <2>1 DEF Moved
  <2>3. Cardinality(higher) = Cardinality(S) - 1 /\ Cardinality(S) \in Nat
    BY <1>6, <2>1, FS_RemoveElement, FS_CardinalityType
  <2>4. Cardinality(shifted) \in Nat
    BY <1>4, FS_CardinalityType
  <2> HIDE DEF higher, shifted
  <2>5. Cardinality(shifted) # Cardinality(S)
    <3> DEFINE a == Cardinality(shifted)
               b == Cardinality(higher)
               c == Cardinality(S)
    <3>1. a \in Nat /\ c \in Nat /\ b = c - 1 /\ a <= b
      BY <1>4, <2>3, <2>4
    <3> HIDE DEF a, b, c
    <3>2. a # c
      BY <3>1
    <3> QED
      BY <3>2 DEF a, c
  <2> QED
    BY <2>2, <2>5
<1> QED
  BY <1>1, <1>5, <1>6

(* The window's row is removed, the delete of its id is under way. *)
LEMMA RemoveWindow ==
    ASSUME IndInv, WindowInv, IsRow(selectedRow), RemoveRow(selectedRow),
           UNCHANGED <<view, requestType, pending, s2c>>,
           UNCHANGED <<idFirst, rowToEdit, editID, idEditable, overwritten>>,
           clientPc = "writeObject", clientPc' = "idle", billboardID # Null,
           \A n \in DOMAIN c2s' : c2s'[n].tag = "utf" => c2s'[n].val # "addBillboard",
           \A d \in Deletes' : d \in Deletes \/ d = billboardID
    PROVE  WindowInv'
<1> DEFINE r == selectedRow
           left == RemoveAt(rows, r + 1)
           moved == Moved(selection, r)
<1>1. rows \in Seq(Ids \cup {NaN}) /\ r \in Nat /\ r + 1 \in 1 .. Len(rows)
      /\ selection \subseteq Nat /\ IsFiniteSet(selection)
  BY DEF WindowInv, GuiTypeOK, IsRow
<1>2. /\ left \in Seq(Ids \cup {NaN}) /\ Len(left) = Len(rows) - 1
      /\ \A j \in 1 .. Len(rows) - 1 :
             left[j] = IF j < r + 1 THEN rows[j] ELSE rows[j + 1]
  BY <1>1, RowTakenOut
<1>3. /\ rows' = left /\ editFresh' = FALSE
      /\ \/ /\ r + 1 \in DOMAIN left /\ left[r + 1] # NaN
            /\ selection' = moved
            /\ \/ ValueChanged(moved, left)
               \/ moved = selection /\ UNCHANGED <<billboardID, selectedRow, listenerVars>>
         \/ /\ ~(r + 1 \in DOMAIN left /\ left[r + 1] # NaN)
            /\ UNCHANGED <<selection, billboardID, selectedRow, listenerVars>>
  BY DEF RemoveRow, Moved
<1>4. /\ moved \subseteq Nat /\ IsFiniteSet(moved)
      /\ r \in selection /\ (\A j \in selection : r <= j) => moved # selection
  BY <1>1, SelectionMoves
<1> HIDE DEF left, moved
<1>5. selection' \subseteq Nat /\ IsFiniteSet(selection')
  BY <1>1, <1>3, <1>4
(* The listener was told, or all is as before. *)
<1>6. /\ billboardID' \in Ids \cup {Null} /\ selectedRow' \in Nat
      /\ picked' \subseteq Ids \cup {NaN} /\ strays' \subseteq Ids /\ misread' \in BOOLEAN
      /\ picked \subseteq picked' /\ strays \subseteq strays'
      /\ billboardID' = billboardID \/ billboardID' \in picked' \cup strays'
      /\ \/ UNCHANGED <<billboardID, selectedRow>>
         \/ strays' # {}
         \/ selectedRow' + 1 \in DOMAIN left /\ left[selectedRow' + 1] = billboardID'
  <2>1. CASE ValueChanged(moved, left)
    BY <1>2, <1>4, <2>1, Listened, Zenon DEF WindowInv
  <2>2. CASE UNCHANGED <<billboardID, selectedRow, listenerVars>>
    <3>1. UNCHANGED <<billboardID, selectedRow, picked, strays, misread>>
      BY <2>2 DEF listenerVars
    <3> QED
      BY <3>1, Zenon DEF WindowInv, GuiTypeOK
  <2> QED
    BY <1>3, <2>1, <2>2
<1>7. GuiTypeOK'
  BY <1>2, <1>3, <1>5, <1>6, Zenon DEF WindowInv, GuiTypeOK
<1>8. NoAdds' /\ NothingShown' /\ PendingFromFields' /\ EditLoaded'
  BY <1>3 DEF WindowInv, NoAdds, NothingShown, PendingFromFields, EditLoaded
<1>9. ASSUME NEW j \in DOMAIN left
      PROVE  /\ j \in DOMAIN rows /\ j + 1 \in DOMAIN rows
             /\ \/ j # r + 1 /\ left[j] = rows[j]
                \/ j + 1 # r + 1 /\ left[j] = rows[j + 1]
  <2>1. j \in 1 .. Len(rows) - 1
    BY <1>1, <1>2
  <2>2. j \in DOMAIN rows /\ j + 1 \in DOMAIN rows
    BY <1>1, <2>1
  <2>3. CASE j < r + 1
    BY <1>1, <1>2, <2>1, <2>2, <2>3
  <2>4. CASE ~(j < r + 1)
    BY <1>1, <1>2, <2>1, <2>2, <2>4
  <2> QED
    BY <2>2, <2>3, <2>4
<1>10. RowsOwnIds'
  <2> SUFFICES ASSUME ~overwritten
               PROVE  /\ \A j \in DOMAIN left : left[j] # NaN
                      /\ \A j, k \in DOMAIN left : left[j] = left[k] => j = k
    BY <1>3 DEF RowsOwnIds
  <2>1. /\ \A j \in DOMAIN rows : rows[j] # NaN
        /\ \A j, k \in DOMAIN rows : rows[j] = rows[k] => j = k
    BY DEF WindowInv, RowsOwnIds
  <2>2. ASSUME NEW j \in DOMAIN left, NEW k \in DOMAIN left, left[j] = left[k]
        PROVE  j = k
    <3> DEFINE at(n) == IF n < r + 1 THEN n ELSE n + 1
    <3>1. j \in 1 .. Len(rows) - 1 /\ k \in 1 .. Len(rows) - 1
      BY <1>1, <1>2
    <3>2. at(j) \in DOMAIN rows /\ at(k) \in DOMAIN rows
      BY <1>1, <3>1
    <3>3. left[j] = rows[at(j)] /\ left[k] = rows[at(k)]
      BY <1>2, <3>1
    <3>4. at(j) = at(k)
      BY <2>1, <2>2, <3>2, <3>3
    <3> QED
      BY <1>1, <3>1, <3>4
  <2> QED
    BY <1>9, <2>1, <2>2
<1>11. ShownIds' \subseteq ShownIds
  BY <1>3, <1>9 DEF ShownIds
<1>12. ~overwritten /\ strays = {} => billboardID \notin ShownIds'
  <2> SUFFICES ASSUME ~overwritten, strays = {}, NEW j \in DOMAIN left, left[j] = billboardID
               PROVE  FALSE
    BY <1>3 DEF ShownIds
  <2>1. PICK k \in DOMAIN rows : rows[k] = billboardID /\ k # r + 1
    BY <1>9
  <2>2. rows[r + 1] = billboardID
    BY <2>1 DEF WindowInv, DeletedNotShown, ShownIds, RowId
  <2> QED
    BY <1>1, <2>1, <2>2 DEF WindowInv, RowsOwnIds
<1>13. DeletedNotShown'
  <2> SUFFICES ASSUME ~overwritten, strays' = {}
               PROVE  /\ billboardID' \in ShownIds' => IsRow(selectedRow)' /\ RowId(selectedRow)' = billboardID'
                      /\ Deletes' \cap ShownIds' = {}
    BY DEF DeletedNotShown
  <2>1. strays = {}
    BY <1>6
  <2>2. Deletes' \cap ShownIds' = {}
    BY <1>11, <1>12, <2>1 DEF WindowInv, DeletedNotShown
  <2>3. billboardID' \in ShownIds' =>
            selectedRow' + 1 \in DOMAIN left /\ left[selectedRow' + 1] = billboardID'
    BY <1>6, <1>12, <2>1
  <2> QED
    BY <1>2, <1>3, <1>6, <2>2, <2>3 DEF IsRow, RowId
<1>14. ShownRowsExist'
  <2> SUFFICES ASSUME ~overwritten, strays' = {}, NEW i \in 0 .. Len(left) - 1
               PROVE  left[i + 1] \in DOMAIN view
    BY <1>3 DEF ShownRowsExist, RowId
  <2>1. strays = {}
    BY <1>6
  <2>2. i + 1 \in DOMAIN left
    BY <1>2
  <2>3. PICK k \in DOMAIN rows : rows[k] = left[i + 1]
    BY <1>9, <2>2
  <2>4. k - 1 \in 0 .. Len(rows) - 1 /\ (k - 1) + 1 = k
    BY <1>1
  <2> QED
    BY <2>1, <2>3, <2>4 DEF WindowInv, ShownRowsExist, RowId
<1>15. DeletesPicked'
  BY <1>6 DEF WindowInv, DeletesPicked
<1>16. HighlightIsTarget'
  <2> DEFINE m == SelectedRow(selection')
  <2> SUFFICES ASSUME ~overwritten, ~misread', selection' # {}, m \in 0 .. Len(left) - 1
               PROVE  selectedRow' = m /\ billboardID' = left[m + 1]
    BY <1>3 DEF HighlightIsTarget, IsRow, RowId
  <2>1. m \in Nat /\ m + 1 \in DOMAIN left /\ left[m + 1] # NaN
    BY <1>2, <1>3, <1>10 DEF RowsOwnIds
  <2>2. CASE selection' = moved /\ ValueChanged(moved, left)
    BY <1>2, <1>4, <2>1, <2>2, Listened DEF WindowInv
  <2>3. CASE selection' = selection /\ UNCHANGED listenerVars
    <3>1. ~misread
      BY <2>3 DEF listenerVars
    <3>2. m \in 0 .. Len(rows) - 1
      BY <1>2
    <3>3. selectedRow = m
      BY <2>3, <3>1, <3>2 DEF WindowInv, HighlightIsTarget, IsRow
    <3>4. r \in selection /\ \A j \in selection : r <= j
      BY <1>1, <2>3, <3>3, SmallestIndex
    <3>5. r + 1 \in DOMAIN left /\ left[r + 1] # NaN
      BY <2>1, <3>3
    <3> QED
      BY <1>3, <1>4, <2>2, <3>4, <3>5
  <2> QED
    BY <1>3, <2>2, <2>3
<1> QED
  BY <1>5, <1>7, <1>8, <1>10, <1>13, <1>14, <1>15, <1>16 DEF WindowInv

LEMMA DeleteWindow ==
    ASSUME IndInv, WindowInv, UNCHANGED <<serverVars, session>>, FinishDelete
    PROVE  WindowInv'
<1>1. /\ pending.type = "delete" /\ pending.id # Null /\ Write(Object(pending))
      /\ clientPc = "writeObject" /\ clientPc' = "idle"
      /\ UNCHANGED <<s2c, pending, view, requestType, serverPc, request>>
      /\ UNCHANGED <<idFirst, rowToEdit, editID, idEditable, overwritten>>
  BY DEF FinishDelete, WriteObject, serverVars, dbVars
<1>2. pending \in Requests /\ pending.id = billboardID
  BY <1>1 DEF IndInv, Control, WindowInv, PendingFromFields
<1>3. Object(pending) \in Items /\ Object(pending).tag # "utf" /\ Object(pending).val = pending
  BY <1>1, <1>2, ObjectIsItem DEF Object, PayloadClass, RequestTypes
<1>4. \A n \in DOMAIN c2s' : c2s'[n].tag = "utf" => c2s'[n].val # "addBillboard"
  BY <1>1, <1>3, WriteAdds DEF WindowInv, NoAdds
<1>5. \A d \in Deletes' : d \in Deletes \/ d = billboardID
  BY <1>1, <1>2, <1>3, WriteDeletes
<1>6. CASE IsRow(selectedRow) /\ RemoveRow(selectedRow)
  BY <1>1, <1>2, <1>4, <1>5, <1>6, RemoveWindow
<1>7. CASE /\ ~IsRow(selectedRow)
           /\ UNCHANGED <<rows, selection, billboardID, selectedRow, listenerVars, editFresh>>
  <2>1. UNCHANGED guiVars
    BY <1>1, <1>7 DEF guiVars, fieldVars, listenerVars
  <2>2. UNCHANGED <<rows, selection, editFresh, overwritten, billboardID, selectedRow, picked, strays>>
    BY <1>1, <1>7 DEF listenerVars
  <2>3. /\ GuiTypeOK' /\ IsFiniteSet(selection)' /\ RowsOwnIds' /\ EditLoaded'
        /\ HighlightIsTarget' /\ ShownIds' = ShownIds
    BY <2>1, WindowStays
  <2>4. NoAdds' /\ NothingShown' /\ PendingFromFields'
    BY <1>1, <1>4 DEF WindowInv, NoAdds, NothingShown, PendingFromFields
  <2>5. ~overwritten /\ strays = {} => billboardID \notin ShownIds
    BY <1>7 DEF WindowInv, DeletedNotShown
  <2>6. DeletedNotShown'
    BY <1>1, <1>5, <2>2, <2>3, <2>5 DEF WindowInv, DeletedNotShown
  <2>7. DeletesPicked'
    BY <1>1, <1>2, <1>5, <2>2 DEF WindowInv, DeletesPicked
  <2>8. ShownRowsExist'
    BY <1>1, <2>2 DEF WindowInv, ShownRowsExist, RowId
  <2> QED
    BY <2>3, <2>4, <2>6, <2>7, <2>8 DEF WindowInv
<1> QED
  BY <1>6, <1>7 DEF FinishDelete

LEMMA WindowInvStep ==
    ASSUME IndInv, WindowInv, [WindowNext]_windowVars
    PROVE  WindowInv'
<1>1. CASE ServerNext /\ UNCHANGED <<clientVars, guiVars, session>>
  BY <1>1, ServerWindow
<1>2. CASE GuiStep /\ UNCHANGED <<serverVars, session>>
  BY <1>2, QuietWindow, FillWindow, DeleteWindow, UpdateWindow DEF GuiStep
<1>3. CASE GuiUser /\ UNCHANGED <<serverVars, session>>
  BY <1>3, QuietWindow, SelectWindow, FieldsWindow DEF GuiUser
<1>4. CASE WindowNewSession
  BY <1>4, NewWindow
<1>5. CASE UNCHANGED windowVars
  <2>1. /\ UNCHANGED <<guiVars, serverVars, s2c>>
        /\ UNCHANGED <<c2s, clientPc, pending, serverPc, requestType, request, billboardID, editID>>
    BY <1>5 DEF windowVars, vars, wireVars, serverVars, clientVars, guiVars, fieldVars
  <2>2. Deletes' = Deletes
    BY <2>1 DEF Deletes
  <2>3. PendingFromFields'
    BY <2>1 DEF WindowInv, PendingFromFields
  <2> QED
    BY <2>1, <2>2, <2>3, WindowAlone DEF WindowInv, NoAdds
<1> QED
  BY <1>1, <1>2, <1>3, <1>4, <1>5 DEF WindowNext

(***************************************************************************)
(* The theorems.                                                           *)
(***************************************************************************)
LEMMA BothInvariants == WindowSpec => [](IndInv /\ WindowInv)
<1>1. WindowInit => IndInv /\ WindowInv
  BY WindowInvInit, InitIndInv DEF WindowInit
<1>2. IndInv /\ WindowInv /\ [WindowNext]_windowVars => (IndInv /\ WindowInv)'
  <2> SUFFICES ASSUME IndInv, WindowInv, [WindowNext]_windowVars
               PROVE  (IndInv /\ WindowInv)'
    OBVIOUS
  <2>1. [Next]_vars
    BY WindowRefines DEF WindowInv
  <2> QED
    BY <2>1, WindowInvStep, IndInvStep
<1> QED
  BY <1>1, <1>2, PTL DEF WindowSpec

(* Whatever the user clicks, the window uses the connection as Session     *)
(* says, so every theorem about Session holds with the window as client    *)
(* (clientGUI.java:65-337).                                                *)
THEOREM WindowImplementsSession == WindowSpec => ImplementsSession
<1>1. WindowInit => Init
  BY DEF WindowInit
<1>2. WindowInv /\ [WindowNext]_windowVars => [Next]_vars
  BY WindowRefines DEF WindowInv
<1> QED
  BY <1>1, <1>2, BothInvariants, PTL DEF WindowSpec, ImplementsSession, Spec

(* The whole system carries out the requests handed over whole, in order   *)
(* and at most once (clientGUI.java:119-336, Server.java:26-130).          *)
THEOREM WindowCarriesOut == WindowSpec => CarriesOutRequests
  BY WindowImplementsSession, CarriesOutCorrect DEF ImplementsSession

(* The window's fields, rows and deletes under way agree                   *)
(* (clientGUI.java:65-337).                                                *)
THEOREM WindowInvCorrect == WindowSpec => []WindowInv
  BY BothInvariants, PTL

(* The types of the window's fields hold. *)
THEOREM GuiTypeCorrect == WindowSpec => []GuiTypeOK
<1>1. WindowInv => GuiTypeOK
  BY DEF WindowInv
<1> QED
  BY <1>1, WindowInvCorrect, PTL

(* However many deletes are under way, repeated or lost, the window shows  *)
(* no row that view lacks (clientGUI.java:119-141, Server.java:104).       *)
THEOREM ShownRowsCorrect == WindowSpec => []ShownRowsExist
<1>1. WindowInv => ShownRowsExist
  BY DEF WindowInv
<1> QED
  BY <1>1, WindowInvCorrect, PTL

(* What is highlighted is what Delete and Edit act on                      *)
(* (clientGUI.java:98-99,126,134,147).                                     *)
THEOREM HighlightCorrect == WindowSpec => []HighlightIsTarget
<1>1. WindowInv => HighlightIsTarget
  BY DEF WindowInv
<1> QED
  BY <1>1, WindowInvCorrect, PTL

(* An update right after Edit goes to the row that was loaded              *)
(* (clientGUI.java:159,184).                                               *)
THEOREM UpdateHitsCorrect == WindowSpec => UpdateHitsLoadedRow
<1>1. WindowInv /\ [WindowNext]_windowVars =>
        [FinishUpdate /\ editFresh => overwritten' = overwritten]_windowVars
  <2> SUFFICES ASSUME WindowInv, FinishUpdate, editFresh PROVE overwritten' = overwritten
    OBVIOUS
  <2>1. clientPc = "writeObject" /\ pending.type = "editTable"
    BY DEF FinishUpdate, WriteObject
  <2>2. pending.id = editID /\ editID # NaN
    BY <2>1 DEF WindowInv, PendingFromFields
  <2>3. IsRow(rowToEdit) => RowId(rowToEdit) = pending.id
    BY <2>2 DEF WindowInv, EditLoaded
  <2>4. overwritten \in BOOLEAN
    BY DEF WindowInv, GuiTypeOK
  <2> QED
    BY <2>3, <2>4, Zenon DEF FinishUpdate
<1> QED
  BY <1>1, WindowInvCorrect, PTL DEF WindowSpec, UpdateHitsLoadedRow

(* Only rows the session's user had selected are deleted, or ids read from *)
(* the column in front (clientGUI.java:98, Server.java:104).               *)
THEOREM DeletesPickedCorrect == WindowSpec => DeletesOnlyPicked
<1>1. WindowInv /\ [WindowNext]_windowVars =>
        [DOMAIN view \ DOMAIN view' \subseteq picked \cup strays]_windowVars
  <2> SUFFICES ASSUME WindowInv, [WindowNext]_windowVars
               PROVE  DOMAIN view \ DOMAIN view' \subseteq picked \cup strays
    OBVIOUS
  <2>1. CASE ServerNext
    BY <2>1, ServerKeepsRows DEF WindowInv, DeletesPicked
  <2>2. CASE UNCHANGED view
    BY <2>2
  <2> QED
    BY <2>1, <2>2 DEF WindowNext, WindowNewSession, NewSession, windowVars, vars, serverVars, dbVars
<1> QED
  BY <1>1, WindowInvCorrect, PTL DEF WindowSpec, DeletesOnlyPicked
=============================================================================
