----------------------------- MODULE ClientGUI ------------------------------
(***************************************************************************)
(* The window of the Swing client: the widgets and fields that decide      *)
(* which request each handler sends, on top of what WireClient does to the *)
(* connection.  A row of the table is its first cell, the billboard's id;  *)
(* the other cells are only copied.  Rows count from 0, as in Swing.       *)
(***************************************************************************)
EXTENDS WireClient, Integers, SequencesExt

CONSTANTS
    TypedIds,   \* ids typed into the EditBbID and scheduleID fields
    CellIds,    \* what is typed over the id cell of a row, in place
    OtherCells  \* what the cells of a column dragged in front of the ids hold;
                \* empty when no column is dragged

ASSUME TypedAssumption ==
    /\ TypedIds \subseteq Ids
    /\ CellIds \subseteq Ids \cup {NaN}
    /\ OtherCells \subseteq Ids \cup {NaN}

VARIABLES
    rows,           \* table2's model: the id cells, NaN for one that is none
    selection,      \* table2's selected rows
    idFirst,        \* table2 displays the id column first
    billboardID,    \* clientGUI.billboardID, Null until a row is selected
    selectedRow,    \* clientGUI.selectedRow
    rowToEdit,      \* clientGUI.rowToEdit
    editID,         \* the text of EditBbID, NaN when it is no number
    idEditable,     \* EditBbID.isEditable()
    picked,         \* history: the ids of the rows the selection listener has read
    strays,         \* history: the numbers it took for ids from other columns
    misread,        \* history: the last row was selected with another column first
    editFresh,      \* history: no row moved or changed since the last Edit
    overwritten     \* history: a row was given another billboard's id

fieldVars == <<billboardID, selectedRow, rowToEdit, editID, idEditable>>
listenerVars == <<picked, strays, misread>>
guiVars == <<rows, selection, idFirst, fieldVars, listenerVars, editFresh, overwritten>>

GuiStart ==
    /\ rows = <<>> /\ selection = {} /\ idFirst = TRUE
    /\ billboardID = Null /\ selectedRow = 0 /\ rowToEdit = 0
    /\ editID = NaN /\ idEditable = TRUE
    /\ picked = {} /\ strays = {} /\ misread = FALSE
    /\ editFresh = FALSE /\ overwritten = FALSE

IsRow(i) == i \in 0 .. Len(rows) - 1

RowId(i) == rows[i + 1]

(***************************************************************************)
(* table2.getSelectedRow(): the smallest selected index, which the         *)
(* selection model does not compare with the number of rows.               *)
(***************************************************************************)
SelectedRow(S) == CHOOSE i \in S : \A j \in S : i <= j

(* getValueAt(i, 0): column 0 is the first one displayed. *)
FirstCell(i, table) == IF idFirst THEN {table[i + 1]} ELSE OtherCells

(* Mutant: the listener remembers the id and forgets the index. *)
MutRememberIdOnly(i, id, row) ==
    /\ billboardID' = id
    /\ picked' = picked \cup {row}
    /\ strays' = IF idFirst THEN strays ELSE strays \cup {id}
    /\ UNCHANGED selectedRow

(* The listener parsed the id and keeps it with the index. *)
Remember(i, id, row) ==
    /\ billboardID' = id
    /\ selectedRow' = i
    /\ picked' = picked \cup {row}
    /\ strays' = IF idFirst THEN strays ELSE strays \cup {id}

(***************************************************************************)
(* valueChanged, for a new selection S over the ids of table: remembers    *)
(* the index of the first selected row and the number in its first cell.   *)
(* It throws, leaving both as they were, when that row does not exist or   *)
(* the cell holds no number.                                               *)
(***************************************************************************)
ValueChanged(S, table) ==
    LET i == SelectedRow(S) IN
    IF S # {} /\ i + 1 \in DOMAIN table
    THEN /\ misread' = ~idFirst
         /\ \/ \E id \in FirstCell(i, table) \ {NaN} : Remember(i, id, table[i + 1])
            \/ NaN \in FirstCell(i, table) /\ UNCHANGED <<billboardID, selectedRow, picked, strays>>
    ELSE UNCHANGED <<billboardID, selectedRow, listenerVars>>

(* The constructor fills the table with the reply, in key order. *)
FillTable ==
    /\ ReadTable
    /\ LET keys == DOMAIN Head(s2c) IN
       \E ids \in [1 .. Cardinality(keys) -> keys] :
           /\ \A i, j \in DOMAIN ids : i < j => ids[i] < ids[j]
           /\ rows' = ids
    /\ UNCHANGED <<selection, idFirst, fieldVars, listenerVars, editFresh, overwritten>>

(* The user clicks or drags over the table.  Indices that a removal left   *)
(* selected beyond the last row stay selected when Ctrl is held.           *)
SelectRows(S) ==
    /\ clientPc = "idle"
    /\ S # selection
    /\ selection' = S
    /\ ValueChanged(S, rows)
    /\ UNCHANGED <<wireVars, clientVars, rows, idFirst, rowToEdit, editID, idEditable,
                   editFresh, overwritten>>

Selections == SUBSET ((0 .. Len(rows) - 1) \cup selection)

(* The user drags a column in front of the ids, or the ids to the front:   *)
(* no listener is told.                                                    *)
DragColumn ==
    /\ clientPc = "idle"
    /\ OtherCells # {}
    /\ idFirst' = ~idFirst
    /\ UNCHANGED <<wireVars, clientVars, rows, selection, fieldVars, listenerVars,
                   editFresh, overwritten>>

(* The user types over the id cell of a row: a change of the window only. *)
EditCell(i, id) ==
    /\ clientPc = "idle"
    /\ RowId(i) # id
    /\ rows' = [rows EXCEPT ![i + 1] = id]
    /\ overwritten' = TRUE
    /\ editFresh' = FALSE
    /\ UNCHANGED <<wireVars, clientVars, selection, idFirst, fieldVars, listenerVars>>
-----------------------------------------------------------------------------
(* Mutant: the request names the first row instead of the selected one. *)
MutDeleteTypeFirstRow ==
    /\ WriteType([type |-> "delete", data |-> Null,
                  id |-> IF IsRow(0) /\ billboardID # Null THEN RowId(0) ELSE billboardID])
    /\ UNCHANGED guiVars

(* The Delete button: the type goes out before the id is looked at. *)
DeleteType ==
    /\ WriteType([type |-> "delete", id |-> billboardID, data |-> Null])
    /\ UNCHANGED guiVars

(* Mutant: removeRow counts the rows from 1. *)
MutRemoveRowBefore(r) ==
    /\ rows' = RemoveAt(rows, r)
    /\ editFresh' = FALSE
    /\ selection' = {}
    /\ UNCHANGED <<billboardID, selectedRow, listenerVars>>

(* Mutant: the selected index itself moves up with the rows below it. *)
MutRemoveRowShiftsAll(r) ==
    /\ rows' = RemoveAt(rows, r + 1)
    /\ editFresh' = FALSE
    /\ selection' = {i \in selection : i < r} \cup {i - 1 : i \in {j \in selection : j >= r}}
    /\ UNCHANGED <<billboardID, selectedRow, listenerVars>>

(***************************************************************************)
(* dm.removeRow(r).  The client's own table listener runs before JTable's  *)
(* and reads the row that took r's place: if there is none, or its id is   *)
(* no number, it throws, and JTable never adjusts its selection.           *)
(* Otherwise the selection moves up with the rows and, when it changed,    *)
(* valueChanged is called again.                                           *)
(***************************************************************************)
RemoveRow(r) ==
    LET left == RemoveAt(rows, r + 1)
        moved == {i \in selection : i < r} \cup {i - 1 : i \in {j \in selection : j > r}}
    IN  /\ rows' = left
        /\ editFresh' = FALSE
        /\ IF r + 1 \in DOMAIN left /\ left[r + 1] # NaN
           THEN /\ selection' = moved
                /\ \/ ValueChanged(moved, left)
                   \/ moved = selection /\ UNCHANGED <<billboardID, selectedRow, listenerVars>>
           ELSE UNCHANGED <<selection, billboardID, selectedRow, listenerVars>>

(* Mutant: the handler gives up, its type written, when the row is gone. *)
MutFinishDeleteGivesUp ==
    /\ pending.type = "delete" /\ pending.id # Null
    /\ \/ WriteObject /\ IsRow(selectedRow) /\ RemoveRow(selectedRow)
       \/ /\ clientPc = "writeObject" /\ ~IsRow(selectedRow)
          /\ clientPc' = "idle"
          /\ UNCHANGED <<wireVars, pending, sent, aborted, rows, selection, billboardID,
                         selectedRow, listenerVars, editFresh>>
    /\ UNCHANGED <<idFirst, rowToEdit, editID, idEditable, overwritten>>

(* The object is written; then the row is removed, or removeRow throws. *)
FinishDelete ==
    /\ pending.type = "delete"
    /\ WriteObject
    /\ \/ IsRow(selectedRow) /\ RemoveRow(selectedRow)
       \/ ~IsRow(selectedRow) /\ UNCHANGED <<rows, selection, billboardID, selectedRow,
                                             listenerVars, editFresh>>
    /\ UNCHANGED <<idFirst, rowToEdit, editID, idEditable, overwritten>>

AbortedDelete == AbortDelete /\ UNCHANGED guiVars

(* Mutant: the Edit button does not remember which row it loaded. *)
MutPressEditForgetsRow ==
    /\ clientPc = "idle"
    /\ IsRow(selectedRow)
    /\ editID' = RowId(selectedRow)
    /\ idEditable' = FALSE
    /\ editFresh' = TRUE
    /\ UNCHANGED <<wireVars, clientVars, rows, selection, idFirst, billboardID, selectedRow,
                   rowToEdit, listenerVars, overwritten>>

(* The Edit button copies the selected row into the fields of its tab; it  *)
(* throws before it changes any when there is no such row.                 *)
PressEdit ==
    /\ clientPc = "idle"
    /\ IsRow(selectedRow)
    /\ editID' = RowId(selectedRow)
    /\ idEditable' = FALSE
    /\ rowToEdit' = selectedRow
    /\ editFresh' = TRUE
    /\ UNCHANGED <<wireVars, clientVars, rows, selection, idFirst, billboardID, selectedRow,
                   listenerVars, overwritten>>

(* Until the first Edit the id can be typed. *)
TypeEditID(id) ==
    /\ clientPc = "idle"
    /\ idEditable
    /\ editID' = id
    /\ UNCHANGED <<wireVars, clientVars, rows, selection, idFirst, billboardID, selectedRow,
                   rowToEdit, idEditable, listenerVars, editFresh, overwritten>>

(* The Update button, which throws at once when the id is no number. *)
UpdateType(text) ==
    /\ editID # NaN
    /\ WriteType([type |-> "editTable", id |-> editID, data |-> text])
    /\ UNCHANGED guiVars

(* Then the row rowToEdit is overwritten, or setValueAt throws and leaves  *)
(* the fields filled.                                                      *)
FinishUpdate ==
    /\ pending.type = "editTable"
    /\ WriteObject
    /\ \/ /\ IsRow(rowToEdit)
          /\ overwritten' = (overwritten \/ RowId(rowToEdit) # pending.id)
          /\ rows' = [rows EXCEPT ![rowToEdit + 1] = pending.id]
          /\ rowToEdit' = -1
          /\ editID' = NaN
       \/ /\ ~IsRow(rowToEdit)
          /\ UNCHANGED <<rows, rowToEdit, editID, overwritten>>
    /\ UNCHANGED <<selection, idFirst, billboardID, selectedRow, idEditable, listenerVars,
                   editFresh>>

(* A failed write is printed; then the fields are cleared and "Success" is *)
(* shown all the same.                                                     *)
UpdateThrows ==
    /\ \/ editID # NaN /\ WriteTypeThrows
       \/ pending.type = "editTable" /\ WriteObjectThrows
    /\ editID' = NaN
    /\ UNCHANGED <<rows, selection, idFirst, billboardID, selectedRow, rowToEdit, idEditable,
                   listenerVars, editFresh, overwritten>>

(* The Submit button of the schedule tab: any id, known or not. *)
ScheduleType(id, sched) ==
    /\ WriteType([type |-> "addView", id |-> id, data |-> sched])
    /\ UNCHANGED guiVars

FinishSchedule ==
    /\ pending.type = "addView"
    /\ WriteObject
    /\ UNCHANGED guiVars

(* Delete and schedule print the exception and are done. *)
OtherThrows ==
    /\ WriteTypeThrows \/ (pending.type # "editTable" /\ WriteObjectThrows)
    /\ UNCHANGED guiVars
-----------------------------------------------------------------------------
(***************************************************************************)
(* The Submit button of the create tab is not here: its handler            *)
(* dereferences textArea4, which clientGUI.form does not bind, and throws  *)
(* before it writes anything, so no window ever sends addBillboard.        *)
(***************************************************************************)
GuiStep ==
    \/ (RequestTable \/ ConstructorThrows) /\ UNCHANGED guiVars
    \/ FillTable \/ FinishDelete \/ AbortedDelete \/ FinishUpdate \/ FinishSchedule
    \/ UpdateThrows \/ OtherThrows

GuiUser ==
    \/ \E S \in Selections : SelectRows(S)
    \/ \E i \in 0 .. Len(rows) - 1, id \in CellIds : EditCell(i, id)
    \/ DragColumn
    \/ DeleteType
    \/ PressEdit
    \/ \E id \in TypedIds \cup {NaN} : TypeEditID(id)
    \/ \E text \in Texts : UpdateType(text)
    \/ \E id \in TypedIds \cup {NaN}, sched \in Scheds : ScheduleType(id, sched)
    \/ (CloseWindow \/ KillClient) /\ UNCHANGED guiVars
=============================================================================
