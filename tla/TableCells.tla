----------------------------- MODULE TableCells -----------------------------
(***************************************************************************)
(* The way of a cell: from a column of view, by the cursor loop of         *)
(* showTable and positions of an array, to a cell of the window, by Edit   *)
(* to a field, by Update back to a cell and, by positions of another array *)
(* and the text of a statement, to a column of billboard.  Rows go under   *)
(* the user's hands, cells and ids are typed over, Update is pressed       *)
(* without Edit.  Session and ClientGUI treat a row as one value; they     *)
(* have the stream, the ways a process ends and JTable's selection, of     *)
(* which here only the outcome is left.  Rows count from 1.                *)
(***************************************************************************)
EXTENDS Integers, Sequences, SequencesExt

CONSTANTS
    MaxRows,        \* rows of view at the start, their keys 1 .. MaxRows
    Bare,           \* keys of those without url and schedule
    Typed,          \* texts a user types
    TypedIds,       \* ids a user types
    Literal(_),     \* what a text between quotes is to the database: a
                    \* backslash escapes, two quotes are one
    Quoted,         \* texts that end their quotes early
    Null,           \* SQL's NULL, Java's null
    Empty,          \* the empty text
    MaxInputs,      \* bound on what is typed, updated and deleted
    MaxSessions     \* bound on the sessions

ASSUME CellsAssumption ==
    /\ MaxRows \in Nat /\ MaxInputs \in Nat /\ MaxSessions \in Nat \ {0}
    /\ TypedIds \subseteq Int
    /\ Null # Empty /\ Null \notin Typed

VARIABLES
    pc,             \* the place in showTable, then "open": the window is shown
    view,           \* the rows of table view, in the order of the select
    billboard,      \* table billboard: key -> its four other columns
    cursor,         \* the row the result set is on, 0 before the first
    rowcount,       \* showTable's count of the rows
    data,           \* the rows copied so far
    serverUp,       \* the server's process runs
    requests,       \* requests written and not carried out
    shown,          \* table2's model: its row vectors, in order
    cells,          \* what each row vector holds
    selectedRow,    \* clientGUI.selectedRow
    billboardID,    \* clientGUI.billboardID
    rowToEdit,      \* clientGUI.rowToEdit, 0 for its -1
    fields,         \* the fields of the edit tab
    idEditable,     \* EditBbID.isEditable()
    inputs,         \* inputs so far
    session,
    kept,           \* history: fields that hold what Edit put there, from a
                    \* cell that was not astray
    astray,         \* history: cells <<row, column>> that were typed over, or
                    \* whose billboard was updated through another row
    behind,         \* history: keys whose row of billboard was missing or not
                    \* the same when view was read, or was hit by a statement
                    \* read otherwise than meant, and not updated since
    mixed           \* history: <<key of the row, id>> of the deletes that took
                    \* one row from the window and asked for another's id

replyVars == <<cursor, rowcount, data>>
tableVars == <<shown, cells>>
fieldVars == <<selectedRow, billboardID, rowToEdit, fields, idEditable>>
historyVars == <<kept, astray, behind, mixed>>
vars == <<pc, view, billboard, replyVars, serverUp, requests, tableVars, fieldVars,
          inputs, session, historyVars>>

ViewColumns == <<"BillboardID", "BillboardName", "message", "info", "url",
                 "scheduledDate", "startTime", "endTime">>
BillboardColumns == {"BillboardName", "message", "info", "url"}
EditFields == {"editBbName", "editMsg", "editInfo", "editLink"}

NoFields == [f \in EditFields \cup {"EditBbID"} |-> Empty]

(* Rows as adds and schedules leave them: a url or none, all of a schedule *)
(* or nothing.                                                             *)
ViewRow(k) ==
    [c \in {ViewColumns[j] : j \in 1 .. 8} |->
        IF c = "BillboardID" THEN k
        ELSE IF k \in Bare /\ c \in {"url", "scheduledDate", "startTime", "endTime"} THEN Null
        ELSE <<k, c>>]

(* Nothing ties the keys of the two tables: a row of view may have no row  *)
(* of billboard under its key.                                             *)
Init ==
    /\ \E n \in 0 .. MaxRows, keys \in SUBSET (1 .. MaxRows) :
           /\ view = [k \in 1 .. n |-> ViewRow(k)]
           /\ billboard = [k \in keys |-> [c \in BillboardColumns |-> ViewRow(k)[c]]]
    /\ pc = "select" /\ cursor = 0 /\ rowcount = 0 /\ data = <<>>
    /\ serverUp = TRUE /\ requests = <<>>
    /\ shown = <<>> /\ cells = <<>>
    /\ selectedRow = 1 /\ billboardID = Null /\ rowToEdit = 1
    /\ fields = NoFields /\ idEditable = TRUE
    /\ kept = {} /\ astray = {} /\ mixed = {}
    /\ inputs = 0 /\ session = 1 /\ behind = {}

Selected == shown[selectedRow]
-----------------------------------------------------------------------------
(* Mutant: rs.first() instead of rs.beforeFirst(). *)
MutCountRowsFirst ==
    /\ pc = "select"
    /\ rowcount' = Len(view)
    /\ cursor' = IF view # <<>> THEN 1 ELSE 0
    /\ data' = <<>>
    /\ pc' = "copy"
    /\ UNCHANGED <<view, billboard, serverUp, requests, tableVars, fieldVars, inputs, session,
                   historyVars>>

(* The select, then last() and getRow() for the number of rows, which is 0 *)
(* when there is no last row, and beforeFirst().                           *)
CountRows ==
    /\ pc = "select"
    /\ rowcount' = Len(view)
    /\ cursor' = 0
    /\ data' = <<>>
    /\ pc' = "copy"
    /\ UNCHANGED <<view, billboard, serverUp, requests, tableVars, fieldVars, inputs, session,
                   historyVars>>

(* getInt(1), getString(2) .. getTime(8), into places 0 .. 7 of an array. *)
ReplyRow(row) == [j \in 0 .. 7 |-> row[ViewColumns[j + 1]]]

(* One turn of the loop: next() and the copy. *)
CopyRow ==
    /\ pc = "copy"
    /\ Len(data) < rowcount
    /\ cursor < Len(view)
    /\ cursor' = cursor + 1
    /\ data' = Append(data, ReplyRow(view[cursor + 1]))
    /\ UNCHANGED <<pc, view, billboard, rowcount, serverUp, requests, tableVars, fieldVars,
                   inputs, session, historyVars>>

(* The rows arrive and fill the window, a vector for each. *)
ShowRows ==
    /\ pc = "copy"
    /\ Len(data) = rowcount
    /\ pc' = "open"
    /\ cells' = data
    /\ shown' = [i \in 1 .. rowcount |-> i]
    /\ behind' = {view[i]["BillboardID"] : i \in {r \in DOMAIN view :
                     LET k == view[r]["BillboardID"] IN
                     \/ k \notin DOMAIN billboard
                     \/ \E c \in BillboardColumns : view[r][c] # billboard[k][c]}}
    /\ UNCHANGED <<view, billboard, replyVars, serverUp, requests, fieldVars, inputs, session,
                   kept, astray, mixed>>
-----------------------------------------------------------------------------
(* A row is selected and its id is a number. *)
SelectRow(i) ==
    /\ pc = "open"
    /\ cells[shown[i]][0] \in Int
    /\ selectedRow' = i
    /\ billboardID' = cells[shown[i]][0]
    /\ UNCHANGED <<pc, view, billboard, replyVars, serverUp, requests, tableVars, rowToEdit,
                   fields, idEditable, inputs, session, historyVars>>

(* A cell is typed over in the window, the row's id included.  What is     *)
(* typed over the last three columns nobody reads.                         *)
TypeCell(i, j, v) ==
    /\ pc = "open"
    /\ inputs < MaxInputs
    /\ cells' = [cells EXCEPT ![shown[i]] = [@ EXCEPT ![j] = v]]
    /\ inputs' = inputs + 1
    /\ astray' = astray \cup {<<shown[i], c>> : c \in IF j = 0 THEN 1 .. 4 ELSE {j}}
    /\ UNCHANGED <<pc, view, billboard, replyVars, serverUp, requests, shown, fieldVars,
                   session, kept, behind, mixed>>

DeleteRequest == [type |-> "delete", val |-> [j \in {0} |-> billboardID], kept |-> {}]

(* The key of the row that the next Delete takes out of the window. *)
RowsKey == IF selectedRow \in DOMAIN shown THEN data[Selected][0] ELSE Null

(* Mutant: removeRow is given the index of the row above. *)
MutPressDeleteAbove ==
    /\ pc = "open"
    /\ billboardID # Null
    /\ inputs < MaxInputs
    /\ requests' = Append(requests, DeleteRequest)
    /\ shown' = IF selectedRow - 1 \in DOMAIN shown THEN RemoveAt(shown, selectedRow - 1) ELSE shown
    /\ inputs' = inputs + 1
    /\ mixed' = mixed \cup {<<k, billboardID>> : k \in {RowsKey} \ {billboardID}}
    /\ UNCHANGED <<pc, view, billboard, replyVars, serverUp, cells, fieldVars, session, kept,
                   astray, behind>>

(* The Delete button once a row was selected: the request is written, then *)
(* the row leaves the window, if there is one at that index.               *)
PressDelete ==
    /\ pc = "open"
    /\ billboardID # Null
    /\ inputs < MaxInputs
    /\ requests' = Append(requests, DeleteRequest)
    /\ shown' = IF selectedRow \in DOMAIN shown THEN RemoveAt(shown, selectedRow) ELSE shown
    /\ inputs' = inputs + 1
    /\ mixed' = mixed \cup {<<k, billboardID>> : k \in {RowsKey} \ {billboardID}}
    /\ UNCHANGED <<pc, view, billboard, replyVars, serverUp, cells, fieldVars, session, kept,
                   astray, behind>>

(* setText(null) shows an empty text. *)
AsText(v) == IF v = Null THEN Empty ELSE v

(* Mutant: two fields are filled from each other's cells. *)
MutLoadedCrossed(row) ==
    [EditBbID |-> row[0], editBbName |-> AsText(row[1]), editMsg |-> AsText(row[3]),
     editInfo |-> AsText(row[2]), editLink |-> AsText(row[4])]

Loaded(row) ==
    [EditBbID |-> row[0], editBbName |-> AsText(row[1]), editMsg |-> AsText(row[2]),
     editInfo |-> AsText(row[3]), editLink |-> AsText(row[4])]

(* The place of a field in the array of an edit and in a row of table2. *)
Place(f) ==
    CASE f = "editBbName" -> 1 [] f = "editMsg" -> 2 [] f = "editInfo" -> 3 [] f = "editLink" -> 4

(* The Edit button; it throws when the remembered row is gone. *)
PressEdit ==
    /\ pc = "open"
    /\ selectedRow \in DOMAIN shown
    /\ fields' = Loaded(cells[Selected])
    /\ idEditable' = FALSE
    /\ rowToEdit' = selectedRow
    /\ kept' = {f \in EditFields : <<Selected, Place(f)>> \notin astray}
    /\ UNCHANGED <<pc, view, billboard, replyVars, serverUp, requests, tableVars, selectedRow,
                   billboardID, inputs, session, astray, behind, mixed>>

TypeField(f, text) ==
    /\ pc = "open"
    /\ inputs < MaxInputs
    /\ fields' = [fields EXCEPT ![f] = text]
    /\ inputs' = inputs + 1
    /\ kept' = kept \ {f}
    /\ UNCHANGED <<pc, view, billboard, replyVars, serverUp, requests, tableVars, selectedRow,
                   billboardID, rowToEdit, idEditable, session, astray, behind, mixed>>

(* Until the first Edit the id can be typed. *)
TypeEditID(id) ==
    /\ pc = "open"
    /\ idEditable
    /\ inputs < MaxInputs
    /\ fields' = [fields EXCEPT !.EditBbID = id]
    /\ inputs' = inputs + 1
    /\ UNCHANGED <<pc, view, billboard, replyVars, serverUp, requests, tableVars, selectedRow,
                   billboardID, rowToEdit, idEditable, session, historyVars>>

(* new Edit(...).getVal() *)
EditValues(f) ==
    [j \in 0 .. 4 |-> <<f.EditBbID, f.editBbName, f.editMsg, f.editInfo, f.editLink>>[j + 1]]

EditRequest == [type |-> "editTable", val |-> EditValues(fields), kept |-> kept]

(* The cells of the rows, except row, that carry the id of the edit tab. *)
OtherRows(row) == {r \in DOMAIN cells \ {row} : cells[r][0] = fields.EditBbID} \X (1 .. 4)

(* Mutant: the window's row is not brought up to date. *)
MutOverwriteNothing(row) ==
    /\ astray' = (astray \ ({row} \X (1 .. 4))) \cup OtherRows(row)
    /\ UNCHANGED cells

(* setValueAt, for the first five columns. *)
Overwrite(row) ==
    /\ cells' = [cells EXCEPT ![row] =
                    [j \in 0 .. 7 |-> IF j <= 4 THEN EditValues(fields)[j] ELSE @[j]]]
    /\ astray' = (astray \ ({row} \X (1 .. 4))) \cup OtherRows(row)

ClearFields == fields' = NoFields /\ kept' = {}

(* The Update button, whose id must be a number: the request is written,   *)
(* the row of the window at rowToEdit takes the values, whichever it is by *)
(* now, and the fields are cleared.  At the start rowToEdit is the first   *)
(* row.  Without a row there setValueAt throws and the fields stay.        *)
PressUpdate ==
    /\ pc = "open"
    /\ fields.EditBbID \in Int
    /\ inputs < MaxInputs
    /\ requests' = Append(requests, EditRequest)
    /\ inputs' = inputs + 1
    /\ \/ /\ rowToEdit \in DOMAIN shown
          /\ Overwrite(shown[rowToEdit])
          /\ rowToEdit' = 0
          /\ ClearFields
       \/ /\ rowToEdit \notin DOMAIN shown
          /\ astray' = astray \cup OtherRows(0)
          /\ UNCHANGED <<cells, rowToEdit, fields, kept>>
    /\ UNCHANGED <<pc, view, billboard, replyVars, serverUp, shown, selectedRow, billboardID,
                   idEditable, session, behind, mixed>>

(* The same with the server gone, when the write fails: the fields are     *)
(* cleared all the same.                                                   *)
UpdateThrows ==
    /\ pc = "open"
    /\ fields.EditBbID \in Int
    /\ ~serverUp
    /\ ClearFields
    /\ UNCHANGED <<pc, view, billboard, replyVars, serverUp, requests, tableVars, selectedRow,
                   billboardID, rowToEdit, idEditable, inputs, session, astray, behind, mixed>>
-----------------------------------------------------------------------------
AtRequest(type) == pc = "open" /\ serverUp /\ requests # <<>> /\ Head(requests).type = type

(* update billboard set BillboardName='data[1]', message='data[2]', ... *)
Updated(val) ==
    [BillboardName |-> Literal(val[1]), message |-> Literal(val[2]),
     info |-> Literal(val[3]), url |-> Literal(val[4])]

ReadAsMeant(val) == \A j \in 1 .. 4 : val[j] \notin Quoted

(* Each value is its own literal. *)
UpdateBillboard ==
    /\ AtRequest("editTable")
    /\ LET val == Head(requests).val IN
       /\ ReadAsMeant(val)
       /\ billboard' = [k \in DOMAIN billboard |-> IF k = val[0] THEN Updated(val) ELSE billboard[k]]
       /\ behind' = behind \ ({val[0]} \cap DOMAIN billboard)
    /\ requests' = Tail(requests)
    /\ UNCHANGED <<pc, view, replyVars, serverUp, tableVars, fieldVars, inputs, session, kept,
                   astray, mixed>>

(* A value ends its literal and the rest of it is read as SQL.  When that  *)
(* is no statement it is refused, which ends the server (ServerEnds); else *)
(* it is one that sets other columns, or other rows, than it should.       *)
UpdateMisread ==
    /\ AtRequest("editTable")
    /\ ~ReadAsMeant(Head(requests).val)
    /\ \E keys \in SUBSET DOMAIN billboard, columns \in SUBSET BillboardColumns, text \in Typed :
           /\ billboard' = [k \in DOMAIN billboard |->
                  [c \in BillboardColumns |->
                      IF k \in keys /\ c \in columns THEN text ELSE billboard[k][c]]]
           /\ behind' = behind \cup keys \cup {Head(requests).val[0]}
    /\ requests' = Tail(requests)
    /\ UNCHANGED <<pc, view, replyVars, serverUp, tableVars, fieldVars, inputs, session, kept,
                   astray, mixed>>

(* delete from view where billboardID, the primary key *)
DeleteFromView ==
    /\ AtRequest("delete")
    /\ LET id == Head(requests).val[0] IN
       \/ \E i \in DOMAIN view : view[i]["BillboardID"] = id /\ view' = RemoveAt(view, i)
       \/ (\A i \in DOMAIN view : view[i]["BillboardID"] # id) /\ view' = view
    /\ requests' = Tail(requests)
    /\ UNCHANGED <<pc, billboard, replyVars, serverUp, tableVars, fieldVars, inputs, session,
                   historyVars>>

(* A refused statement, a delete cut short, a failure or the operator ends *)
(* the server; what was written is not carried out.                        *)
ServerEnds ==
    /\ pc = "open" /\ serverUp
    /\ serverUp' = FALSE
    /\ UNCHANGED <<pc, view, billboard, replyVars, requests, tableVars, fieldVars, inputs,
                   session, historyVars>>

(* Both processes end, with what was not carried out, and start again. *)
NewSession ==
    /\ session < MaxSessions
    /\ session' = session + 1
    /\ pc' = "select"
    /\ serverUp' = TRUE /\ requests' = <<>>
    /\ shown' = <<>> /\ cells' = <<>>
    /\ selectedRow' = 1 /\ billboardID' = Null /\ rowToEdit' = 1
    /\ fields' = NoFields /\ idEditable' = TRUE
    /\ kept' = {} /\ astray' = {} /\ mixed' = {}
    /\ UNCHANGED <<view, billboard, replyVars, inputs, behind>>

UserStep ==
    \/ \E i \in DOMAIN shown : SelectRow(i)
    \/ \E i \in DOMAIN shown, j \in 0 .. 4, text \in Typed : TypeCell(i, j, text)
    \/ \E i \in DOMAIN shown, id \in TypedIds : TypeCell(i, 0, id)
    \/ \E f \in EditFields, text \in Typed : TypeField(f, text)
    \/ \E id \in TypedIds : TypeEditID(id)
    \/ PressDelete \/ PressEdit \/ PressUpdate \/ UpdateThrows

Next ==
    \/ CountRows \/ CopyRow \/ ShowRows
    \/ UserStep
    \/ UpdateBillboard \/ UpdateMisread \/ DeleteFromView \/ ServerEnds
    \/ NewSession

Spec == Init /\ [][Next]_vars
-----------------------------------------------------------------------------
(* showTable's loop copies every row of view once, in order, each value    *)
(* from its column, and never reads past the last row.  The comment at     *)
(* Server.java:75 explains the half of it that is easy to get wrong.       *)
RepliesWholeTable ==
    /\ pc = "copy" /\ Len(data) < rowcount => cursor < Len(view)
    /\ pc = "copy" /\ Len(data) = rowcount =>
           /\ Len(data) = Len(view)
           /\ \A i \in DOMAIN view, j \in 1 .. 8 : data[i][j - 1] = view[i][ViewColumns[j]]

(* The strengthening that makes it inductive: the cursor and the copy are  *)
(* at the same row at every turn of the loop (Server.java:73-91).          *)
CopyInStep ==
    /\ view \in Seq({view[i] : i \in 1 .. Len(view)})
    /\ pc = "copy" =>
           /\ rowcount = Len(view)
           /\ cursor \in 0 .. Len(view)
           /\ data \in Seq({ReplyRow(view[i]) : i \in DOMAIN view})
           /\ Len(data) = cursor
           /\ \A i \in 1 .. cursor : data[i] = ReplyRow(view[i])

(* The column of billboard a field of the edit tab stands for, by its      *)
(* label in clientGUI.form.                                                *)
FieldColumn(f) ==
    CASE f = "editBbName" -> "BillboardName" [] f = "editMsg" -> "message"
      [] f = "editInfo" -> "info" [] f = "editLink" -> "url"

(* An update leaves every column alone whose field still holds what Edit   *)
(* put there, or stores its text once more, read as a literal: by          *)
(* Server.java:81-89, clientGUI.java:147-158, 169-187 and Server.java:114  *)
(* a value comes back to the column it came from, with any number of       *)
(* updates under way, after deletes and with updates pressed without Edit  *)
(* in between.  Nothing is said of fields that Edit did not fill (without  *)
(* Edit they are empty, and blank their columns) or filled from a cell     *)
(* typed over or made stale by an update through another row, of rows out  *)
(* of step with view since it was read (their columns are set back), and   *)
(* of statements read otherwise than meant.                                *)
UntouchedColumnsStay ==
    [][requests # <<>> /\ requests' = Tail(requests) =>
          LET val == Head(requests).val
              k == val[0]
          IN  Head(requests).type = "editTable" /\ ReadAsMeant(val) /\ k \in DOMAIN billboard \ behind =>
                  \A f \in Head(requests).kept :
                      LET before == billboard[k][FieldColumn(f)] IN
                      billboard'[k][FieldColumn(f)] \in {before, Literal(AsText(before))}]_vars

(* A cell or field that shows text stands for the column: it was read from *)
(* it, or sent to it and read there as a literal.                          *)
Shows(text, column) == text = AsText(column) \/ column = Literal(text)

CaughtUp == pc = "open" /\ serverUp /\ requests = <<>>

(* Once the server has caught up a row of the window shows what billboard  *)
(* holds under its id (clientGUI.java:184-188, Server.java:114), wherever  *)
(* deletes have moved it.  The exceptions are all there are: cells typed   *)
(* over in place, and rows whose billboard was updated through another row *)
(* of the window, because a Delete moved the rows under rowToEdit or the   *)
(* id was typed by hand, both until the row itself is updated; and keys    *)
(* out of step since view was read.                                        *)
WindowShowsBillboard ==
    CaughtUp =>
        \A i \in DOMAIN shown, j \in 1 .. 4 :
            LET k == cells[shown[i]][0] IN
            k \in DOMAIN billboard \ behind /\ <<shown[i], j>> \notin astray =>
                Shows(AsText(cells[shown[i]][j]), billboard[k][ViewColumns[j + 1]])

(* Once the server has caught up, the rows gone from the window are gone   *)
(* from view and those still shown are still there, except by a Delete     *)
(* that took out one row and asked for another's id, as a second Delete    *)
(* without a selection does (clientGUI.java:98-99, 126-134).               *)
SameRowsGone ==
    CaughtUp =>
        \A r \in DOMAIN data :
            LET k == data[r][0]
                inView == \E i \in DOMAIN view : view[i]["BillboardID"] = k
            IN  IF \E i \in DOMAIN shown : shown[i] = r
                THEN inView \/ \E m \in mixed : m[2] = k
                ELSE ~inView \/ \E m \in mixed : m[1] = k

(***************************************************************************)
(* The strengthening that makes them inductive: what stands in the window, *)
(* in the fields and in the requests follows from the last edit under way  *)
(* of the same key, or from billboard when there is none.                  *)
(***************************************************************************)
EditsIn(q) == {n \in DOMAIN q : q[n].type = "editTable"}

(* When the requests of q before the n-th are carried out, column j of row *)
(* k, in rows now, is or was made from text.                               *)
InStep(q, rows, n, k, j, text) ==
    /\ \A m \in EditsIn(q) :
           /\ m < n /\ q[m].val[0] = k
           /\ \A p \in EditsIn(q) : m < p /\ p < n => q[p].val[0] # k
           => text = q[m].val[j]
    /\ k \in DOMAIN rows /\ (\A m \in EditsIn(q) : m < n => q[m].val[0] # k) =>
           Shows(text, rows[k][ViewColumns[j + 1]])

Trusted == [k \in DOMAIN billboard \ behind |-> billboard[k]]

WindowInStep ==
    \A r \in DOMAIN cells, j \in 1 .. 4 :
        <<r, j>> \notin astray =>
            InStep(requests, Trusted, Len(requests) + 1, cells[r][0], j, AsText(cells[r][j]))

FieldsInStep ==
    \A f \in kept :
        InStep(requests, Trusted, Len(requests) + 1, fields.EditBbID, Place(f), fields[f])

EditsInStep ==
    \A n \in EditsIn(requests) : \A f \in requests[n].kept :
        InStep(requests, Trusted, n, requests[n].val[0], Place(f), requests[n].val[Place(f)])

Shapes ==
    /\ requests \in Seq({requests[n] : n \in 1 .. Len(requests)})
    /\ pc # "open" => requests = <<>> /\ kept = {} /\ astray = {}
    /\ shown \in Seq(DOMAIN cells) /\ 0 \notin DOMAIN cells
    /\ \A r \in DOMAIN cells : DOMAIN cells[r] = 0 .. 7
    /\ fields = [f \in EditFields \cup {"EditBbID"} |-> fields[f]]
    /\ \A f \in EditFields : fields[f] # Null
    /\ kept \subseteq EditFields
    /\ idEditable => kept = {}
    /\ \A n \in EditsIn(requests) : requests[n].kept \subseteq EditFields

(* The window, the fields, the requests under way and billboard follow     *)
(* from each other (clientGUI.java:126-188, Server.java:98-117).           *)
CellsInv == CopyInStep /\ Shapes /\ WindowInStep /\ FieldsInStep /\ EditsInStep

(* The headings of clientGUI.java:89. *)
Headings == <<"BillboardID", "Billboard Name", "Information", "Message", "Url",
              "Scheduled Date", "Start time", "End time">>

(* A field of the edit tab is filled from the column of the same name: the *)
(* labels "Message" and "Information" (clientGUI.form:226,242) against the *)
(* headings of table2 (clientGUI.java:89).  Said of what Edit has just     *)
(* filled in: no cell typed over and no row gone.                          *)
HeadingNamesField ==
    kept = EditFields /\ inputs = 0 =>
        \A j \in 1 .. 8 :
            /\ Headings[j] = "Message" => fields.editMsg = cells[shown[rowToEdit]][j - 1]
            /\ Headings[j] = "Information" => fields.editInfo = cells[shown[rowToEdit]][j - 1]
=============================================================================
