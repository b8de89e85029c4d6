-------------------------- MODULE TableCellsProofs --------------------------
(***************************************************************************)
(* The proofs that showTable's loop copies the whole table and that the    *)
(* window, the fields, the requests under way and billboard keep in step,  *)
(* for any number of rows, inputs and sessions.                            *)
(***************************************************************************)
EXTENDS TableCells, TLAPS

USE CellsAssumption DEF CellsAssumption

(* A function on 1 .. n is a sequence of its values. *)
LEMMA RowsLength ==
    ASSUME NEW n \in Nat, NEW S, NEW f \in [1 .. n -> S]
    PROVE  Len(f) = n /\ DOMAIN f = 1 .. n /\ f \in Seq(S)
  OBVIOUS

(* A sequence is one of its own elements. *)
LEMMA OwnElements ==
    ASSUME NEW S, NEW s \in Seq(S)
    PROVE  s \in Seq({s[n] : n \in 1 .. Len(s)})
  OBVIOUS

LEMMA Appended ==
    ASSUME NEW S, NEW s \in Seq(S), NEW x
    PROVE  /\ Append(s, x) \in Seq(S \cup {x})
           /\ Len(s) \in Nat /\ DOMAIN s = 1 .. Len(s)
           /\ Len(Append(s, x)) = Len(s) + 1 /\ DOMAIN Append(s, x) = 1 .. Len(s) + 1
           /\ \A n \in 1 .. Len(s) : Append(s, x)[n] = s[n]
           /\ Append(s, x)[Len(s) + 1] = x
<1>1. s \in Seq(S \cup {x})
  OBVIOUS
<1> QED
  BY <1>1

LEMMA TakenOff ==
    ASSUME NEW S, NEW s \in Seq(S), s # <<>>
    PROVE  /\ Tail(s) \in Seq(S) /\ Head(s) = s[1]
           /\ Len(s) \in Nat \ {0} /\ DOMAIN s = 1 .. Len(s)
           /\ Len(Tail(s)) = Len(s) - 1 /\ DOMAIN Tail(s) = 1 .. Len(s) - 1
           /\ \A n \in 1 .. Len(s) - 1 : Tail(s)[n] = s[n + 1]
  OBVIOUS

(* A row is taken out of a sequence (clientGUI.java:134, Server.java:104). *)
LEMMA TakenOut ==
    ASSUME NEW S, NEW s \in Seq(S), NEW i \in 1 .. Len(s)
    PROVE  RemoveAt(s, i) \in Seq(S)
<1>1. SubSeq(s, 1, i - 1) \in Seq(S) /\ SubSeq(s, i + 1, Len(s)) \in Seq(S)
  OBVIOUS
<1>2. \A front, rest \in Seq(S) : front \o rest \in Seq(S)
  OBVIOUS
<1> QED
  BY <1>1, <1>2, Zenon DEF RemoveAt

LEMMA CopyInit == Init => CopyInStep
<1> SUFFICES ASSUME Init PROVE CopyInStep
  OBVIOUS
<1>1. PICK n \in 0 .. MaxRows : view = [k \in 1 .. n |-> ViewRow(k)]
  BY DEF Init
<1>2. view \in [1 .. n -> {ViewRow(k) : k \in 1 .. n}] /\ n \in Nat
  BY <1>1
<1>3. PICK S : view \in Seq(S)
  BY <1>2, RowsLength
<1>4. view \in Seq({view[i] : i \in 1 .. Len(view)})
  BY <1>3, OwnElements
<1> QED
  BY <1>4 DEF Init, CopyInStep

LEMMA CopyStep ==
    ASSUME CopyInStep, [Next]_vars
    PROVE  CopyInStep'
<1> USE DEF CopyInStep
<1>0. Len(view) \in Nat /\ DOMAIN view = 1 .. Len(view)
  OBVIOUS
<1>1. CASE CountRows
  <2>1. view' = view /\ rowcount' = Len(view) /\ cursor' = 0 /\ data' = <<>>
    BY <1>1 DEF CountRows
  <2> QED
    BY <2>1, <1>0
<1>2. CASE CopyRow
  <2> DEFINE Copies == {ReplyRow(view[i]) : i \in DOMAIN view}
  <2>1. /\ view' = view /\ pc' = "copy" /\ pc = "copy" /\ rowcount' = rowcount
        /\ cursor \in Nat /\ cursor' = cursor + 1 /\ cursor' \in 1 .. Len(view)
        /\ data' = Append(data, ReplyRow(view[cursor']))
    BY <1>0, <1>2 DEF CopyRow
  <2>2. ReplyRow(view[cursor']) \in Copies
    BY <1>0, <2>1
  <2>3. data \in Seq(Copies) /\ Len(data) = cursor
    BY <2>1
  <2>4. /\ data' \in Seq(Copies) /\ Len(data') = cursor'
        /\ \A i \in 1 .. cursor' :
               data'[i] = IF i = cursor' THEN ReplyRow(view[cursor']) ELSE data[i]
    <3> HIDE DEF Copies
    <3> QED
      BY <2>1, <2>2, <2>3
  <2>5. rowcount' = Len(view') /\ cursor' \in 0 .. Len(view')
    BY <1>0, <2>1
  <2>6. \A i \in 1 .. cursor' : data'[i] = ReplyRow(view[i])
    BY <2>1, <2>4
  <2>7. view' \in Seq({view'[i] : i \in 1 .. Len(view')})
    BY <2>1
  <2> QED
    BY <2>1, <2>4, <2>5, <2>6, <2>7, Zenon
<1>3. CASE ShowRows \/ UserStep \/ NewSession \/ ServerEnds \/ UpdateBillboard \/ UpdateMisread
  <2>1. view' = view /\ pc' # "copy"
    BY <1>3 DEF ShowRows, UserStep, SelectRow, TypeCell, TypeField, TypeEditID, PressDelete,
                PressEdit, PressUpdate, UpdateThrows, NewSession, ServerEnds, UpdateBillboard,
                UpdateMisread, AtRequest
  <2> QED
    BY <2>1, Zenon
<1>4. CASE DeleteFromView
  <2>1. pc' # "copy"
    BY <1>4 DEF DeleteFromView, AtRequest
  <2>2. PICK S : view' \in Seq(S)
    <3>1. ASSUME NEW i \in DOMAIN view, view' = RemoveAt(view, i)
          PROVE  view' \in Seq({view[n] : n \in 1 .. Len(view)})
      BY <1>0, <3>1, TakenOut
    <3> QED
      BY <1>4, <3>1 DEF DeleteFromView
  <2>3. view' \in Seq({view'[i] : i \in 1 .. Len(view')})
    BY <2>2, OwnElements
  <2> QED
    BY <2>1, <2>3
<1>5. CASE UNCHANGED vars
  <2>1. UNCHANGED <<pc, view, cursor, rowcount, data>>
    BY <1>5 DEF vars, replyVars
  <2> QED
    BY <2>1, Zenon
<1> QED
  BY <1>1, <1>2, <1>3, <1>4, <1>5 DEF Next

(* showTable answers with every row of view once, in order, each value     *)
(* from its column (Server.java:65-97).                                    *)
THEOREM WholeTableCorrect == Spec => []RepliesWholeTable
<1>1. CopyInStep => RepliesWholeTable
  <2> SUFFICES ASSUME CopyInStep, pc = "copy" PROVE RepliesWholeTable
    BY DEF RepliesWholeTable
  <2>0. Len(view) \in Nat /\ DOMAIN view = 1 .. Len(view)
    BY DEF CopyInStep
  <2>1. Len(data) < rowcount => cursor < Len(view)
    BY <2>0 DEF CopyInStep
  <2>2. ASSUME Len(data) = rowcount, NEW i \in DOMAIN view, NEW j \in 1 .. 8
        PROVE  data[i][j - 1] = view[i][ViewColumns[j]]
    <3>1. data[i] = ReplyRow(view[i])
      BY <2>0, <2>2 DEF CopyInStep
    <3>2. j - 1 \in 0 .. 7 /\ (j - 1) + 1 = j
      OBVIOUS
    <3> QED
      BY <3>1, <3>2 DEF ReplyRow
  <2>3. Len(data) = rowcount => Len(data) = Len(view)
    BY DEF CopyInStep
  <2> QED
    BY <2>1, <2>2, <2>3 DEF RepliesWholeTable
<1> QED
  BY CopyInit, CopyStep, <1>1, PTL DEF Spec
-----------------------------------------------------------------------------
(* The positions: field, place in the array of an edit, column.            *)
LEMMA Positions ==
    ASSUME NEW f \in EditFields
    PROVE  Place(f) \in 1 .. 4 /\ ViewColumns[Place(f) + 1] = FieldColumn(f)
<1>1. CASE f = "editBbName"
  BY <1>1 DEF Place, FieldColumn, ViewColumns
<1>2. CASE f = "editMsg"
  BY <1>2 DEF Place, FieldColumn, ViewColumns
<1>3. CASE f = "editInfo"
  BY <1>3 DEF Place, FieldColumn, ViewColumns
<1>4. CASE f = "editLink"
  BY <1>4 DEF Place, FieldColumn, ViewColumns
<1> QED
  BY <1>1, <1>2, <1>3, <1>4 DEF EditFields

(* What Edit puts into the fields (clientGUI.java:147-158). *)
LEMMA LoadedFields ==
    ASSUME NEW row
    PROVE  /\ Loaded(row) = [f \in EditFields \cup {"EditBbID"} |-> Loaded(row)[f]]
           /\ Loaded(row).EditBbID = row[0]
           /\ \A f \in EditFields : Loaded(row)[f] = AsText(row[Place(f)])
<1>1. Loaded(row).EditBbID = row[0]
  BY DEF Loaded
<1>2. Loaded(row) = [f \in EditFields \cup {"EditBbID"} |-> Loaded(row)[f]]
  BY DEF Loaded, EditFields
<1>3. ASSUME NEW f \in EditFields PROVE Loaded(row)[f] = AsText(row[Place(f)])
  <2>1. CASE f = "editBbName"
    BY <2>1 DEF Loaded, Place
  <2>2. CASE f = "editMsg"
    BY <2>2 DEF Loaded, Place
  <2>3. CASE f = "editInfo"
    BY <2>3 DEF Loaded, Place
  <2>4. CASE f = "editLink"
    BY <2>4 DEF Loaded, Place
  <2> QED
    BY <2>1, <2>2, <2>3, <2>4 DEF EditFields
<1> QED
  BY <1>1, <1>2, <1>3

(* What Update writes (clientGUI.java:169-180). *)
LEMMA WrittenValues ==
    ASSUME NEW g
    PROVE  /\ EditValues(g)[0] = g.EditBbID
           /\ \A f \in EditFields : EditValues(g)[Place(f)] = g[f]
<1>1. EditValues(g)[0] = g.EditBbID
  BY DEF EditValues
<1>2. ASSUME NEW f \in EditFields PROVE EditValues(g)[Place(f)] = g[f]
  <2>1. CASE f = "editBbName"
    BY <2>1 DEF EditValues, Place
  <2>2. CASE f = "editMsg"
    BY <2>2 DEF EditValues, Place
  <2>3. CASE f = "editInfo"
    BY <2>3 DEF EditValues, Place
  <2>4. CASE f = "editLink"
    BY <2>4 DEF EditValues, Place
  <2> QED
    BY <2>1, <2>2, <2>3, <2>4 DEF EditFields
<1> QED
  BY <1>1, <1>2

(* What the update statement sets (Server.java:114). *)
LEMMA UpdatedColumns ==
    ASSUME NEW val, NEW j \in 1 .. 4
    PROVE  /\ ViewColumns[j + 1] \in BillboardColumns
           /\ Updated(val)[ViewColumns[j + 1]] = Literal(val[j])
<1>1. CASE j = 1
  BY <1>1 DEF Updated, ViewColumns, BillboardColumns
<1>2. CASE j = 2
  BY <1>2 DEF Updated, ViewColumns, BillboardColumns
<1>3. CASE j = 3
  BY <1>3 DEF Updated, ViewColumns, BillboardColumns
<1>4. CASE j = 4
  BY <1>4 DEF Updated, ViewColumns, BillboardColumns
<1> QED
  BY <1>1, <1>2, <1>3, <1>4

LEMMA Texts == \A v : AsText(v) # Null /\ (v # Null => AsText(v) = v)
  BY DEF AsText
-----------------------------------------------------------------------------
(* A request written at the end changes nothing for those before it.       *)
LEMMA BeforeAppended ==
    ASSUME NEW S, NEW q \in Seq(S), NEW x, NEW rows, NEW n \in 1 .. Len(q) + 1,
           NEW k, NEW j, NEW text, InStep(q, rows, n, k, j, text)
    PROVE  InStep(Append(q, x), rows, n, k, j, text)
<1>1. PICK Q : Q = Append(q, x)
  OBVIOUS
<1>2. /\ Len(q) \in Nat /\ DOMAIN q = 1 .. Len(q) /\ DOMAIN Q = 1 .. Len(q) + 1
      /\ \A m \in 1 .. Len(q) : Q[m] = q[m]
  BY <1>1, Appended
<1>3. \A m : m \in EditsIn(Q) /\ m < n => m \in EditsIn(q) /\ Q[m] = q[m]
  BY <1>2 DEF EditsIn
<1>4. \A m : m \in EditsIn(q) => m \in EditsIn(Q) /\ Q[m] = q[m]
  BY <1>2 DEF EditsIn
<1>5. InStep(Q, rows, n, k, j, text)
  BY <1>3, <1>4 DEF InStep
<1> QED
  BY <1>1, <1>5

(* One that edits no row, or another row, leaves row k as it will be.      *)
LEMMA OtherAppended ==
    ASSUME NEW S, NEW q \in Seq(S), NEW x, NEW rows, NEW k, NEW j, NEW text,
           x.type # "editTable" \/ x.val[0] # k,
           InStep(q, rows, Len(q) + 1, k, j, text)
    PROVE  InStep(Append(q, x), rows, Len(q) + 2, k, j, text)
<1>1. PICK Q : Q = Append(q, x)
  OBVIOUS
<1>2. /\ Len(q) \in Nat /\ DOMAIN q = 1 .. Len(q) /\ DOMAIN Q = 1 .. Len(q) + 1
      /\ \A m \in 1 .. Len(q) : Q[m] = q[m]
      /\ Q[Len(q) + 1] = x
  BY <1>1, Appended
<1>3. \A m : m \in EditsIn(Q) /\ Q[m].val[0] = k =>
                 m \in EditsIn(q) /\ m < Len(q) + 1 /\ Q[m] = q[m]
  BY <1>2 DEF EditsIn
<1>4. \A m : m \in EditsIn(q) => /\ m \in EditsIn(Q) /\ Q[m] = q[m]
                                /\ m < Len(q) + 1 /\ m < Len(q) + 2
  BY <1>2 DEF EditsIn
<1>5. InStep(Q, rows, Len(q) + 2, k, j, text)
  BY <1>3, <1>4 DEF InStep
<1> QED
  BY <1>1, <1>5

(* One that edits row k is what the row will be made from.                 *)
LEMMA OwnAppended ==
    ASSUME NEW S, NEW q \in Seq(S), NEW x, NEW rows, NEW k, NEW j,
           x.type = "editTable", x.val[0] = k
    PROVE  InStep(Append(q, x), rows, Len(q) + 2, k, j, x.val[j])
<1>1. PICK Q, last : Q = Append(q, x) /\ last = Len(q) + 1
  OBVIOUS
<1>2. /\ Len(q) \in Nat /\ DOMAIN Q = 1 .. last /\ Q[last] = x
      /\ last \in 1 .. last /\ last < Len(q) + 2
  BY <1>1, Appended
<1>3. last \in EditsIn(Q)
  BY <1>2 DEF EditsIn
<1>4. \A m \in EditsIn(Q) : m = last \/ m < last
  BY <1>2 DEF EditsIn
<1>5. InStep(Q, rows, Len(q) + 2, k, j, x.val[j])
  BY <1>2, <1>3, <1>4 DEF InStep
<1> QED
  BY <1>1, <1>5

(* The first request is carried out: row k is made from it, or is no       *)
(* longer trusted, or is as it was.                                        *)
LEMMA FirstCarriedOut ==
    ASSUME NEW S, NEW q \in Seq(S), q # <<>>, NEW rows, NEW left, NEW n \in 2 .. Len(q) + 1,
           NEW k, NEW j, NEW text, InStep(q, rows, n, k, j, text),
           k \in DOMAIN left =>
               IF q[1].type = "editTable" /\ q[1].val[0] = k
               THEN left[k][ViewColumns[j + 1]] = Literal(q[1].val[j])
               ELSE /\ k \in DOMAIN rows
                    /\ left[k][ViewColumns[j + 1]] = rows[k][ViewColumns[j + 1]]
    PROVE  InStep(Tail(q), left, n - 1, k, j, text)
<1>1. PICK Q : Q = Tail(q)
  OBVIOUS
<1>2. /\ Len(q) \in Nat \ {0} /\ DOMAIN q = 1 .. Len(q) /\ DOMAIN Q = 1 .. Len(q) - 1
      /\ \A m \in 1 .. Len(q) - 1 : Q[m] = q[m + 1]
  BY <1>1, TakenOff
<1>3. \A m : m \in EditsIn(Q) <=> (m + 1 \in EditsIn(q) /\ m \in 1 .. Len(q) - 1)
  BY <1>2 DEF EditsIn
<1>4. \A m \in EditsIn(q) : m \in Nat /\ (m = 1 \/ (m - 1 \in EditsIn(Q) /\ Q[m - 1] = q[m]))
  <2> SUFFICES ASSUME NEW m \in EditsIn(q), m # 1
               PROVE  m \in Nat /\ m - 1 \in EditsIn(Q) /\ Q[m - 1] = q[m]
    BY <1>2 DEF EditsIn
  <2>1. m \in 1 .. Len(q) /\ m - 1 \in 1 .. Len(q) - 1 /\ (m - 1) + 1 = m
    BY <1>2 DEF EditsIn
  <2> QED
    BY <1>2, <1>3, <2>1
<1>5. ASSUME NEW m \in EditsIn(Q), m < n - 1, Q[m].val[0] = k,
             \A p \in EditsIn(Q) : m < p /\ p < n - 1 => Q[p].val[0] # k
      PROVE  text = Q[m].val[j]
  <2>1. m + 1 \in EditsIn(q) /\ m + 1 < n /\ Q[m] = q[m + 1] /\ m \in Nat
    BY <1>2, <1>3, <1>5
  <2>2. ASSUME NEW p \in EditsIn(q), m + 1 < p, p < n PROVE q[p].val[0] # k
    <3>1. p \in Nat /\ p # 1 /\ n \in Nat
      BY <1>2, <1>4, <2>1, <2>2
    <3>2. p - 1 \in EditsIn(Q) /\ Q[p - 1] = q[p]
      BY <1>4, <3>1
    <3>3. m < p - 1 /\ p - 1 < n - 1
      BY <2>1, <2>2, <3>1
    <3> QED
      BY <1>5, <3>2, <3>3
  <2> QED
    BY <2>1, <2>2, <1>5 DEF InStep
<1>6. ASSUME k \in DOMAIN left, \A m \in EditsIn(Q) : m < n - 1 => Q[m].val[0] # k
      PROVE  Shows(text, left[k][ViewColumns[j + 1]])
  <2>1. ASSUME NEW m \in EditsIn(q), m # 1, m < n PROVE q[m].val[0] # k
    BY <1>4, <1>6, <2>1
  <2>2. CASE q[1].type = "editTable" /\ q[1].val[0] = k
    <3>1. 1 \in EditsIn(q) /\ 1 < n
      BY <1>2, <2>2 DEF EditsIn
    <3>2. \A p \in EditsIn(q) : 1 < p /\ p < n => q[p].val[0] # k
      BY <2>1
    <3>3. text = q[1].val[j]
      BY <2>2, <3>1, <3>2 DEF InStep
    <3> QED
      BY <1>6, <2>2, <3>3 DEF Shows
  <2>3. CASE ~(q[1].type = "editTable" /\ q[1].val[0] = k)
    <3>1. \A m \in EditsIn(q) : m < n => q[m].val[0] # k
      BY <2>1, <2>3 DEF EditsIn
    <3> QED
      BY <1>6, <2>3, <3>1 DEF InStep
  <2> QED
    BY <2>2, <2>3
<1>7. InStep(Q, left, n - 1, k, j, text)
  BY <1>5, <1>6 DEF InStep
<1> QED
  BY <1>1, <1>7
-----------------------------------------------------------------------------
LEMMA CellsInit == Init => CellsInv
<1> SUFFICES ASSUME Init PROVE CellsInv
  OBVIOUS
<1>0. /\ requests = <<>> /\ kept = {} /\ astray = {} /\ shown = <<>> /\ cells = <<>>
      /\ fields = NoFields
  BY DEF Init
<1>1. Shapes
  BY <1>0 DEF Shapes, NoFields, EditsIn
<1>2. WindowInStep
  BY <1>0 DEF WindowInStep
<1>3. FieldsInStep /\ EditsInStep
  BY <1>0 DEF FieldsInStep, EditsInStep, EditsIn
<1> QED
  BY <1>1, <1>2, <1>3, CopyInit DEF CellsInv

(* Nothing that bears on billboard or the requests happens.                *)
LEMMA SameFollows ==
    ASSUME UNCHANGED <<requests, billboard, behind>>
    PROVE  /\ Len(requests)' = Len(requests) /\ Trusted' = Trusted
           /\ \A n, k, j, text : InStep(requests, Trusted, n, k, j, text)
                                     => InStep(requests', Trusted', n, k, j, text)
<1>1. Trusted' = Trusted
  BY DEF Trusted
<1> QED
  BY <1>1

(* A request is written.                                                   *)
LEMMA WrittenFollows ==
    ASSUME Shapes, UNCHANGED <<billboard, behind>>, NEW x, requests' = Append(requests, x)
    PROVE  /\ requests' \in Seq({requests'[n] : n \in 1 .. Len(requests')})
           /\ Len(requests') + 1 = Len(requests) + 2 /\ Len(requests) \in Nat
           /\ \A n \in EditsIn(requests') :
                  \/ n \in EditsIn(requests) /\ requests'[n] = requests[n]
                  \/ n = Len(requests) + 1 /\ requests'[n] = x /\ x.type = "editTable"
           /\ \A n \in 1 .. Len(requests) + 1 : \A k, j, text :
                  InStep(requests, Trusted, n, k, j, text)
                      => InStep(requests', Trusted', n, k, j, text)
           /\ \A k, j, text :
                  /\ x.type # "editTable" \/ x.val[0] # k
                  /\ InStep(requests, Trusted, Len(requests) + 1, k, j, text)
                  => InStep(requests', Trusted', Len(requests') + 1, k, j, text)
           /\ \A j : x.type = "editTable" =>
                  InStep(requests', Trusted', Len(requests') + 1, x.val[0], j, x.val[j])
<1>1. PICK S : requests \in Seq(S)
  BY DEF Shapes
<1>2. Trusted' = Trusted
  BY DEF Trusted
<1>3. /\ requests' \in Seq(S \cup {x}) /\ Len(requests) \in Nat
      /\ DOMAIN requests = 1 .. Len(requests)
      /\ Len(requests') = Len(requests) + 1 /\ DOMAIN requests' = 1 .. Len(requests) + 1
      /\ \A n \in 1 .. Len(requests) : requests'[n] = requests[n]
      /\ requests'[Len(requests) + 1] = x
  BY <1>1, Appended
<1>4. requests' \in Seq({requests'[n] : n \in 1 .. Len(requests')})
  BY <1>3, OwnElements
<1>5. Len(requests') + 1 = Len(requests) + 2
  BY <1>3
<1>6. ASSUME NEW n \in EditsIn(requests')
      PROVE  \/ n \in EditsIn(requests) /\ requests'[n] = requests[n]
             \/ n = Len(requests) + 1 /\ requests'[n] = x /\ x.type = "editTable"
  BY <1>3 DEF EditsIn
<1>7. \A n \in 1 .. Len(requests) + 1 : \A k, j, text :
          InStep(requests, Trusted, n, k, j, text) => InStep(requests', Trusted', n, k, j, text)
  BY <1>1, <1>2, BeforeAppended, Zenon
<1>8. \A k, j, text :
          /\ x.type # "editTable" \/ x.val[0] # k
          /\ InStep(requests, Trusted, Len(requests) + 1, k, j, text)
          => InStep(requests', Trusted', Len(requests') + 1, k, j, text)
  BY <1>1, <1>2, <1>5, OtherAppended, Zenon
<1>9. \A j : x.type = "editTable" =>
          InStep(requests', Trusted', Len(requests') + 1, x.val[0], j, x.val[j])
  BY <1>1, <1>2, <1>5, OwnAppended, Zenon
<1> QED
  BY <1>3, <1>4, <1>5, <1>6, <1>7, <1>8, <1>9, Zenon

(* The first request is carried out, and changes of the trusted rows of    *)
(* billboard only the one it edits.                                        *)
LEMMA CarriedOutFollows ==
    ASSUME Shapes, requests # <<>>, requests' = Tail(requests),
           \A k \in DOMAIN Trusted', j \in 1 .. 4 :
               IF requests[1].type = "editTable" /\ requests[1].val[0] = k
               THEN Trusted'[k][ViewColumns[j + 1]] = Literal(requests[1].val[j])
               ELSE /\ k \in DOMAIN Trusted
                    /\ Trusted'[k][ViewColumns[j + 1]] = Trusted[k][ViewColumns[j + 1]]
    PROVE  /\ requests' \in Seq({requests'[n] : n \in 1 .. Len(requests')})
           /\ \A n \in EditsIn(requests') :
                  n + 1 \in EditsIn(requests) /\ requests'[n] = requests[n + 1]
           /\ \A n \in EditsIn(requests'), j \in 1 .. 4 : \A k, text :
                  InStep(requests, Trusted, n + 1, k, j, text)
                      => InStep(requests', Trusted', n, k, j, text)
           /\ \A j \in 1 .. 4 : \A k, text :
                  InStep(requests, Trusted, Len(requests) + 1, k, j, text)
                      => InStep(requests', Trusted', Len(requests') + 1, k, j, text)
<1>1. PICK S : requests \in Seq(S)
  BY DEF Shapes
<1>2. /\ requests' \in Seq(S) /\ Len(requests) \in Nat \ {0}
      /\ DOMAIN requests = 1 .. Len(requests)
      /\ Len(requests') = Len(requests) - 1 /\ DOMAIN requests' = 1 .. Len(requests) - 1
      /\ \A n \in 1 .. Len(requests) - 1 : requests'[n] = requests[n + 1]
  BY <1>1, TakenOff
<1>3. requests' \in Seq({requests'[n] : n \in 1 .. Len(requests')})
  <2>1. PICK q \in Seq(S) : q = requests'
    BY <1>2
  <2>2. q \in Seq({q[n] : n \in 1 .. Len(q)})
    BY OwnElements
  <2> QED
    BY <2>1, <2>2
<1>4. ASSUME NEW n \in EditsIn(requests')
      PROVE  /\ n + 1 \in EditsIn(requests) /\ requests'[n] = requests[n + 1]
             /\ n + 1 \in 2 .. Len(requests) + 1 /\ (n + 1) - 1 = n
  BY <1>2 DEF EditsIn
<1>5. ASSUME NEW n \in 2 .. Len(requests) + 1, NEW k, NEW j \in 1 .. 4, NEW text,
             InStep(requests, Trusted, n, k, j, text)
      PROVE  InStep(requests', Trusted', n - 1, k, j, text)
  BY <1>1, <1>5, FirstCarriedOut, Zenon
<1>6. /\ Len(requests) + 1 \in 2 .. Len(requests) + 1
      /\ (Len(requests) + 1) - 1 = Len(requests') + 1
  BY <1>2
<1>7. ASSUME NEW n \in EditsIn(requests'), NEW k, NEW j \in 1 .. 4, NEW text,
             InStep(requests, Trusted, n + 1, k, j, text)
      PROVE  InStep(requests', Trusted', n, k, j, text)
  <2>1. InStep(requests', Trusted', (n + 1) - 1, k, j, text)
    BY <1>4, <1>5, <1>7, Zenon
  <2> QED
    BY <1>4, <2>1, Zenon
<1>8. \A j \in 1 .. 4 : \A k, text :
          InStep(requests, Trusted, Len(requests) + 1, k, j, text)
              => InStep(requests', Trusted', Len(requests') + 1, k, j, text)
  BY <1>5, <1>6, Zenon
<1> QED
  BY <1>3, <1>4, <1>7, <1>8, Zenon

(* What the database makes of the three kinds of step that carry out a     *)
(* request (Server.java:98-117).                                           *)
LEMMA DatabaseFollows ==
    ASSUME Shapes, UpdateBillboard \/ UpdateMisread \/ DeleteFromView
    PROVE  /\ requests # <<>> /\ requests' = Tail(requests)
           /\ \A k \in DOMAIN Trusted', j \in 1 .. 4 :
                  IF requests[1].type = "editTable" /\ requests[1].val[0] = k
                  THEN Trusted'[k][ViewColumns[j + 1]] = Literal(requests[1].val[j])
                  ELSE /\ k \in DOMAIN Trusted
                       /\ Trusted'[k][ViewColumns[j + 1]] = Trusted[k][ViewColumns[j + 1]]
<1>0. requests # <<>> /\ requests' = Tail(requests)
  BY DEF UpdateBillboard, UpdateMisread, DeleteFromView, AtRequest
<1>1. Head(requests) = requests[1]
  BY <1>0, TakenOff DEF Shapes
<1> SUFFICES ASSUME NEW k \in DOMAIN Trusted', NEW j \in 1 .. 4
             PROVE  IF requests[1].type = "editTable" /\ requests[1].val[0] = k
                    THEN Trusted'[k][ViewColumns[j + 1]] = Literal(requests[1].val[j])
                    ELSE /\ k \in DOMAIN Trusted
                         /\ Trusted'[k][ViewColumns[j + 1]] = Trusted[k][ViewColumns[j + 1]]
  BY <1>0
<1>2. k \in DOMAIN billboard' \ behind' /\ Trusted'[k] = billboard'[k]
  BY DEF Trusted
<1>3. \A i \in DOMAIN billboard \ behind : i \in DOMAIN Trusted /\ Trusted[i] = billboard[i]
  BY DEF Trusted
<1>4. ViewColumns[j + 1] \in BillboardColumns
  BY UpdatedColumns
<1>5. CASE UpdateBillboard
  <2>1. requests[1].type = "editTable"
    BY <1>1, <1>5 DEF UpdateBillboard, AtRequest
  <2>2. PICK val : val = requests[1].val
    OBVIOUS
  <2>3. /\ billboard' = [i \in DOMAIN billboard |-> IF i = val[0] THEN Updated(val) ELSE billboard[i]]
        /\ behind' = behind \ ({val[0]} \cap DOMAIN billboard)
    BY <1>1, <1>5, <2>2 DEF UpdateBillboard
  <2>4. CASE val[0] = k
    <3>1. Trusted'[k] = Updated(val)
      BY <1>2, <2>3, <2>4
    <3> QED
      BY <2>1, <2>2, <2>4, <3>1, UpdatedColumns
  <2>5. CASE val[0] # k
    <3>1. k \in DOMAIN billboard \ behind /\ billboard'[k] = billboard[k]
      BY <1>2, <2>3, <2>5
    <3> QED
      BY <1>2, <1>3, <2>2, <2>5, <3>1
  <2> QED
    BY <2>4, <2>5
<1>6. CASE UpdateMisread
  <2>1. PICK keys \in SUBSET DOMAIN billboard, columns \in SUBSET BillboardColumns, text \in Typed :
            /\ billboard' = [i \in DOMAIN billboard |->
                   [c \in BillboardColumns |->
                       IF i \in keys /\ c \in columns THEN text ELSE billboard[i][c]]]
            /\ behind' = behind \cup keys \cup {Head(requests).val[0]}
    BY <1>6, Zenon DEF UpdateMisread
  <2>2. k \in DOMAIN billboard \ behind /\ k \notin keys /\ requests[1].val[0] # k
    BY <1>1, <1>2, <2>1
  <2>3. billboard'[k][ViewColumns[j + 1]] = billboard[k][ViewColumns[j + 1]]
    BY <1>4, <2>1, <2>2
  <2> QED
    BY <1>2, <1>3, <2>2, <2>3
<1>7. CASE DeleteFromView
  <2>1. requests[1].type # "editTable" /\ UNCHANGED <<billboard, behind>>
    BY <1>1, <1>7 DEF DeleteFromView, AtRequest, historyVars
  <2> QED
    BY <1>2, <1>3, <2>1
<1> QED
  BY <1>5, <1>6, <1>7
-----------------------------------------------------------------------------
FollowInv == Shapes /\ WindowInStep /\ FieldsInStep /\ EditsInStep

(* A step that leaves the table and the requests alone and puts nothing    *)
(* into the fields.                                                        *)
LEMMA QuietStep ==
    ASSUME FollowInv,
           \/ CountRows \/ CopyRow \/ UpdateThrows \/ ServerEnds \/ UNCHANGED vars
           \/ \E i \in DOMAIN shown : SelectRow(i)
           \/ \E f \in EditFields, text \in Typed : TypeField(f, text)
           \/ \E id \in TypedIds : TypeEditID(id)
    PROVE  FollowInv'
<1> USE DEF FollowInv
<1>0. /\ UNCHANGED <<requests, billboard, behind, shown, cells, astray, idEditable>>
      /\ pc' # "open" => pc # "open"
  BY DEF CountRows, CopyRow, UpdateThrows, ServerEnds, SelectRow, TypeField, TypeEditID, vars,
         replyVars, tableVars, fieldVars, historyVars
<1>1. /\ fields' = [f \in EditFields \cup {"EditBbID"} |-> fields'[f]]
      /\ \A f \in EditFields : fields'[f] # Null
      /\ kept' \subseteq kept
      /\ kept' # {} => fields'.EditBbID = fields.EditBbID
      /\ \A f \in kept' : fields'[f] = fields[f]
  <2>1. CASE UNCHANGED <<fields, kept>>
    BY <2>1 DEF Shapes
  <2>2. CASE UpdateThrows
    BY <2>2 DEF UpdateThrows, ClearFields, NoFields
  <2>3. CASE \E f \in EditFields, text \in Typed : TypeField(f, text)
    <3>1. PICK f \in EditFields, text \in Typed :
              fields' = [fields EXCEPT ![f] = text] /\ kept' = kept \ {f}
      BY <2>3 DEF TypeField
    <3>2. f # "EditBbID" /\ text # Null
      BY DEF EditFields
    <3> QED
      BY <3>1, <3>2 DEF Shapes
  <2>4. CASE \E id \in TypedIds : TypeEditID(id)
    <3>1. PICK id \in TypedIds : fields' = [fields EXCEPT !.EditBbID = id]
      BY <2>4 DEF TypeEditID
    <3>2. kept' = {}
      BY <2>4 DEF TypeEditID, historyVars, Shapes
    <3>3. "EditBbID" \notin EditFields
      BY DEF EditFields
    <3> QED
      BY <3>1, <3>2, <3>3 DEF Shapes
  <2> QED
    BY <2>1, <2>2, <2>3, <2>4
    DEF CountRows, CopyRow, ServerEnds, SelectRow, vars, fieldVars, historyVars
<1>2. Shapes'
  BY <1>0, <1>1 DEF Shapes
<1>3. /\ Len(requests)' = Len(requests) /\ Trusted' = Trusted
  BY <1>0, SameFollows
<1>4. WindowInStep'
  BY <1>0, <1>3 DEF WindowInStep
<1>5. FieldsInStep'
  BY <1>0, <1>1, <1>3 DEF FieldsInStep
<1>6. EditsInStep'
  BY <1>0, <1>3 DEF EditsInStep
<1> QED
  BY <1>2, <1>4, <1>5, <1>6

(* Edit: the fields take over what the cells of the row follow from.       *)
LEMMA EditStep ==
    ASSUME FollowInv, PressEdit
    PROVE  FollowInv'
<1> USE DEF FollowInv
<1>0. /\ UNCHANGED <<requests, billboard, behind, shown, cells, astray, pc>>
      /\ fields' = Loaded(cells[Selected]) /\ idEditable' = FALSE /\ pc = "open"
      /\ kept' = {f \in EditFields : <<Selected, Place(f)>> \notin astray}
      /\ selectedRow \in DOMAIN shown
  BY DEF PressEdit, tableVars
<1>1. Selected \in DOMAIN cells
  BY <1>0 DEF Selected, Shapes
<1>2. /\ fields' = [f \in EditFields \cup {"EditBbID"} |-> fields'[f]]
      /\ fields'.EditBbID = cells[Selected][0]
      /\ \A f \in EditFields : fields'[f] = AsText(cells[Selected][Place(f)])
  BY <1>0, LoadedFields
<1>3. Shapes'
  BY <1>0, <1>2, Texts DEF Shapes
<1>4. /\ Len(requests)' = Len(requests) /\ Trusted' = Trusted
  BY <1>0, SameFollows
<1>5. WindowInStep'
  BY <1>0, <1>4 DEF WindowInStep
<1>6. FieldsInStep'
  <2> SUFFICES ASSUME NEW f \in kept'
               PROVE  InStep(requests', Trusted', Len(requests') + 1, fields'.EditBbID,
                             Place(f), fields'[f])
    BY DEF FieldsInStep
  <2>1. f \in EditFields /\ Place(f) \in 1 .. 4 /\ <<Selected, Place(f)>> \notin astray
    BY <1>0, Positions
  <2>2. InStep(requests, Trusted, Len(requests) + 1, cells[Selected][0], Place(f),
               AsText(cells[Selected][Place(f)]))
    BY <1>1, <2>1 DEF WindowInStep
  <2> QED
    BY <1>0, <1>2, <1>4, <2>1, <2>2
<1>7. EditsInStep'
  BY <1>0, <1>4 DEF EditsInStep
<1> QED
  BY <1>3, <1>5, <1>6, <1>7

(* A cell is typed over: its row says nothing about that column any more,  *)
(* or about any when it is the id.                                         *)
LEMMA TypeCellStep ==
    ASSUME FollowInv, NEW i \in DOMAIN shown, NEW c \in 0 .. 4, NEW v, TypeCell(i, c, v)
    PROVE  FollowInv'
<1> USE DEF FollowInv
<1>0. /\ UNCHANGED <<requests, billboard, behind, shown, pc, fields, kept, idEditable>>
      /\ pc = "open"
      /\ cells' = [cells EXCEPT ![shown[i]] = [@ EXCEPT ![c] = v]]
      /\ astray' = astray \cup {<<shown[i], d>> : d \in IF c = 0 THEN 1 .. 4 ELSE {c}}
  BY DEF TypeCell, fieldVars
<1>1. DOMAIN cells' = DOMAIN cells
  BY <1>0
<1>2. \A r \in DOMAIN cells : DOMAIN cells'[r] = 0 .. 7
  BY <1>0 DEF Shapes
<1>3. Shapes'
  BY <1>0, <1>1, <1>2 DEF Shapes
<1>4. /\ Len(requests)' = Len(requests) /\ Trusted' = Trusted
  BY <1>0, SameFollows
<1>5. ASSUME NEW r \in DOMAIN cells, NEW j \in 1 .. 4, <<r, j>> \notin astray'
      PROVE  cells'[r][0] = cells[r][0] /\ cells'[r][j] = cells[r][j] /\ <<r, j>> \notin astray
  <2>1. <<r, j>> \notin astray
    BY <1>0, <1>5
  <2>2. CASE r # shown[i]
    BY <1>0, <2>1, <2>2
  <2>3. CASE r = shown[i]
    <3>1. c # 0 /\ c # j
      BY <1>0, <1>5, <2>3
    <3>2. cells'[r] = [cells[r] EXCEPT ![c] = v] /\ DOMAIN cells[r] = 0 .. 7
      BY <1>0, <2>3 DEF Shapes
    <3> QED
      BY <2>1, <3>1, <3>2
  <2> QED
    BY <2>2, <2>3
<1>6. WindowInStep'
  BY <1>0, <1>1, <1>4, <1>5 DEF WindowInStep
<1>7. FieldsInStep' /\ EditsInStep'
  BY <1>0, <1>4 DEF FieldsInStep, EditsInStep
<1> QED
  BY <1>3, <1>6, <1>7

(* Delete: a request that edits nothing, and a row less in the window.     *)
LEMMA DeleteStep ==
    ASSUME FollowInv, PressDelete
    PROVE  FollowInv'
<1> USE DEF FollowInv
<1>0. /\ UNCHANGED <<billboard, behind, cells, astray, pc, fields, kept, idEditable>>
      /\ pc = "open"
      /\ shown' = IF selectedRow \in DOMAIN shown THEN RemoveAt(shown, selectedRow) ELSE shown
  BY DEF PressDelete, fieldVars
<1>1. PICK x : requests' = Append(requests, x) /\ x.type = "delete"
  BY DEF PressDelete, DeleteRequest
<1>2. /\ requests' \in Seq({requests'[n] : n \in 1 .. Len(requests')})
      /\ \A n \in EditsIn(requests') : n \in EditsIn(requests) /\ requests'[n] = requests[n]
      /\ \A n \in 1 .. Len(requests) + 1 : \A k, j, text :
             InStep(requests, Trusted, n, k, j, text)
                 => InStep(requests', Trusted', n, k, j, text)
      /\ \A k, j, text : InStep(requests, Trusted, Len(requests) + 1, k, j, text)
                             => InStep(requests', Trusted', Len(requests') + 1, k, j, text)
  <2>1. x.type # "editTable"
    BY <1>1
  <2> QED
    BY <1>0, <1>1, <2>1, WrittenFollows, Zenon
<1>3. \A n \in EditsIn(requests) : n \in 1 .. Len(requests) + 1
  <2>1. PICK S : requests \in Seq(S)
    BY DEF Shapes
  <2> QED
    BY <2>1 DEF EditsIn
<1>4. shown' \in Seq(DOMAIN cells)
  <2>1. shown \in Seq(DOMAIN cells) /\ DOMAIN shown = 1 .. Len(shown)
    BY DEF Shapes
  <2> QED
    BY <1>0, <2>1, TakenOut
<1>5. Shapes'
  BY <1>0, <1>2, <1>4 DEF Shapes
<1>6. WindowInStep'
  BY <1>0, <1>2, Zenon DEF WindowInStep
<1>7. FieldsInStep'
  BY <1>0, <1>2, Zenon DEF FieldsInStep
<1>8. EditsInStep'
  BY <1>2, <1>3 DEF EditsInStep
<1> QED
  BY <1>5, <1>6, <1>7, <1>8

(* Update: what it writes is what its row of the window shows, or the      *)
(* fields that stay; rows with the same id go astray; other rows are not   *)
(* concerned.                                                              *)
LEMMA UpdateStep ==
    ASSUME FollowInv, PressUpdate
    PROVE  FollowInv'
<1> USE DEF FollowInv
<1>0. /\ UNCHANGED <<billboard, behind, shown, pc, idEditable>> /\ pc = "open"
      /\ requests' = Append(requests, EditRequest)
  BY DEF PressUpdate
<1>1. PICK x : x = EditRequest
  OBVIOUS
<1>2. /\ x.type = "editTable" /\ x.kept = kept
      /\ x.val = EditValues(fields) /\ x.val[0] = fields.EditBbID
      /\ \A f \in EditFields : x.val[Place(f)] = fields[f]
  BY <1>1, WrittenValues DEF EditRequest
<1>3. \A j \in 1 .. 4 : x.val[j] # Null
  <2>1. \A j \in 1 .. 4 : \E f \in EditFields : j = Place(f)
    BY DEF EditFields, Place
  <2> QED
    BY <1>2, <2>1 DEF Shapes
<1>4. /\ requests' \in Seq({requests'[n] : n \in 1 .. Len(requests')})
      /\ Len(requests) \in Nat
      /\ \A n \in EditsIn(requests') :
             \/ n \in EditsIn(requests) /\ requests'[n] = requests[n]
             \/ n = Len(requests) + 1 /\ requests'[n] = x
      /\ \A n \in 1 .. Len(requests) + 1 : \A k, j, text :
             InStep(requests, Trusted, n, k, j, text)
                 => InStep(requests', Trusted', n, k, j, text)
      /\ \A k, j, text :
             /\ x.val[0] # k
             /\ InStep(requests, Trusted, Len(requests) + 1, k, j, text)
             => InStep(requests', Trusted', Len(requests') + 1, k, j, text)
      /\ \A j : InStep(requests', Trusted', Len(requests') + 1, x.val[0], j, x.val[j])
  BY <1>0, <1>1, <1>2, WrittenFollows, Zenon
<1>5. \A n \in EditsIn(requests) : n \in 1 .. Len(requests) + 1
  <2>1. PICK S : requests \in Seq(S)
    BY DEF Shapes
  <2> QED
    BY <2>1 DEF EditsIn
<1>6. EditsInStep'
  <2> SUFFICES ASSUME NEW n \in EditsIn(requests'), NEW f \in requests'[n].kept
               PROVE  InStep(requests', Trusted', n, requests'[n].val[0], Place(f),
                             requests'[n].val[Place(f)])
    BY Zenon DEF EditsInStep
  <2>1. CASE n \in EditsIn(requests) /\ requests'[n] = requests[n]
    BY <1>4, <1>5, <2>1 DEF EditsInStep
  <2>2. CASE n = Len(requests) + 1 /\ requests'[n] = x
    <3>1. f \in kept /\ f \in EditFields
      BY <1>2, <2>2 DEF Shapes
    <3>2. InStep(requests, Trusted, n, x.val[0], Place(f), x.val[Place(f)])
      BY <1>2, <2>2, <3>1 DEF FieldsInStep
    <3>3. n \in 1 .. Len(requests) + 1
      BY <1>4, <2>2
    <3> QED
      BY <1>4, <2>2, <3>2, <3>3, Zenon
  <2> QED
    BY <1>4, <2>1, <2>2
<1>7. \A n \in EditsIn(requests') : requests'[n].kept \subseteq EditFields
  BY <1>2, <1>4 DEF Shapes
<1>8. CASE rowToEdit \in DOMAIN shown
  <2>1. PICK row : row = shown[rowToEdit]
    OBVIOUS
  <2>2. row \in DOMAIN cells
    BY <1>8, <2>1 DEF Shapes
  <2>3. /\ cells' = [cells EXCEPT ![row] =
                        [j \in 0 .. 7 |-> IF j <= 4 THEN EditValues(fields)[j] ELSE @[j]]]
        /\ astray' = (astray \ ({row} \X (1 .. 4))) \cup OtherRows(row)
        /\ fields' = NoFields /\ kept' = {}
    BY <1>8, <2>1 DEF PressUpdate, Overwrite, ClearFields
  <2>4. /\ DOMAIN cells' = DOMAIN cells /\ DOMAIN cells'[row] = 0 .. 7
        /\ \A j \in 0 .. 4 : cells'[row][j] = x.val[j]
        /\ \A r \in DOMAIN cells : r # row => cells'[r] = cells[r]
    BY <1>2, <2>2, <2>3
  <2>5. Shapes'
    BY <1>0, <1>4, <1>7, <2>3, <2>4 DEF Shapes, NoFields
  <2>6. WindowInStep'
    <3> SUFFICES ASSUME NEW r \in DOMAIN cells, NEW j \in 1 .. 4, <<r, j>> \notin astray'
                 PROVE  InStep(requests', Trusted', Len(requests') + 1, cells'[r][0], j,
                               AsText(cells'[r][j]))
      BY <2>4 DEF WindowInStep
    <3>1. CASE r = row
      <4>1. cells'[r][0] = x.val[0] /\ cells'[r][j] = x.val[j]
        BY <2>4, <3>1
      <4>2. AsText(x.val[j]) = x.val[j]
        BY <1>3, Texts
      <4> QED
        BY <1>4, <4>1, <4>2
    <3>2. CASE r # row
      <4>1. <<r, j>> \notin astray /\ cells[r][0] # x.val[0]
        BY <1>2, <2>3, <3>2 DEF OtherRows
      <4>2. InStep(requests, Trusted, Len(requests) + 1, cells[r][0], j, AsText(cells[r][j]))
        BY <4>1 DEF WindowInStep
      <4> QED
        BY <1>4, <2>4, <3>2, <4>1, <4>2
    <3> QED
      BY <3>1, <3>2
  <2>7. FieldsInStep'
    BY <2>3 DEF FieldsInStep
  <2> QED
    BY <1>6, <2>5, <2>6, <2>7
<1>9. CASE rowToEdit \notin DOMAIN shown
  <2>1. UNCHANGED <<cells, fields, kept>> /\ astray' = astray \cup OtherRows(0)
    BY <1>9 DEF PressUpdate
  <2>2. Shapes'
    BY <1>0, <1>4, <1>7, <2>1 DEF Shapes
  <2>3. WindowInStep'
    <3> SUFFICES ASSUME NEW r \in DOMAIN cells, NEW j \in 1 .. 4, <<r, j>> \notin astray'
                 PROVE  InStep(requests', Trusted', Len(requests') + 1, cells[r][0], j,
                               AsText(cells[r][j]))
      BY <2>1 DEF WindowInStep
    <3>1. r # 0
      BY DEF Shapes
    <3>2. <<r, j>> \notin astray /\ cells[r][0] # x.val[0]
      BY <1>2, <2>1, <3>1 DEF OtherRows
    <3>3. InStep(requests, Trusted, Len(requests) + 1, cells[r][0], j, AsText(cells[r][j]))
      BY <3>2 DEF WindowInStep
    <3> QED
      BY <1>4, <3>2, <3>3
  <2>4. FieldsInStep'
    <3> SUFFICES ASSUME NEW f \in kept
                 PROVE  InStep(requests', Trusted', Len(requests') + 1, fields.EditBbID,
                               Place(f), fields[f])
      BY <2>1 DEF FieldsInStep
    <3>1. fields.EditBbID = x.val[0] /\ fields[f] = x.val[Place(f)]
      BY <1>2 DEF Shapes
    <3> QED
      BY <1>4, <3>1
  <2> QED
    BY <1>6, <2>2, <2>3, <2>4
<1> QED
  BY <1>8, <1>9

(* A request is carried out.                                               *)
LEMMA DatabaseStep ==
    ASSUME FollowInv, UpdateBillboard \/ UpdateMisread \/ DeleteFromView
    PROVE  FollowInv'
<1> USE DEF FollowInv
<1>0. /\ UNCHANGED <<cells, shown, astray, pc, fields, kept, idEditable>> /\ pc = "open"
  BY DEF UpdateBillboard, UpdateMisread, DeleteFromView, AtRequest, tableVars, fieldVars,
         historyVars
<1>1. /\ requests' \in Seq({requests'[n] : n \in 1 .. Len(requests')})
      /\ \A n \in EditsIn(requests') :
             n + 1 \in EditsIn(requests) /\ requests'[n] = requests[n + 1]
      /\ \A n \in EditsIn(requests'), j \in 1 .. 4 : \A k, text :
             InStep(requests, Trusted, n + 1, k, j, text)
                 => InStep(requests', Trusted', n, k, j, text)
      /\ \A j \in 1 .. 4 : \A k, text :
             InStep(requests, Trusted, Len(requests) + 1, k, j, text)
                 => InStep(requests', Trusted', Len(requests') + 1, k, j, text)
  BY DatabaseFollows, CarriedOutFollows, Zenon
<1>2. Shapes'
  BY <1>0, <1>1 DEF Shapes
<1>3. WindowInStep'
  <2> SUFFICES ASSUME NEW r \in DOMAIN cells, NEW j \in 1 .. 4, <<r, j>> \notin astray
               PROVE  InStep(requests', Trusted', Len(requests') + 1, cells[r][0], j,
                             AsText(cells[r][j]))
    BY <1>0 DEF WindowInStep
  <2>1. InStep(requests, Trusted, Len(requests) + 1, cells[r][0], j, AsText(cells[r][j]))
    BY DEF WindowInStep
  <2> QED
    BY <1>1, <2>1, Zenon
<1>4. FieldsInStep'
  <2> SUFFICES ASSUME NEW f \in kept
               PROVE  InStep(requests', Trusted', Len(requests') + 1, fields.EditBbID, Place(f),
                             fields[f])
    BY <1>0 DEF FieldsInStep
  <2>1. Place(f) \in 1 .. 4
    BY Positions DEF Shapes
  <2>2. InStep(requests, Trusted, Len(requests) + 1, fields.EditBbID, Place(f), fields[f])
    BY DEF FieldsInStep
  <2> QED
    BY <1>1, <2>1, <2>2, Zenon
<1>5. EditsInStep'
  <2> SUFFICES ASSUME NEW n \in EditsIn(requests'), NEW f \in requests'[n].kept
               PROVE  InStep(requests', Trusted', n, requests'[n].val[0], Place(f),
                             requests'[n].val[Place(f)])
    BY Zenon DEF EditsInStep
  <2>1. n + 1 \in EditsIn(requests) /\ requests'[n] = requests[n + 1]
    BY <1>1, Zenon
  <2>2. Place(f) \in 1 .. 4
    BY <2>1, Positions DEF Shapes
  <2>3. InStep(requests, Trusted, n + 1, requests'[n].val[0], Place(f), requests'[n].val[Place(f)])
    BY <2>1 DEF EditsInStep
  <2> QED
    BY <1>1, <2>2, <2>3, Zenon
<1> QED
  BY <1>2, <1>3, <1>4, <1>5

(* The window fills with the rows of view, which a row of billboard shows  *)
(* unless it is behind (Server.java:73-91, clientGUI.java:90-118).         *)
LEMMA ShowStep ==
    ASSUME CopyInStep, FollowInv, ShowRows
    PROVE  FollowInv'
<1> USE DEF FollowInv
<1>0. /\ UNCHANGED <<billboard, requests, fields, kept, astray, idEditable>> /\ pc' = "open"
      /\ requests = <<>> /\ kept = {} /\ astray = {}
      /\ cells' = data /\ shown' = [i \in 1 .. rowcount |-> i]
  BY DEF ShowRows, fieldVars, Shapes
<1>1. /\ Len(view) \in Nat /\ DOMAIN view = 1 .. Len(view) /\ rowcount = Len(view)
      /\ DOMAIN data = 1 .. Len(view)
      /\ \A r \in DOMAIN view : data[r] = ReplyRow(view[r])
  <2>1. pc = "copy" /\ Len(data) = rowcount
    BY DEF ShowRows
  <2>2. /\ Len(view) \in Nat /\ DOMAIN view = 1 .. Len(view) /\ rowcount = Len(view)
        /\ \A r \in 1 .. Len(view) : data[r] = ReplyRow(view[r])
    BY <2>1 DEF CopyInStep
  <2>3. DOMAIN data = 1 .. Len(data)
    BY <2>1 DEF CopyInStep
  <2> QED
    BY <2>1, <2>2, <2>3
<1>2. \A r \in DOMAIN view, c \in BillboardColumns :
          view[r]["BillboardID"] \in DOMAIN Trusted' =>
              Trusted'[view[r]["BillboardID"]][c] = view[r][c]
  <2> SUFFICES ASSUME NEW r \in DOMAIN view, NEW c \in BillboardColumns, NEW k,
                      k = view[r]["BillboardID"], k \in DOMAIN Trusted'
               PROVE  Trusted'[k][c] = view[r][c]
    OBVIOUS
  <2>1. k \in DOMAIN billboard \ behind' /\ Trusted'[k] = billboard[k]
    BY <1>0 DEF Trusted
  <2> QED
    BY <2>1 DEF ShowRows
<1>3. WindowInStep'
  <2> SUFFICES ASSUME NEW r \in DOMAIN view, NEW j \in 1 .. 4
               PROVE  InStep(requests', Trusted', Len(requests') + 1, data[r][0], j,
                             AsText(data[r][j]))
    BY <1>0, <1>1 DEF WindowInStep
  <2>1. data[r][0] = view[r]["BillboardID"] /\ data[r][j] = view[r][ViewColumns[j + 1]]
    BY <1>1 DEF ReplyRow, ViewColumns
  <2>2. data[r][0] \in DOMAIN Trusted' =>
            Shows(AsText(data[r][j]), Trusted'[data[r][0]][ViewColumns[j + 1]])
    BY <1>2, <2>1, UpdatedColumns DEF Shows
  <2>3. EditsIn(requests') = {}
    BY <1>0 DEF EditsIn
  <2> QED
    BY <2>2, <2>3 DEF InStep
<1>4. shown' \in Seq(DOMAIN cells')
  <2>1. shown' \in [1 .. Len(view) -> 1 .. Len(view)]
    BY <1>0, <1>1
  <2> QED
    BY <1>0, <1>1, <2>1, RowsLength
<1>5. \A r \in DOMAIN view : DOMAIN data[r] = 0 .. 7
  BY <1>1 DEF ReplyRow
<1>6. Shapes'
  BY <1>0, <1>1, <1>4, <1>5 DEF Shapes
<1>7. FieldsInStep' /\ EditsInStep'
  BY <1>0 DEF FieldsInStep, EditsInStep, EditsIn
<1> QED
  BY <1>3, <1>6, <1>7

LEMMA NewSessionStep ==
    ASSUME FollowInv, NewSession
    PROVE  FollowInv'
<1>0. /\ requests' = <<>> /\ kept' = {} /\ astray' = {} /\ shown' = <<>> /\ cells' = <<>>
      /\ fields' = NoFields
  BY DEF NewSession
<1>1. Shapes'
  BY <1>0 DEF Shapes, NoFields, EditsIn
<1>2. WindowInStep'
  BY <1>0 DEF WindowInStep
<1>3. FieldsInStep' /\ EditsInStep'
  BY <1>0 DEF FieldsInStep, EditsInStep, EditsIn
<1> QED
  BY <1>1, <1>2, <1>3 DEF FollowInv

LEMMA CellsStep ==
    ASSUME CellsInv, [Next]_vars
    PROVE  CellsInv'
<1>0. CopyInStep /\ FollowInv
  BY DEF CellsInv, FollowInv
<1> SUFFICES FollowInv'
  BY <1>0, CopyStep DEF CellsInv, FollowInv
<1>1. CASE CountRows \/ CopyRow \/ ServerEnds \/ UNCHANGED vars
  BY <1>0, <1>1, QuietStep, Zenon
<1>2. CASE UserStep
  <2>1. ASSUME NEW i \in DOMAIN shown, NEW j \in 0 .. 4, NEW v, TypeCell(i, j, v)
        PROVE  FollowInv'
    BY <1>0, <2>1, TypeCellStep, Zenon
  <2>2. 0 \in 0 .. 4
    OBVIOUS
  <2> QED
    BY <1>0, <1>2, <2>1, <2>2, QuietStep, EditStep, DeleteStep, UpdateStep, Zenon DEF UserStep
<1>3. CASE UpdateBillboard \/ UpdateMisread \/ DeleteFromView
  BY <1>0, <1>3, DatabaseStep, Zenon
<1>4. CASE ShowRows
  BY <1>0, <1>4, ShowStep
<1>5. CASE NewSession
  BY <1>0, <1>5, NewSessionStep
<1> QED
  BY <1>1, <1>2, <1>3, <1>4, <1>5, Zenon DEF Next

(* The window, the fields, the requests under way and billboard follow     *)
(* from each other, for any number of rows, updates, deletes, cells typed  *)
(* over and sessions (clientGUI.java:126-188, Server.java:98-117).         *)
THEOREM CellsInvCorrect == Spec => []CellsInv
  BY CellsInit, CellsStep, PTL DEF Spec

(* Once the server has caught up, a row of the window shows what billboard *)
(* holds under its id (clientGUI.java:184-188, Server.java:114), up to the *)
(* exceptions WindowShowsBillboard names.                                  *)
THEOREM WindowShowsCorrect == Spec => []WindowShowsBillboard
<1>1. CellsInv => WindowShowsBillboard
  <2> SUFFICES ASSUME CellsInv, CaughtUp, NEW i \in DOMAIN shown, NEW j \in 1 .. 4, NEW k,
                      k = cells[shown[i]][0], k \in DOMAIN billboard \ behind,
                      <<shown[i], j>> \notin astray
               PROVE  Shows(AsText(cells[shown[i]][j]), billboard[k][ViewColumns[j + 1]])
    BY DEF WindowShowsBillboard
  <2>1. shown[i] \in DOMAIN cells
    BY DEF CellsInv, Shapes
  <2>2. InStep(requests, Trusted, Len(requests) + 1, k, j, AsText(cells[shown[i]][j]))
    BY <2>1 DEF CellsInv, WindowInStep
  <2>3. EditsIn(requests) = {}
    BY DEF CaughtUp, EditsIn
  <2>4. k \in DOMAIN Trusted /\ Trusted[k] = billboard[k]
    BY DEF Trusted
  <2> QED
    BY <2>2, <2>3, <2>4 DEF InStep
<1> QED
  BY CellsInvCorrect, <1>1, PTL

(* An update leaves the columns alone that nobody touched since Edit, or   *)
(* stores their text once more (clientGUI.java:147-188, Server.java:114).  *)
THEOREM UntouchedCorrect == Spec => UntouchedColumnsStay
<1> DEFINE Stay ==
        requests # <<>> /\ requests' = Tail(requests) =>
            LET val == Head(requests).val
                k == val[0]
            IN  Head(requests).type = "editTable" /\ ReadAsMeant(val) /\ k \in DOMAIN billboard \ behind =>
                    \A f \in Head(requests).kept :
                        LET before == billboard[k][FieldColumn(f)] IN
                        billboard'[k][FieldColumn(f)] \in {before, Literal(AsText(before))}
<1>1. ASSUME CellsInv, [Next]_vars PROVE [Stay]_vars
  <2> SUFFICES ASSUME Next, requests # <<>>, requests' = Tail(requests), NEW val, NEW k,
                      val = Head(requests).val, k = val[0],
                      Head(requests).type = "editTable", ReadAsMeant(val),
                      k \in DOMAIN billboard \ behind, NEW f \in Head(requests).kept
               PROVE  billboard'[k][FieldColumn(f)] \in
                          {billboard[k][FieldColumn(f)], Literal(AsText(billboard[k][FieldColumn(f)]))}
    BY <1>1
  <2>1. PICK S : requests \in Seq(S)
    BY <1>1 DEF CellsInv, Shapes
  <2>2. Head(requests) = requests[1] /\ 1 \in DOMAIN requests
    BY <2>1, TakenOff
  <2>3. 1 \in EditsIn(requests) /\ f \in EditFields
    BY <1>1, <2>2 DEF EditsIn, CellsInv, Shapes
  <2>4. Place(f) \in 1 .. 4 /\ ViewColumns[Place(f) + 1] = FieldColumn(f)
    BY <2>3, Positions
  <2>5. InStep(requests, Trusted, 1, k, Place(f), val[Place(f)])
    BY <1>1, <2>2, <2>3 DEF CellsInv, EditsInStep
  <2>6. Shows(val[Place(f)], billboard[k][FieldColumn(f)])
    <3>1. k \in DOMAIN Trusted /\ Trusted[k] = billboard[k]
      BY DEF Trusted
    <3>2. \A m \in EditsIn(requests) : ~(m < 1)
      BY <2>1 DEF EditsIn
    <3> QED
      BY <2>4, <2>5, <3>1, <3>2 DEF InStep
  <2>7. UpdateBillboard \/ billboard' = billboard
    BY DEF Next, CountRows, CopyRow, ShowRows, UserStep, SelectRow, TypeCell, TypeField,
           TypeEditID, PressDelete, PressEdit, PressUpdate, UpdateThrows, UpdateMisread,
           DeleteFromView, ServerEnds, NewSession
  <2>8. CASE UpdateBillboard
    <3>1. billboard'[k] = Updated(val)
      BY <2>8 DEF UpdateBillboard
    <3>2. billboard'[k][FieldColumn(f)] = Literal(val[Place(f)])
      BY <2>4, <3>1, UpdatedColumns
    <3> QED
      BY <2>6, <3>2 DEF Shows
  <2> QED
    BY <2>7, <2>8
<1> QED
  BY CellsInvCorrect, <1>1, PTL DEF Spec, UntouchedColumnsStay
=============================================================================
