------------------------------- MODULE Server -------------------------------
(***************************************************************************)
(* Server.main after the stream headers are exchanged: one endless loop    *)
(* that reads a request type, reads the request's object, asks             *)
(* DBConnection for the connection and runs one or two SQL statements, in  *)
(* autocommit mode, on the tables billboard and view of the schema         *)
(* "schedules".  Only EOFException is caught: anything else ends main and  *)
(* with it the process.                                                    *)
(***************************************************************************)
EXTENDS Wire

CONSTANTS
    ViewAutoInc,    \* view.BillboardID is generated (TRUE) or defaults to 0,
                    \* as in the checked-in view.frm (FALSE)
    InitBillboard,  \* keys of the rows in billboard at the start
    InitView,       \* keys of the rows in view at the start
    FirstKey,       \* next generated key at the start, of both tables
    SeedText        \* content of the rows at the start

(* With ViewAutoInc the two tables are taken to have started together.     *)
(* Nothing in the code sees to it: each counts for itself.  The checked-in *)
(* tables have not: view stops at key 1 and billboard, without a key 2, at *)
(* 8.  What is said of matching keys and contents (EditFindsRow,           *)
(* KeysInStep, SameKeySameText) is said of tables that did.                *)
ASSUME TableAssumption ==
    /\ ViewAutoInc \in BOOLEAN
    /\ FirstKey \in Nat \ {0}
    /\ InitBillboard \subseteq 0 .. FirstKey - 1
    /\ InitView \subseteq 0 .. FirstKey - 1
    /\ ViewAutoInc => InitView \subseteq InitBillboard
    /\ SeedText \in Texts

VARIABLES
    serverPc,       \* the call Server.main is about to make
    requestType,    \* the string last read
    request,        \* the object last read
    instance,       \* DBConnection.instance: "null" or "open"
    billboard,      \* table billboard: key -> content
    view,           \* table view: key -> content and schedule
    nextBillboard,  \* AUTO_INCREMENT of billboard
    nextView,       \* AUTO_INCREMENT of view
    torn,           \* history: an add stopped between its two inserts
    edited          \* history: rows of billboard an edit has changed

dbVars == <<billboard, view, nextBillboard, nextView, torn, edited>>
serverVars == <<serverPc, requestType, request, instance, dbVars>>

ServerPcs == {"readUTF", "readObject", "getInstance", "createStatement",
              "execute", "execute2"}

ViewRow == [text: Texts, sched: Scheds \cup {Null}]

(* A server process that has just accepted its client. *)
ServerStart ==
    /\ serverPc = "readUTF"
    /\ requestType = "showTable"
    /\ request = ShowRequest
    /\ instance = "null"

DbInit ==
    /\ billboard = [k \in InitBillboard |-> SeedText]
    /\ view = [k \in InitView |-> [text |-> SeedText, sched |-> Null]]
    /\ nextBillboard = FirstKey
    /\ nextView = FirstKey
    /\ torn = FALSE
    /\ edited = {}

At(pc) == exit = "running" /\ serverPc = pc

(* An exception leaves main: the process ends. *)
Dies(cause) ==
    /\ exit' = cause
    /\ torn' = (torn \/ serverPc = "execute2")
    /\ UNCHANGED <<c2s, s2c, clientEnd, serverPc, requestType, request, instance,
                   billboard, view, nextBillboard, nextView, edited>>
-----------------------------------------------------------------------------
(* Mutant: a delete is taken for a request without an object. *)
MutReadDeleteBare ==
    /\ At("readUTF")
    /\ c2s # <<>>
    /\ Head(c2s).tag = "utf"
    /\ requestType' = Head(c2s).val
    /\ serverPc' = IF Head(c2s).val \in {"showTable", "delete"} THEN "getInstance" ELSE "readObject"
    /\ request' = ShowRequest
    /\ c2s' = Tail(c2s)
    /\ UNCHANGED <<s2c, clientEnd, exit, instance, dbVars>>

(* ois.readUTF() and the switch.  showTable has no object to read. *)
ReadRequestType ==
    /\ At("readUTF")
    /\ c2s # <<>>
    /\ Head(c2s).tag = "utf"
    /\ requestType' = Head(c2s).val
    /\ serverPc' = IF Head(c2s).val = "showTable" THEN "getInstance" ELSE "readObject"
    /\ request' = ShowRequest
    /\ c2s' = Tail(c2s)
    /\ UNCHANGED <<s2c, clientEnd, exit, instance, dbVars>>

(* Mutant: the object is looked at and left in the stream. *)
MutReadObjectPeeks ==
    /\ At("readObject")
    /\ c2s # <<>>
    /\ Head(c2s).tag = PayloadClass[requestType]
    /\ request' = Head(c2s).val
    /\ serverPc' = "getInstance"
    /\ UNCHANGED <<wireVars, requestType, instance, dbVars>>

(* (Add), (Edit) or (Delete) ois.readObject(), of the class the case names. *)
ReadObject ==
    /\ At("readObject")
    /\ c2s # <<>>
    /\ Head(c2s).tag = PayloadClass[requestType]
    /\ request' = Head(c2s).val
    /\ serverPc' = "getInstance"
    /\ c2s' = Tail(c2s)
    /\ UNCHANGED <<s2c, clientEnd, exit, requestType, instance, dbVars>>

(***************************************************************************)
(* readObject meets something else: a string is block data and raises      *)
(* OptionalDataException, another class fails the cast.                    *)
(***************************************************************************)
MisreadObject ==
    /\ At("readObject")
    /\ c2s # <<>>
    /\ Head(c2s).tag # PayloadClass[requestType]
    /\ Dies(IF Head(c2s).tag = "utf" THEN "OptionalData" ELSE "ClassCast")

(* Mutant: the case goes on after the exception, with what it has. *)
MutReadEOFGoesOn ==
    /\ exit = "running"
    /\ serverPc \in {"readUTF", "readObject"}
    /\ c2s = <<>>
    /\ clientEnd = "fin"
    /\ serverPc' = IF serverPc = "readObject" THEN "getInstance" ELSE "readUTF"
    /\ UNCHANGED <<wireVars, requestType, request, instance, dbVars>>

(***************************************************************************)
(* The client is gone and everything it sent has been read: EOFException,  *)
(* caught in the loop, which then reads (and fails) again for ever.        *)
(***************************************************************************)
ReadEOF ==
    /\ exit = "running"
    /\ serverPc \in {"readUTF", "readObject"}
    /\ c2s = <<>>
    /\ clientEnd = "fin"
    /\ serverPc' = "readUTF"
    /\ UNCHANGED <<wireVars, requestType, request, instance, dbVars>>

(* The connection was reset: SocketException, not caught. *)
ReadReset ==
    /\ exit = "running"
    /\ serverPc \in {"readUTF", "readObject"}
    /\ clientEnd = "rst"
    /\ Dies("IO")
-----------------------------------------------------------------------------
(***************************************************************************)
(* DBConnection.getInstance(): connects when there is no connection yet; a *)
(* failure is printed and leaves the instance, and the result, null.       *)
(***************************************************************************)
GetInstance ==
    /\ At("getInstance")
    /\ serverPc' = "createStatement"
    /\ \/ instance = "open" /\ instance' = instance
       \/ instance = "null" /\ instance' \in {"open", "null"}
    /\ UNCHANGED <<wireVars, requestType, request, dbVars>>

CreateStatement ==
    /\ At("createStatement")
    /\ instance = "open"
    /\ serverPc' = "execute"
    /\ UNCHANGED <<wireVars, requestType, request, instance, dbVars>>

(* createStatement() on the null getInstance() returned. *)
CreateStatementOnNull ==
    /\ At("createStatement")
    /\ instance = "null"
    /\ Dies("NullPointer")
-----------------------------------------------------------------------------
(* The key a statement's where clause names; the column is an int, and a   *)
(* text that is no number compares as 0, unless the database runs in       *)
(* strict mode and refuses the comparison (RefusedStatement).              *)
Key(id) == IF id = NaN THEN 0 ELSE id

(* The key the second insert of an add gives its row. *)
ViewKey == IF ViewAutoInc THEN nextView ELSE 0

WithRow(table, k, row) == [i \in DOMAIN table \cup {k} |-> IF i = k THEN row ELSE table[i]]

WithoutRow(table, k) == [i \in DOMAIN table \ {k} |-> table[i]]

(* The statement is one the database refuses: a syntax error, a malformed  *)
(* date, a duplicate primary key.                                          *)
Refuses ==
    \/ request.data \in Rejected
    \/ At("execute2") /\ ViewKey \in DOMAIN view

Executes(pc, type) ==
    /\ At(pc)
    /\ requestType = type
    /\ ~Refuses

Done == serverPc' = "readUTF" /\ UNCHANGED <<wireVars, requestType, request, instance>>

(* insert into billboard values(null, ...) *)
InsertBillboard ==
    /\ Executes("execute", "addBillboard")
    /\ billboard' = WithRow(billboard, nextBillboard, request.data)
    /\ nextBillboard' = nextBillboard + 1
    /\ serverPc' = "execute2"
    /\ UNCHANGED <<wireVars, requestType, request, instance, view, nextView, torn, edited>>

(* insert into view (BillboardName, message, info, url) values(...) *)
InsertView ==
    /\ Executes("execute2", "addBillboard")
    /\ view' = WithRow(view, ViewKey, [text |-> request.data, sched |-> Null])
    /\ nextView' = IF ViewAutoInc THEN nextView + 1 ELSE nextView
    /\ Done
    /\ UNCHANGED <<billboard, nextBillboard, torn, edited>>

(* Mutant: the update of the schedule has no where clause. *)
MutUpdateViewEverywhere ==
    /\ Executes("execute", "addView")
    /\ view' = [k \in DOMAIN view |-> [view[k] EXCEPT !.sched = request.data]]
    /\ Done
    /\ UNCHANGED <<billboard, nextBillboard, nextView, torn, edited>>

(* update view set scheduleddate, starttime, endtime where billboardId *)
UpdateView ==
    /\ Executes("execute", "addView")
    /\ view' = [k \in DOMAIN view |-> IF k = Key(request.id)
                                      THEN [view[k] EXCEPT !.sched = request.data]
                                      ELSE view[k]]
    /\ Done
    /\ UNCHANGED <<billboard, nextBillboard, nextView, torn, edited>>

(* Mutant: the row is deleted from the other table. *)
MutDeleteFromBillboard ==
    /\ Executes("execute", "delete")
    /\ billboard' = WithoutRow(billboard, request.id)
    /\ Done
    /\ UNCHANGED <<view, nextBillboard, nextView, torn, edited>>

(* delete from view where billboardID *)
DeleteFromView ==
    /\ Executes("execute", "delete")
    /\ view' = WithoutRow(view, request.id)
    /\ Done
    /\ UNCHANGED <<billboard, nextBillboard, nextView, torn, edited>>

(* Mutant: the values are taken from one place too early in the array. *)
MutUpdateBillboardShifted ==
    /\ Executes("execute", "editTable")
    /\ billboard' = [k \in DOMAIN billboard |-> IF k = request.id THEN request.id
                                                ELSE billboard[k]]
    /\ edited' = edited \cup ({request.id} \cap DOMAIN billboard)
    /\ Done
    /\ UNCHANGED <<view, nextBillboard, nextView, torn>>

(* Mutant: the update of the content has no where clause. *)
MutUpdateBillboardEverywhere ==
    /\ Executes("execute", "editTable")
    /\ billboard' = [k \in DOMAIN billboard |-> request.data]
    /\ edited' = edited \cup ({request.id} \cap DOMAIN billboard)
    /\ Done
    /\ UNCHANGED <<view, nextBillboard, nextView, torn>>

(* update billboard set BillboardName, message, info, url where             *)
(* billboardID.  The text is concatenated into the statement: one it cannot *)
(* hold is refused here (RefusedStatement); what else the database can make *)
(* of it is in TableCells.                                                  *)
UpdateBillboard ==
    /\ Executes("execute", "editTable")
    /\ billboard' = [k \in DOMAIN billboard |-> IF k = request.id THEN request.data
                                                ELSE billboard[k]]
    /\ edited' = edited \cup ({request.id} \cap DOMAIN billboard)
    /\ Done
    /\ UNCHANGED <<view, nextBillboard, nextView, torn>>

(* select * from view, the rows copied into a dataArray and written back. *)
ShowTable ==
    /\ Executes("execute", "showTable")
    /\ s2c' = Append(s2c, view)
    /\ serverPc' = "readUTF"
    /\ UNCHANGED <<c2s, clientEnd, exit, requestType, request, instance, dbVars>>

(* oos.writeObject to a client that has gone. *)
ShowTableThrows ==
    /\ Executes("execute", "showTable")
    /\ clientEnd # "open"
    /\ Dies("IO")

(* Mutant: a refused statement is tried again without end. *)
MutRefusedRetries ==
    /\ exit = "running"
    /\ serverPc \in {"execute", "execute2"}
    /\ Refuses
    /\ serverPc' = "createStatement"
    /\ UNCHANGED <<wireVars, requestType, request, instance, dbVars>>

(* The database refuses a statement: SQLException. *)
RefusedStatement ==
    /\ exit = "running"
    /\ serverPc \in {"execute", "execute2"}
    /\ Refuses \/ request.id = NaN
    /\ Dies("SQL")
-----------------------------------------------------------------------------
(* The server's own progress. *)
ServerStep ==
    \/ ReadRequestType \/ ReadObject \/ MisreadObject \/ ReadEOF \/ ReadReset
    \/ GetInstance \/ CreateStatement \/ CreateStatementOnNull
    \/ InsertBillboard \/ InsertView \/ UpdateView \/ DeleteFromView
    \/ UpdateBillboard \/ ShowTable \/ ShowTableThrows \/ RefusedStatement

(* Mutant: the SQLException is caught in the loop, like EOFException. *)
MutDatabaseFailureCaught ==
    /\ exit = "running"
    /\ serverPc \in {"createStatement", "execute", "execute2"}
    /\ instance = "open"
    /\ serverPc' = "readUTF"
    /\ UNCHANGED <<wireVars, requestType, request, instance, dbVars>>

(* The database connection breaks under a statement: SQLException. *)
DatabaseFails ==
    /\ exit = "running"
    /\ serverPc \in {"createStatement", "execute", "execute2"}
    /\ instance = "open"
    /\ Dies("SQL")

(* The operator stops the process, the only way out of the loop. *)
KillServer == exit = "running" /\ Dies("killed")
=============================================================================
