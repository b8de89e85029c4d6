----------------------------- MODULE WireClient -----------------------------
(***************************************************************************)
(* What any session of the Swing client does to the connection, whatever   *)
(* its user clicks: ask for the table once and wait for it, then write     *)
(* requests, each as a type and an object with a flush after each, never   *)
(* reading again.  All of it runs on the event dispatch thread, so one     *)
(* handler finishes before the next starts.  ClientGUI refines this with   *)
(* the widgets that decide which request is sent.                          *)
(***************************************************************************)
EXTENDS Wire

CONSTANT MaxRequests    \* bound on the requests of one session

ASSUME MaxRequestsAssumption == MaxRequests \in Nat

VARIABLES
    clientPc,   \* "start", "await", "idle", "writeObject" or "closed"
    pending,    \* the request a handler is writing
    sent,       \* requests begun in this session
    aborted     \* a delete threw after its type was written

clientVars == <<clientPc, pending, sent, aborted>>

ClientPcs == {"start", "await", "idle", "writeObject", "closed"}

ClientStart ==
    /\ clientPc = "start"
    /\ pending = ShowRequest
    /\ sent = 0
    /\ aborted = FALSE

(* Mutant: the constructor does not wait for the table. *)
MutRequestTableAsync ==
    /\ clientPc = "start"
    /\ Write(Utf("showTable"))
    /\ clientPc' = "idle"
    /\ UNCHANGED <<s2c, clientEnd, exit, pending, sent, aborted>>

(* The constructor writes "showTable" and blocks in readObject. *)
RequestTable ==
    /\ clientPc = "start"
    /\ Write(Utf("showTable"))
    /\ clientPc' = "await"
    /\ UNCHANGED <<s2c, clientEnd, exit, pending, sent, aborted>>

(* The table arrives; the frame is shown and the user can act. *)
ReadTable ==
    /\ clientPc = "await"
    /\ s2c # <<>>
    /\ s2c' = Tail(s2c)
    /\ clientPc' = "idle"
    /\ UNCHANGED <<c2s, clientEnd, exit, pending, sent, aborted>>

(* Mutant: the end of the stream is not noticed while waiting for the table. *)
MutConstructorWaits ==
    /\ clientPc = "start" /\ WriteThrows
    /\ clientPc' = "closed"
    /\ clientEnd' = "fin"
    /\ UNCHANGED <<c2s, s2c, exit, pending, sent, aborted>>

(* The server is gone: the constructor throws, Main prints it, no frame. *)
ConstructorThrows ==
    /\ \/ clientPc = "start" /\ WriteThrows
       \/ clientPc = "await" /\ exit # "running" /\ s2c = <<>>
    /\ clientPc' = "closed"
    /\ clientEnd' = "fin"
    /\ UNCHANGED <<c2s, s2c, exit, pending, sent, aborted>>

(* Mutant: a handler starts while another has not written its object. *)
MutWriteTypeInterleaved(r) ==
    /\ clientPc \in {"idle", "writeObject"}
    /\ sent < MaxRequests
    /\ Write(Utf(r.type))
    /\ clientPc' = "writeObject"
    /\ pending' = r
    /\ sent' = sent + 1
    /\ UNCHANGED <<s2c, clientEnd, exit, aborted>>

(* Mutant: the schedule handler keeps the type it was copied with. *)
MutWriteTypeCopied(r) ==
    /\ clientPc = "idle"
    /\ sent < MaxRequests
    /\ Write(Utf(IF r.type = "addView" THEN "addBillboard" ELSE r.type))
    /\ clientPc' = "writeObject"
    /\ pending' = r
    /\ sent' = sent + 1
    /\ UNCHANGED <<s2c, clientEnd, exit, aborted>>

(* A handler: oos.writeUTF(requestType); oos.flush(). *)
WriteType(r) ==
    /\ clientPc = "idle"
    /\ sent < MaxRequests
    /\ Write(Utf(r.type))
    /\ clientPc' = "writeObject"
    /\ pending' = r
    /\ sent' = sent + 1
    /\ UNCHANGED <<s2c, clientEnd, exit, aborted>>

(* The same call when it throws: the handler prints the exception. *)
WriteTypeThrows ==
    /\ clientPc = "idle"
    /\ sent < MaxRequests
    /\ WriteThrows
    /\ sent' = sent + 1
    /\ UNCHANGED <<wireVars, clientPc, pending, aborted>>

(* oos.writeObject(...); oos.flush(). *)
WriteObject ==
    /\ clientPc = "writeObject"
    /\ ~(pending.type = "delete" /\ pending.id = Null)
    /\ Write(Object(pending))
    /\ clientPc' = "idle"
    /\ UNCHANGED <<s2c, clientEnd, exit, pending, sent, aborted>>

WriteObjectThrows ==
    /\ clientPc = "writeObject"
    /\ ~(pending.type = "delete" /\ pending.id = Null)
    /\ WriteThrows
    /\ clientPc' = "idle"
    /\ UNCHANGED <<wireVars, pending, sent, aborted>>

(***************************************************************************)
(* new Delete(billboardID) unboxes a null Integer: NullPointerException    *)
(* leaves the handler after the request's type was written and flushed.    *)
(***************************************************************************)
AbortDelete ==
    /\ clientPc = "writeObject"
    /\ pending.type = "delete" /\ pending.id = Null
    /\ clientPc' = "idle"
    /\ aborted' = TRUE
    /\ UNCHANGED <<wireVars, pending, sent>>

(* EXIT_ON_CLOSE: the event thread is idle, what was written is delivered. *)
CloseWindow ==
    /\ clientPc = "idle"
    /\ clientPc' = "closed"
    /\ clientEnd' = "fin"
    /\ UNCHANGED <<c2s, s2c, exit, pending, sent, aborted>>

(* The process is killed anywhere, an orderly end or a reset for the peer. *)
KillClient ==
    /\ clientPc # "closed"
    /\ clientPc' = "closed"
    /\ clientEnd' \in {"fin", "rst"}
    /\ UNCHANGED <<c2s, s2c, exit, pending, sent, aborted>>

(* The program's own progress, as opposed to what the user decides. *)
ClientStep == RequestTable \/ ReadTable \/ ConstructorThrows
                \/ WriteObject \/ WriteObjectThrows \/ AbortDelete
=============================================================================
