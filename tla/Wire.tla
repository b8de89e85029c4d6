-------------------------------- MODULE Wire --------------------------------
(***************************************************************************)
(* The one connection between a client and the server, and what travels on *)
(* it.  Each side wraps its socket in an ObjectOutputStream and an         *)
(* ObjectInputStream.  A request is a string written with writeUTF (block  *)
(* data) followed, for all requests but "showTable", by one serialized     *)
(* object (Add, Edit or Delete).  The two are flushed separately, so they  *)
(* are two items of the stream.                                            *)
(***************************************************************************)
EXTENDS Naturals, Sequences

CONSTANTS
    Texts,      \* billboard contents: name, message, info and url together
    Scheds,     \* schedules: date, start time and end time together
    Rejected,   \* contents and schedules the database refuses (an apostrophe
                \* in a text, a date that is none); the others it stores
                \* as they are
    Ids,        \* billboard ids a user can name
    Null,       \* Java's null, SQL's NULL
    NaN,        \* an id text that is not a number
    Capacity    \* items the socket buffers hold; a full socket blocks a write

ASSUME DataAssumption == Rejected \subseteq Texts \cup Scheds /\ Null \notin Texts \cup Scheds
ASSUME IdAssumption == Ids \subseteq Nat /\ Null \notin Nat /\ NaN \notin Nat
ASSUME CapacityAssumption == Capacity \in Nat \ {0}

VARIABLES
    c2s,        \* items written by the client and not yet read by the server
    s2c,        \* tables written by the server and not yet read by the client
    clientEnd,  \* "open", or how the client's process left: "fin" or "rst"
    exit        \* "running", or why the server's process ended

wireVars == <<c2s, s2c, clientEnd, exit>>

(***************************************************************************)
(* The requests, as the handlers of the client build them.  A delete may   *)
(* carry Null: nothing was selected.                                       *)
(***************************************************************************)
ShowRequest == [type |-> "showTable", id |-> Null, data |-> Null]

Requests ==
    [type: {"addBillboard"}, id: {Null}, data: Texts]
      \cup [type: {"addView"}, id: Ids \cup {NaN}, data: Scheds]
      \cup [type: {"delete"}, id: Ids \cup {Null}, data: {Null}]
      \cup [type: {"editTable"}, id: Ids, data: Texts]

RequestTypes == {"showTable", "addBillboard", "addView", "delete", "editTable"}

(* The class a case of the server's switch casts the next object to. *)
PayloadClass == [t \in RequestTypes \ {"showTable"} |->
                    IF t = "delete" THEN "Delete"
                    ELSE IF t = "editTable" THEN "Edit" ELSE "Add"]

Utf(t) == [tag |-> "utf", val |-> t]

Object(r) == [tag |-> PayloadClass[r.type], val |-> r]

Items == {Utf(t) : t \in RequestTypes}
           \cup {Object(r) : r \in {q \in Requests : ~(q.type = "delete" /\ q.id = Null)}}

(***************************************************************************)
(* A flushed write.  While the server's process lives the item is queued.  *)
(* Once it is gone the operating system may still take the bytes, which    *)
(* then reach nobody, or the write throws an IOException (WriteThrows).    *)
(***************************************************************************)
Write(item) ==
    \/ exit = "running" /\ Len(c2s) < Capacity /\ c2s' = Append(c2s, item)
    \/ exit # "running" /\ c2s' = c2s

WriteThrows == exit # "running"

Exits == {"running", "OptionalData", "ClassCast", "SQL", "NullPointer", "IO", "killed"}

WireInit ==
    /\ c2s = <<>>
    /\ s2c = <<>>
    /\ clientEnd = "open"
    /\ exit = "running"
=============================================================================
