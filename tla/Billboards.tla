----------------------------- MODULE Billboards -----------------------------
(***************************************************************************)
(* The whole system: the window, the connection, the server and the        *)
(* database, through successive sessions.  It implements Session, so what  *)
(* is proved of Session holds of it.                                       *)
(***************************************************************************)
EXTENDS Session, ClientGUI

(* Every row the window may show is one its user can name. *)
ASSUME ShownAssumption == InitView \subseteq Ids

windowVars == <<vars, guiVars>>

WindowInit == Init /\ GuiStart

(* Both processes are started again, with an empty window. *)
WindowNewSession ==
    /\ NewSession
    /\ rows' = <<>> /\ selection' = {} /\ idFirst' = TRUE
    /\ billboardID' = Null /\ selectedRow' = 0 /\ rowToEdit' = 0
    /\ editID' = NaN /\ idEditable' = TRUE
    /\ picked' = {} /\ strays' = {} /\ misread' = FALSE
    /\ editFresh' = FALSE /\ overwritten' = FALSE

WindowNext ==
    \/ ServerNext /\ UNCHANGED <<clientVars, guiVars, session>>
    \/ (GuiStep \/ GuiUser) /\ UNCHANGED <<serverVars, session>>
    \/ WindowNewSession

WindowSpec == WindowInit /\ [][WindowNext]_windowVars
-----------------------------------------------------------------------------
(* The types of the window's fields. *)
GuiTypeOK ==
    /\ rows \in Seq(Ids \cup {NaN})
    /\ selection \subseteq Nat
    /\ billboardID \in Ids \cup {Null}
    /\ selectedRow \in Nat
    /\ rowToEdit \in Nat \cup {-1}
    /\ editID \in Ids \cup {NaN}
    /\ idEditable \in BOOLEAN
    /\ picked \subseteq Ids \cup {NaN}
    /\ strays \subseteq Ids
    /\ misread \in BOOLEAN /\ idFirst \in BOOLEAN
    /\ editFresh \in BOOLEAN /\ overwritten \in BOOLEAN

(* Until a row is given another id, or an id is read from another column,  *)
(* every row in the window is a row of table view, however many deletes    *)
(* are in flight, were repeated with a stale selection, or were lost with  *)
(* the server (clientGUI.java:119-141).                                    *)
ShownRowsExist ==
    ~overwritten /\ strays = {} /\ clientPc # "closed" =>
        \A i \in 0 .. Len(rows) - 1 : RowId(i) \in DOMAIN view

(* What is highlighted is what Delete and Edit act on (clientGUI.java:98-99*)
(* set both fields, lines 126, 134 and 147 use them), until an id cell is  *)
(* typed over and as long as the highlight is on a row.  A column dragged  *)
(* in front of the ids upsets this only until a row is selected with the   *)
(* ids in front again: line 98 reads the column displayed first.           *)
HighlightIsTarget ==
    LET i == SelectedRow(selection) IN
    ~overwritten /\ ~misread /\ selection # {} /\ IsRow(i) =>
        selectedRow = i /\ billboardID = RowId(i)

(* An update gives a row the id of another billboard only after the id was *)
(* typed by hand or a row was deleted or typed over since Edit was pressed *)
(* (clientGUI.java:159 remembers an index, line 184 trusts it).            *)
UpdateHitsLoadedRow ==
    [][FinishUpdate /\ editFresh => overwritten' = overwritten]_windowVars

(* A row leaves the database only if this session's user had selected a    *)
(* row of that id, or a row that holds the number in the column dragged in *)
(* front of the ids (Server.java:104, clientGUI.java:98).                  *)
DeletesOnlyPicked == [][DOMAIN view \ DOMAIN view' \subseteq picked \cup strays]_windowVars

(***************************************************************************)
(* The strengthening that makes these inductive, next to Session's IndInv. *)
(***************************************************************************)
ShownIds == {rows[i] : i \in DOMAIN rows}

(* The ids of the deletes handed over and not carried out. *)
Deletes ==
    {c2s[n].val.id : n \in {m \in DOMAIN c2s : c2s[m].tag = "Delete"}}
      \cup (IF serverPc \notin {"readUTF", "readObject"} /\ requestType = "delete"
            THEN {request.id} ELSE {})

(* No window sends an add, so no row has a key the window cannot name. *)
NoAdds ==
    /\ pending.type # "addBillboard" /\ requestType # "addBillboard"
    /\ \A n \in DOMAIN c2s : c2s[n].tag = "utf" => c2s[n].val # "addBillboard"
    /\ DOMAIN view \subseteq InitView
    /\ \A n \in DOMAIN s2c : DOMAIN s2c[n] \subseteq InitView

(* Before the table arrives the window is empty, and nothing was deleted   *)
(* from the table that is on its way.                                      *)
NothingShown ==
    clientPc \in {"start", "await"} =>
        /\ rows = <<>> /\ selection = {} /\ billboardID = Null /\ ~editFresh
        /\ \A n \in DOMAIN s2c : DOMAIN s2c[n] \subseteq DOMAIN view

(* The request a handler is writing is the one its fields say. *)
PendingFromFields ==
    clientPc = "writeObject" =>
        /\ pending.type = "delete" => pending.id = billboardID
        /\ pending.type = "editTable" => pending.id = editID /\ editID # NaN

(* The ids in the window are its own until one is typed over. *)
RowsOwnIds ==
    ~overwritten => /\ \A i \in DOMAIN rows : rows[i] # NaN
                    /\ \A i, j \in DOMAIN rows : rows[i] = rows[j] => i = j

(* The remembered index is the remembered id's, unless the window has lost *)
(* that id; and the window has lost the ids whose deletes are under way.   *)
DeletedNotShown ==
    ~overwritten /\ strays = {} =>
        /\ billboardID \in ShownIds => IsRow(selectedRow) /\ RowId(selectedRow) = billboardID
        /\ Deletes \cap ShownIds = {}

(* Every id that is or will be deleted was read by the listener. *)
DeletesPicked == billboardID \in picked \cup strays \cup {Null} /\ Deletes \subseteq picked \cup strays

(* What Edit loaded is still what its row shows. *)
EditLoaded ==
    editFresh => /\ ~idEditable
                 /\ IsRow(rowToEdit) /\ editID # NaN => RowId(rowToEdit) = editID

(* The window's fields, the rows it shows and the deletes under way agree  *)
(* (clientGUI.java:65-337).                                                *)
WindowInv ==
    /\ GuiTypeOK /\ IsFiniteSet(selection)
    /\ NoAdds
    /\ NothingShown
    /\ PendingFromFields
    /\ RowsOwnIds
    /\ DeletedNotShown
    /\ ShownRowsExist
    /\ DeletesPicked
    /\ EditLoaded
    /\ HighlightIsTarget

(* The window uses the connection as Session says. *)
ImplementsSession == Spec
=============================================================================
