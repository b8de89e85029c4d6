# Billboards: a verification project

TLA+ models of the billboard client and server in `src/Assignment/src`: a Swing
window (`Main`, `clientGUI`) that shows the billboards of a database and edits,
schedules and deletes them through a server process (`Server`, `DBConnection`)
over one socket. The rest of the repository is an unpacked MariaDB distribution;
of that only the tables of the schema `schedules`
(`src/mariaDB/mariadb-10.5.2-winx64/data/schedules`) belong to the program.

## Inventory

| Part | State | Operations | Source |
|---|---|---|---|
| Request stream | items written and not yet read, each way; how each end left | `writeUTF`, `writeObject`, `flush`, `readUTF`, `readObject` | both programs; `Add`, `Edit`, `Delete`, `dataArray` |
| Server loop | request type, request, place in the loop | the five cases of the switch | `Server.java` |
| Database connection | `instance` | `getInstance` | `DBConnection.java` |
| Tables `billboard`, `view` | rows by key, next generated key | two inserts, two updates, a delete, a select | SQL in `Server.java`, `*.frm` |
| Client, connection | place in the constructor or handler | ask for the table, write a request | `clientGUI.java`, `Main.java` |
| Client, window | rows and their cells, selection, order of the columns, `billboardID`, `selectedRow`, `rowToEdit`, fields of the edit tab | select, drag a column, Delete, Edit, Update, schedule, type over a cell | `clientGUI.java`, `clientGUI.form` |
| Connection set-up | listening socket, backlog, headers written and read | `accept`, connect, construct the object streams | `Server.java:20-24`, `clientGUI.java:67-73`, `Client.java` |
| Table reply | cursor, row count, copied rows | `last`, `getRow`, `beforeFirst`, `next` | `Server.java:65-97`, `dataArray.java` |
| Console client | none | connects, prompts, closes | `Client.java` |
| Preview, permissions | none that others read | show an image; constants | `clientGUI.java:246-297, 338-352` |

How they interact. The window's constructor connects, writes `"showTable"` and
blocks until the table arrives. From then on every handler writes a type and an
object, each flushed, and reads nothing: no reply tells it whether the request
was carried out. The server reads a type, reads the object that type calls for,
and runs its statements with autocommit. It catches `EOFException` and nothing
else, so every other exception ends the process. It accepts one connection in
its life.

What is hard. The request's two halves can be separated by an exception or a
crash; the server acts later than the window, or never; an add is two statements
that can be cut apart; either process can die anywhere; the window remembers
row indices across steps that move rows, and sends what its editable table and
fields hold, checked or not, into statements made by concatenation. What makes the parts correct:

* the stream stays in step: a type is followed by its own object;
* the server carries out what it was handed whole, in order, at most once;
* the two tables keep a row under the same key, with the same content until it
  is edited;
* a value edited in a field reaches the column the field stands for and no other;
* nobody waits for ever who is not behind another client;
* what the window shows and acts on is what is in the database.

The hazards, each at its line and with the properties aimed at it, are in
`PROJECT.json`.

## Modules

| Module | Models |
|---|---|
| `Wire` | the requests, the items of the stream, a flushed write, the ends of the connection |
| `Server` | `Server.main`'s loop, `DBConnection`, the two tables |
| `WireClient` | what any window does to the connection, whatever its user clicks |
| `Session` | `Server` and `WireClient` together, through successive sessions; the properties of the protocol |
| `RequestQueue` | abstract specification of the server: a queue of whole requests |
| `SessionProofs` | the proofs of `Session`'s invariants |
| `QueueProofs` | the proof that `Session` implements `RequestQueue` |
| `ClientGUI` | the widgets: `WireClient`'s actions with the fields that choose the requests and the changes each handler makes to the window |
| `Billboards` | `ClientGUI` and `Server` together, on top of `Session`: the whole system, which implements `Session` |
| `BillboardsProofs` | the proofs about the window and that `Billboards` implements `Session` |
| `Connections` | listening, backlog, `accept` and the exchange of stream headers between any number of clients, window or console, and successive server processes |
| `ConnectionsProofs` | the proofs about `Connections` |
| `TableCells` | the columns: the cursor loop of `showTable`, the window's cells, the fields of the edit tab, the columns an update sets; cells, fields and ids typed over, Delete, Update without Edit, texts as literals of SQL |
| `TableCellsProofs` | the proofs about `showTable`'s loop and about the cells |
| `MCSession`, `MCBillboards`, `MCConnections`, `MCTableCells` | the modules TLC runs |

`Session` and `Billboards` differ in the client only. `Session` lets it send any
request at any time, so its results hold for any window; `Billboards` extends it
with the window that exists (`WindowSpec`, whose steps of the client are
`ClientGUI`'s), and `ImplementsSession` says that `WindowSpec` allows nothing
`Spec` does not. `Connections` ends where `Session` starts, with the server
in its loop and its client past the headers. `TableCells` looks at what
`Session` and `ClientGUI` keep in one value, a row. The user's actions are all
there; of what the other two model it keeps the outcome: a row is selected or
not, a request is carried out, in order, or lost with the server. Adds and
schedules are left out, since the window does not show them before a restart.

Correspondence with the code:

* An action is a stretch of code between two points where another process can
  take a step: a read, a flushed write, a call to the database. `serverPc` and
  `clientPc` name the next such call. A handler that writes and then changes the
  window does both in one action (`FinishDelete`, `FinishUpdate`): it runs on
  the event dispatch thread, and nothing else in the client runs meanwhile.
* A type and an object are two items of the stream because the code flushes
  after each. Reading an object where a string is next is
  `OptionalDataException`; an object of another class would be
  `ClassCastException`.
* After the server's process has ended a write may still succeed, into buffers
  nobody reads, or throw: `Write` and `WriteThrows` are both possible.
* `clientEnd` is `"fin"` for an orderly end of the client, after which the
  server reads what was sent and then gets `EOFException` for ever, and `"rst"`
  for a reset, which is an exception the loop does not catch.
* A text, a schedule and an id stand for the several fields they are made of.
  `Rejected` are those the database refuses; the others it stores as they are.
  That is an abstraction: the program concatenates texts into its statements
  (`Server.java:42,43,58,114`), where they can also be read otherwise and succeed
  with another effect. Only `TableCells` has that, for line 114 (below).
  An id that is no number is `NaN`; MariaDB compares it as 0 or, in strict mode,
  refuses it, and both happen in the model.
* `view.BillboardID` is generated when `ViewAutoInc` is true. In the checked-in
  `view.frm` it is not, and defaults to 0; `Server.java:43` reads as if it were
  generated. Both are checked.
* The two tables' counters start at one `FirstKey`. Nothing in the code ties
  them, and in the checked-in data they are apart (`view` ends at key 1,
  `billboard`, without a key 2, at 8). So `EditFindsRow`, `KeysInStep` and
  `SameKeySameText` are about databases set up with a generated key in `view`
  and both tables started together, which is what `Server.java:42-43` and
  `:114` need; with the checked-in schema they say nothing. `TableCells` assumes
  no such thing: a row of `view` may have no row of `billboard` under its key.
* The failure of `statement.close()` is not told apart from the failure of the
  process after the statement (`KillServer`).
* Swing is modelled where the fields depend on it: `getSelectedRow()` is the
  smallest selected index, also when that row is gone. The client's table
  listener (`clientGUI.java:110-118`) runs before JTable's own and throws when
  the removed row was the last, so that JTable never adjusts its selection.
  After an ordinary removal the selection moves with the rows and the selection
  listener runs again.
* `getValueAt(row, 0)` is the column displayed first. After `DragColumn` that is
  another one, and a selection reads one of `OtherCells`: a number, which is
  taken for an id, or a text, at which the listener throws and keeps its old
  target. Only `valueChanged` reads displayed columns; Edit and the table
  listener use the model's.
* A connection waits in the backlog with what its client wrote, and stays there
  when the client ends, except that a reset one may be taken out. The end of the
  server's process breaks all of them (`lost`). The constructor of an
  `ObjectOutputStream` writes its header through to the socket, so that writing
  a header never waits.
* In `TableCells` a cell is the pair of its row and column, so that a value that
  changes its column is seen. `setText(null)` makes an empty text of NULL, which
  an update then stores. `rowToEdit` starts at the first row, as Java's 0, and
  is 0 for Java's -1: Update without Edit writes into the first row.
* `Literal` is what the database makes of a text between quotes: a backslash is
  an escape and disappears, two quotes are one. It is any function in the proofs;
  in the runs it changes the typed text and the urls. A text in `Quoted` ends its
  quotes early: the statement is refused (`ServerEnds`) or sets any columns of
  any rows (`UpdateMisread`). That a statement so read could change keys as well
  is left out.
* `torn`, `edited`, `picked`, `strays`, `misread`, `editFresh`, `overwritten`,
  `aborted`, `served`, `kept`, `astray`, `behind` and `mixed` are history variables: they record
  what happened and no guard reads them.
* Operators named `Mut...` are deliberate mistakes next to the definition they
  alter. No specification uses them; each shows that a property would notice.

## Runs

| Run | Shows |
|---|---|
| `session` | Two sessions of two requests with every failure. The stream stays in step unless a delete was aborted; the tables' keys and contents agree until an add is cut short or a row is edited; a failed connect is met by no request of the user; a server whose client left spins until it is killed and changes nothing; the server implements `RequestQueue`. |
| `session_live` | Under fairness, with the checked-in schema: the constructor, a handler at a full socket and a request handed over all come to an end. |
| `get_instance` | Expected violation: `getInstance()` returns null after a failed connect, though its comment promises a handle (`DBConnection.java:42`). |
| `window` | The whole system, three rows, two requests. What the window shows exists, what is highlighted is what Delete and Edit use, an update after an undisturbed Edit hits the row it loaded, only selected rows are deleted, and the window implements `Session`'s client. `WindowInv` is the inductive invariant of the proofs. A Delete between Edit and Update, and a row hidden from the window but not deleted, are left to `table_cells`. |
| `window_cells` | The same for two rows and two sessions, with ids typed over in the table, also by texts that are no numbers. |
| `window_columns` | The same with a column dragged in front of the ids, and back. Numbers of that column become targets of Delete (`strays`); once a row is selected with the ids in front, the highlight is the target again. |
| `connections` | Three clients, two server processes, all ending anywhere. One process serves one client; a client past the headers is not cut off by the death of another; who waits at its header is with a server that runs, or its connection is broken. |
| `connections_live` | Under fairness: whoever is first when the server accepts gets past the headers or is told; the end of a process frees all who wait for it. |
| `table_cells` | Two rows, three inputs: a cell, a field or an id typed over, an Update or a Delete each. The reply is the whole table. An update leaves alone, or stores again as a literal, each column whose field holds what Edit put there. A row of the window shows what `billboard` holds under its id, wherever deletes have moved it. The rows gone from the window are those gone from `view`. The exceptions are named in the properties and are the code's faults: cells typed over, rows updated through another row (a Delete between Edit and Update, an id typed by hand), a Delete of one row that asks for another's id, statements read otherwise than meant. `CellsInv` is the inductive invariant of the proofs. |
| `table_restart` | The same with two inputs over two sessions: rows edited in the first are out of step in the second, because `view` still has their old content, and an update sets the other columns back to it; all others are not. |
| `headings` | Expected violation: the message stands under the heading "Information" and the information under "Message" (`clientGUI.java:89`), the other way round than the labels of the fields they are loaded into (`clientGUI.form:226,242`). |

Bounds. `Capacity` is 1 to 3 items: 1 is a write that always waits for the
server, 3 is a request and a half, enough for an aborted type followed by
another whole request. Two requests in a session are enough for an aborted
delete and the request that is then misread, for an add followed by a request
that sees its keys, for two deletes of a stale selection, and for a delete
between an Edit and its Update. A second session is there for what survives a
restart, which is the tables. Three rows are enough for a first, a middle and a
last one. Where `OtherCells` or `CellIds` is empty no column is dragged and no
cell typed over: those runs look at the rest with more rows. Three clients are
one that is served, one that waits and one that finds the backlog of two full or
comes after a restart. Three inputs in `table_cells` are two updates of one row
under way at once with a field typed into before, a Delete between Edit and
Update with a typed field, or an id, a field and an Update without Edit; two in
`table_restart` an update in each of two sessions. `MaxRequests`, `MaxInputs`,
`MaxSessions` and `MaxProcesses` are guards of the model; the code has no such
limits. Deadlock is not checked: a session in which both processes have
ended, after the last session, is where the system stops.

Fairness (`FairSpec` of `Session`, and likewise of `Connections`): weak fairness of the server's thread and of the client's
program steps. It assumes the operating system schedules both and that a write
to a socket with room, a read with data and a statement return. Nothing is
assumed of the user, of the operator, of crashes or of the database's failures.

## Proofs

The proofs hold for all constants that satisfy the assumptions named in the
modules: `DataAssumption`, `IdAssumption`, `CapacityAssumption`,
`TableAssumption`, `MaxRequestsAssumption` and `MaxSessionsAssumption` for
`Session`, with `TypedAssumption` and `ShownAssumption` for the window,
`ClientsAssumption` and `BacklogAssumption` for `Connections`, and
`CellsAssumption` for `TableCells`. `ShownAssumption` says that the ids of the
rows in `view` are among those a user can name, which the rows shown are.

| Theorem | Statement |
|---|---|
| `TypeCorrect` | `Spec => []TypeOK` |
| `ReadUTFCorrect` | `Spec => []ReadUTFFindsString` |
| `MisreadCorrect` | `Spec => []MisreadOnlyAfterAbort` |
| `AsSentCorrect` | `Spec => []RunsRequestAsSent` |
| `NullCorrect` | `Spec => []NullOnlyBeforeTable` |
| `EditFindsRowCorrect` | `Spec => []EditFindsRow` |
| `KeysCorrect` | `Spec => []KeysInStep` |
| `SameTextCorrect` | `Spec => []SameKeySameText` |
| `SpinsCorrect` | `Spec => SpinsUntilKilled` |
| `IndInvCorrect` | `Spec => []IndInv`, from which those above follow |
| `OneClientCorrect` | `Spec => []OneClientPerProcess` |
| `ServedSafeCorrect` | `Spec => []ServedClientsAreSafe` |
| `NobodyWaitsCorrect` | `Spec => []NobodyWaitsInVain` |
| `ConnInvCorrect` | `Spec => []ConnInv`, from which the three above follow |
| `WholeTableCorrect` | `Spec => []RepliesWholeTable` |
| `CellsInvCorrect` | `Spec => []CellsInv` |
| `WindowShowsCorrect` | `Spec => []WindowShowsBillboard` |
| `UntouchedCorrect` | `Spec => UntouchedColumnsStay` |
| `CarriesOutCorrect` | `Spec => CarriesOutRequests`: `Session` implements `RequestQueue` |
| `WindowImplementsSession` | `WindowSpec => ImplementsSession`, that is `Session`'s `Spec` |
| `WindowCarriesOut` | `WindowSpec => CarriesOutRequests`, from the two above |
| `WindowInvCorrect` | `WindowSpec => []WindowInv` |
| `GuiTypeCorrect` | `WindowSpec => []GuiTypeOK` |
| `ShownRowsCorrect` | `WindowSpec => []ShownRowsExist` |
| `HighlightCorrect` | `WindowSpec => []HighlightIsTarget` |
| `UpdateHitsCorrect` | `WindowSpec => UpdateHitsLoadedRow` |
| `DeletesPickedCorrect` | `WindowSpec => DeletesOnlyPicked` |

The argument. Even the types are not inductive alone: `addBillboard` and
`addView` both carry an `Add`, so that a text is stored as a text depends on the
whole history of the stream. `IndInv` therefore says what the unread stream
looks like (`Framing`), counting as its item 0 the type the server has read and
waits for the object of: every object follows the type it was written for
(`ObjectsFollowTypes`), and every type is followed by its object unless that is
still to come, the client is gone, or a delete was aborted (`TypesAwaitObjects`).
A read of the server drops items from the front (`FramingRead`), a write adds
one at the end (`FramingWrite`), everything else leaves the stream alone. At the
moment of a read `Framing` decides what the read meets (`NextObject`,
`NextType`). For the keys, `Keys` says that `billboard` has every key generated
so far and no later ones, that `view`'s counter does not overtake
`billboard`'s, and that between the two inserts the row `view` is about to get
is the one `billboard` got under the same key, unless an add was cut short
before; `SameKeySameText` needs all of it. `SpinsUntilKilled` follows from
`Control`: a client whose end is closed takes no step. `StartUp` says
that a table, and so a window that can send, only exists after the database was
reached.
`TableAssumption` contains what the initial tables must satisfy, one counter for
both (see above) and, with generated keys, `view`'s keys among `billboard`'s.
The rows at the
start have one content in both tables, as adds leave them.

For `Connections`, `HeadersGoToPeer` says that a header the server wrote went to
its present client or to one of an ended process, and that nobody is past the
headers before it was written; a second client would need a second header. So a
process that ends by its peer's death has served that peer or nobody. Nobody
waits in vain because accepting, or the system dropping a reset connection, takes
one client out of the backlog and no other (`BacklogKeeps`), and the end of a
process marks all that are left (`WaitingSteps`).

For `TableCells`, `CopyInStep` says that the cursor and the copy are at the same
row at every turn of the loop. That the window ends up showing `billboard`, and
that an update leaves alone what was not typed, is not inductive while requests
are under way. `InStep` therefore says what a text is made from: the last edit of
its key among the first requests of the queue or, when there is none, the row of
`billboard`, if that row is `Trusted`. `CellsInv` has it of every cell that is
not astray and of every field Edit filled, with respect to the whole queue, and
of every value an edit under way kept, with respect to the requests before it.
A request written at the end is the new origin of its own row and changes nothing
for others (`OwnAppended`, `OtherAppended`, `BeforeAppended`); carrying out the
first hands its role to `billboard` (`FirstCarriedOut`); nothing bounds the queue.
Update then has to show that the row it overwrites, whichever that is, holds what
it sent, and that other rows of that id are set down as astray (`UpdateStep`). The
lemmas `Positions`, `LoadedFields`, `WrittenValues` and `UpdatedColumns` are the facts
about the arrays: which field, place and column belong together.

For the refinement of `RequestQueue`, `Objects` is what the stream holds of whole
requests. `ObjectsAppend` and `ObjectsTail` say what a write and a read do to it.
`Objects` is defined by recursion over the stream, and there is no induction over
data to be had from the provers with an operator for a parameter; the lemmas
argue instead with the first place where two sequences would differ
(`FirstPlace`, from the well-foundedness of the naturals), which is about a set.
With them each step is easy: a type read or written changes nothing, an object
written is `Submit`, an object read moves from the stream into the server's hand,
a statement is the operation of its request, and the end of the process is
`Lose`. `HandIsFirst` needs `RunsRequestAsSent`: the request in hand is the one
whose case runs.

For the window, `ShownRowsExist` depends on the deletes under way: `Deletes` are
their ids, from the stream and from the server's hand, and `DeletedNotShown` says
that the window shows none of them, and that the remembered index is the
remembered id's as long as that id is shown. So a repeated Delete of a stale
selection asks for an id that is gone already. `NoAdds` says that no key comes
into `view` that the user could not name, `RowsOwnIds` that a row is found by its
id, `DeletesPicked` and `EditLoaded` carry the two action properties.
`RowTakenOut` and `SelectionMoves` say what a removal does to the rows and to
JTable's selection. `WindowRefines` then shows that a step of a handler is a step
of `WireClient`; it takes `PendingFromFields`, that the object written is the one
announced.

Only model-checked: the liveness properties of `session_live` and
`connections_live`, since fairness and ENABLED are beyond the prover, and
`SameRowsGone`, whose proof would count the deletes under way of each key.

## Not modelled

* The MariaDB distribution under `src/mariaDB`: third-party code that the program
  neither compiles nor includes. It makes up nearly all lines of the repository
  (the C headers of the database server alone are over 165,000). Modelling it
  would say nothing about this program, so the map does not reach into it; what
  the program sees of the database (refused statements, failures, generated
  keys, comparison of a text with a number) is marked external. The program
  itself is the 740 lines of Java in `src/Assignment/src`, imports and field
  declarations included; what is left of them unmapped is preview, permissions,
  imports, accessors and the repetitions of a handler the map names once.
* Preview reads an image and shows it, and changes nothing another part reads.
  It can freeze the window for as long as the fetch takes.
* Permissions (constants), `MyClass` (used in comments only), and layout.
* Submit of the create tab, since it changes nothing: it dereferences
  `textArea4`, which the form does not bind, before it writes anything. The
  requests it would send are in `Session` all the same.
* In `TableCells`, what is typed over the last three columns of the table (nothing
  reads it), adds and schedules. In `Server`, texts whose statement succeeds with
  another effect than meant (`Server.java:42,43,58,114`).

## Plan

1. Done: `Wire`, `Server`, `WireClient`, `Session`, `RequestQueue`, with the
   protocol's invariants, liveness, refinement and proofs; `ClientGUI` and
   `Billboards`; `Connections` and `TableCells`.
2. Done: theorems for every invariant, action property and refinement of the
   passing runs.
3. Left: a proof of `SameRowsGone`; what `RequestQueue` promises its client, as theorems about the abstract
   specification alone; shorter proofs where leaves repeat.
