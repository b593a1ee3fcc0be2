----------------------------- MODULE ListEditors -----------------------------
(***************************************************************************)
(* The three editors of whole lists: the inspection lists                  *)
(* (components/filtereditor.svelte), the DNS block lists (dnslists.svelte) *)
(* and the custom DNS records (dnsArecords.svelte).  Each loads a list,    *)
(* lets the administrator add, change and remove one row, and sends the    *)
(* whole list back.  `editor' says which of them is mounted; they have the *)
(* same state and differ in how rows are identified (an index or a number  *)
(* given at load time), in what a failed load leaves, and in whether a     *)
(* save reloads the list or keeps what was sent.                           *)
(*                                                                         *)
(* A row carries an identity, uid, that the program does not have: the     *)
(* properties use it to say which row an edit or a deletion was meant for. *)
(* Every fetch can fail, before or after the server acted on it.           *)
(***************************************************************************)
EXTENDS Naturals, Sequences, SequencesExt, WebCommon

CONSTANTS Texts,      \* valid contents that can be typed
          Blank,      \* a content that does not pass the form's validation
          FirstList,  \* the list the server starts with
          MaxUid,     \* bound: rows ever made
          MaxSaves    \* bound: saves tried

(* A row as the server has it, as the screen has it, the row a dialog      *)
(* names, and a save under way.                                            *)
Vals == Texts \cup {Blank} \cup {FirstList[n].val : n \in DOMAIN FirstList}
Item == [uid : Nat, val : Vals]
Row == [id : Nat, uid : Nat, val : Vals, draft : BOOLEAN]
Named == [id : Nat, uid : Nat, draft : BOOLEAN]
Post == [rows : Seq(Item), op : {"save", "delete"}, uid : Nat \cup {None}, draft : BOOLEAN,
         phase : {"sent", "stored", "reload"}]

ASSUME ListAssumption ==
  /\ Blank \notin Texts
  /\ FirstList \in Seq(Item)
  /\ \A n \in DOMAIN FirstList : FirstList[n].uid = n /\ FirstList[n].val # Blank
  /\ None \notin Seq(Item) \cup Named \cup Post \cup Nat /\ Unread \notin Seq(Item) \cup {None}
  /\ MaxUid \in Nat /\ MaxSaves \in Nat

VARIABLES editor,
          stored,        \* the list on the server
          data, nextId,  \* the rows on the screen
          loading,
          loadFailed,    \* loadError of the last load; closing the message is left out
          load,          \* the loads under way: "mount" and "reload"
          saving, saves,
          post,          \* the save under way
          editingRowId, editingText, showForm, editingUid,
          pendingDelete,
          nextUid,
          blind,         \* a save was made while the list was not there
          unconfirmed    \* the server stored a list and the answer was lost

listVars == <<editor, stored, data, nextId, loading, loadFailed, load, saving, saves,
              post, editingRowId, editingText, showForm, editingUid,
              pendingDelete, nextUid, blind, unconfirmed>>

screen == <<data, nextId, loading, loadFailed, load>>
form == <<editingRowId, editingText, showForm, editingUid>>
server == <<stored, saving, saves, post, blind, unconfirmed, nextUid>>

Editors == {"filter", "lists", "records"}

(* Rows as the server has them, and as a load numbers them.                *)
Payload(rows) == [n \in DOMAIN rows |-> [uid |-> rows[n].uid, val |-> rows[n].val]]
Numbered(list) == [n \in DOMAIN list |->
                     [id |-> n, uid |-> list[n].uid, val |-> list[n].val, draft |-> FALSE]]

Uids(rows) == {rows[n].uid : n \in DOMAIN rows}
RowIds == {data[n].id : n \in DOMAIN data}
RowOf(id) == CHOOSE r \in ToSet(data) : r.id = id
\* Mutant: the rows after the one removed go with it.
WithoutRest(id) == SubSeq(data, 1, SelectInSeq(data, LAMBDA r : r.id = id) - 1)

(* The numbers of the rows are distinct, so that one row goes at most.     *)
Without(id) ==
  IF id \in RowIds THEN RemoveAt(data, CHOOSE n \in DOMAIN data : data[n].id = id) ELSE data
With(id, text) == [n \in DOMAIN data |->
                     IF data[n].id = id THEN [data[n] EXCEPT !.val = text] ELSE data[n]]
NewRow(text, id) == [id |-> id, uid |-> nextUid, val |-> text, draft |-> FALSE]

ListInit ==
  /\ editor \in Editors
  /\ stored = FirstList
  /\ data = <<>> /\ nextId = 1
  /\ loading = TRUE /\ loadFailed = FALSE
  /\ load = [mount |-> Unread, reload |-> None]
  /\ saving = FALSE /\ saves = 0 /\ post = None
  /\ editingRowId = None /\ editingText = Blank /\ showForm = FALSE /\ editingUid = None
  /\ pendingDelete = None
  /\ nextUid = Len(FirstList) + 1 /\ blind = FALSE /\ unconfirmed = FALSE

(***************************************************************************)
(* The server.                                                             *)
(***************************************************************************)
ReadList(l) ==
  /\ load[l] = Unread
  /\ load' = [load EXCEPT ![l] = stored]
  /\ UNCHANGED <<editor, data, nextId, loading, loadFailed, pendingDelete>>
  /\ UNCHANGED <<form, server>>

StoreList ==
  /\ post # None /\ post.phase = "sent"
  /\ stored' = post.rows
  /\ post' = [post EXCEPT !.phase = "stored"]
  /\ UNCHANGED <<editor, saving, saves, pendingDelete, blind, unconfirmed, nextUid>>
  /\ UNCHANGED <<screen, form>>

(* A save leaves the browser.  op, uid and draft say what the              *)
(* administrator meant it for.                                             *)
SendList(rows, op, uid, draft) ==
  /\ saves < MaxSaves
  /\ saves' = saves + 1
  /\ saving' = TRUE
  /\ post' = [rows |-> Payload(rows), op |-> op, uid |-> uid, draft |-> draft, phase |-> "sent"]
  /\ blind' = (blind \/ loading \/ loadFailed)
  /\ UNCHANGED <<stored, unconfirmed>>

LoadEnds(l) == load' = [load EXCEPT ![l] = None] /\ loading' = FALSE
Answered(l) == load[l] \notin {None, Unread}

(* After the reload that ends a save, the save itself ends: no event is    *)
(* handled in between.                                                     *)
SaveEnds(l) ==
  IF l = "reload" THEN /\ saving' = FALSE /\ post' = None
                       /\ UNCHANGED <<stored, saves, blind, unconfirmed, nextUid>>
  ELSE UNCHANGED server

(* A form or a dialog that is open covers the table and its buttons.       *)
Covered == showForm \/ pendingDelete # None

(***************************************************************************)
(* Inspection lists.  Edits are typed into the rows themselves.            *)
(***************************************************************************)
filterOffered ==
  LET table == /\ ~(loading /\ data = <<>>) /\ ~(data = <<>> /\ editingRowId = None)
               /\ ~Covered IN
  [add     |-> /\ ~(loading /\ data = <<>>) /\ ~Covered
               /\ ~table \/ (editingRowId = None /\ ~saving),
   editing |-> table /\ editingRowId \in RowIds,
   save    |-> table /\ editingRowId \in RowIds /\ ~saving,
   menus   |-> IF table THEN RowIds \ {editingRowId} ELSE {},
   confirm |-> pendingDelete # None /\ ~saving]

filterCanSaveEditing == editingRowId \in RowIds /\ RowOf(editingRowId).val # Blank

filterLoadAPIData(l, ok) ==
  /\ editor = "filter"
  /\ LoadEnds(l)
  /\ loadFailed' = ~ok
  /\ IF ok THEN /\ Answered(l)
                /\ data' = Numbered(load[l])
                /\ nextId' = Len(load[l]) + 1
                /\ editingRowId' = None
                /\ editingUid' = None
     ELSE UNCHANGED <<data, nextId, editingRowId, editingUid>>
  /\ load[l] # None
  /\ pendingDelete' = IF l = "reload" /\ post.op = "delete" THEN None ELSE pendingDelete
  /\ SaveEnds(l)
  /\ UNCHANGED <<editor, editingText, showForm>>

(* saveData: a save that is not confirmed changes nothing on the screen; a *)
(* confirmed one starts a reload, and saving stays set.                    *)
filterSaveData(ok) ==
  /\ editor = "filter"
  /\ post # None /\ post.phase # "reload"
  /\ IF ok THEN /\ post.phase = "stored"
                /\ post' = [post EXCEPT !.phase = "reload"]
                /\ loading' = TRUE /\ loadFailed' = FALSE
                /\ load' = [load EXCEPT !.reload = Unread]
                /\ UNCHANGED saving
     ELSE /\ post' = None /\ saving' = FALSE
          /\ UNCHANGED <<loading, loadFailed, load>>
  /\ unconfirmed' = (~ok /\ (unconfirmed \/ post.phase = "stored"))
  /\ UNCHANGED <<editor, stored, saves, blind, data, nextId, nextUid, pendingDelete>>
  /\ UNCHANGED form

filterHandleChange(text) ==
  /\ editor = "filter" /\ filterOffered.editing
  /\ data' = With(editingRowId, text)
  /\ UNCHANGED <<editor, nextId, loading, loadFailed, load, pendingDelete>>
  /\ UNCHANGED <<form, server>>

filterEditRow(id) ==
  /\ editor = "filter" /\ id \in filterOffered.menus
  /\ editingRowId' = id
  /\ editingUid' = RowOf(id).uid
  /\ UNCHANGED <<editor, editingText, showForm, pendingDelete>>
  /\ UNCHANGED <<screen, server>>

filterSaveEditingRow ==
  /\ editor = "filter" /\ filterOffered.save
  /\ filterCanSaveEditing
  /\ SendList(data, "save", editingUid, FALSE)
  /\ UNCHANGED <<editor, nextUid, pendingDelete>>
  /\ UNCHANGED <<screen, form>>

filterCancelEditing ==
  /\ editor = "filter" /\ filterOffered.save
  /\ data' = IF RowOf(editingRowId).draft THEN Without(editingRowId) ELSE data
  /\ editingRowId' = None
  /\ editingUid' = None
  /\ UNCHANGED <<editor, nextId, loading, loadFailed, load, editingText, showForm, pendingDelete>>
  /\ UNCHANGED server

filterAddRow ==
  /\ editor = "filter" /\ filterOffered.add
  /\ editingRowId = None
  /\ nextUid <= MaxUid
  /\ data' = Append(data, [NewRow(Blank, nextId) EXCEPT !.draft = TRUE])
  /\ nextId' = nextId + 1
  /\ editingRowId' = nextId
  /\ editingUid' = nextUid
  /\ nextUid' = nextUid + 1
  /\ UNCHANGED <<editor, loading, loadFailed, load, editingText, showForm, pendingDelete>>
  /\ UNCHANGED <<stored, saving, saves, post, blind, unconfirmed>>

filterRequestDelete(id) ==
  /\ editor = "filter" /\ id \in filterOffered.menus
  /\ pendingDelete' = [id |-> id, uid |-> RowOf(id).uid, draft |-> RowOf(id).draft]
  /\ UNCHANGED editor
  /\ UNCHANGED <<screen, form, server>>

filterConfirmDelete ==
  /\ editor = "filter" /\ filterOffered.confirm
  /\ SendList(Without(pendingDelete.id), "delete", pendingDelete.uid, pendingDelete.draft)
  /\ UNCHANGED <<editor, nextUid, pendingDelete>>
  /\ UNCHANGED <<screen, form>>

(***************************************************************************)
(* DNS block lists.  A row is its index; a save keeps what was sent.       *)
(***************************************************************************)
listsOffered ==
  [add     |-> ~Covered,
   menus   |-> IF Covered THEN {} ELSE RowIds,
   typing  |-> showForm /\ ~saving,
   save    |-> showForm /\ editingText # Blank /\ ~saving,
   confirm |-> pendingDelete # None /\ ~saving]

listsCloseForm ==
  /\ showForm' = FALSE /\ editingRowId' = None /\ editingText' = Blank
  /\ editingUid' = None

listsLoadAPIData(ok) ==
  /\ editor = "lists" /\ load.mount # None
  /\ LoadEnds("mount")
  /\ loadFailed' = ~ok
  /\ ok => Answered("mount")
  /\ data' = IF ok THEN Numbered(load.mount) ELSE <<>>
  /\ UNCHANGED <<editor, nextId, pendingDelete>>
  /\ UNCHANGED <<form, server>>

listsOpenCreate ==
  /\ editor = "lists" /\ listsOffered.add
  /\ showForm' = TRUE /\ editingRowId' = None /\ editingText' = Blank /\ editingUid' = None
  /\ UNCHANGED <<editor, pendingDelete>>
  /\ UNCHANGED <<screen, server>>

listsEditRow(id) ==
  /\ editor = "lists" /\ id \in listsOffered.menus
  /\ showForm' = TRUE
  /\ editingRowId' = id
  /\ editingText' = RowOf(id).val
  /\ editingUid' = RowOf(id).uid
  /\ UNCHANGED <<editor, pendingDelete>>
  /\ UNCHANGED <<screen, server>>

\* Mutant: the dialog stays open after its deletion.
PersistKeepsDialog(ok) ==
  /\ editor = "lists" /\ post # None
  /\ ok => post.phase = "stored"
  /\ saving' = FALSE /\ post' = None
  /\ data' = IF ok THEN Numbered(post.rows) ELSE data
  /\ IF ok /\ post.op = "save" THEN listsCloseForm ELSE UNCHANGED form
  /\ unconfirmed' = (~ok /\ (unconfirmed \/ post.phase = "stored"))
  /\ UNCHANGED <<editor, stored, saves, blind, nextId, nextUid, loading, loadFailed, load, pendingDelete>>

(* saveRow closes the form, confirmDelete the dialog.                      *)
listsPersist(ok) ==
  /\ editor = "lists" /\ post # None
  /\ ok => post.phase = "stored"
  /\ saving' = FALSE /\ post' = None
  /\ data' = IF ok THEN Numbered(post.rows) ELSE data
  /\ IF ok /\ post.op = "save" THEN listsCloseForm ELSE UNCHANGED form
  /\ pendingDelete' = IF ok /\ post.op = "delete" THEN None ELSE pendingDelete
  /\ unconfirmed' = (~ok /\ (unconfirmed \/ post.phase = "stored"))
  /\ UNCHANGED <<editor, stored, saves, blind, nextId, nextUid, loading, loadFailed, load>>

listsSaveRow ==
  /\ editor = "lists" /\ listsOffered.save
  /\ IF editingRowId = None
     THEN /\ nextUid <= MaxUid
          /\ nextUid' = nextUid + 1
          /\ SendList(Append(data, NewRow(editingText, Len(data) + 1)), "save", nextUid, FALSE)
     ELSE /\ SendList(With(editingRowId, editingText), "save", editingUid, FALSE)
          /\ UNCHANGED nextUid
  /\ UNCHANGED <<editor, pendingDelete>>
  /\ UNCHANGED <<screen, form>>

listsRequestDelete(id) ==
  /\ editor = "lists" /\ id \in listsOffered.menus
  /\ pendingDelete' = [id |-> id, uid |-> RowOf(id).uid, draft |-> RowOf(id).draft]
  /\ UNCHANGED editor
  /\ UNCHANGED <<screen, form, server>>

listsConfirmDelete ==
  /\ editor = "lists" /\ listsOffered.confirm
  /\ SendList(Without(pendingDelete.id), "delete", pendingDelete.uid, pendingDelete.draft)
  /\ UNCHANGED <<editor, nextUid, pendingDelete>>
  /\ UNCHANGED <<screen, form>>

(***************************************************************************)
(* Custom DNS records.  A row has the number its load gave it; a save      *)
(* reloads the list before it ends.                                        *)
(***************************************************************************)
recordsOffered ==
  [add     |-> ~Covered,
   menus   |-> IF Covered THEN {} ELSE RowIds,
   typing  |-> showForm /\ ~saving,
   save    |-> showForm /\ editingText # Blank /\ ~saving,
   confirm |-> pendingDelete # None /\ ~saving]

recordsCloseForm ==
  /\ showForm' = FALSE /\ editingRowId' = None /\ editingText' = Blank
  /\ editingUid' = None

(* A failed load keeps the rows; the reload of a save then ends the save   *)
(* as a successful one does.                                               *)
recordsLoadAPIData(l, ok) ==
  /\ editor = "records" /\ load[l] # None
  /\ LoadEnds(l)
  /\ loadFailed' = ~ok
  /\ ok => Answered(l)
  /\ data' = IF ok THEN Numbered(load[l]) ELSE data
  /\ IF l = "reload" /\ post.op = "save" THEN recordsCloseForm ELSE UNCHANGED form
  /\ pendingDelete' = IF l = "reload" /\ post.op = "delete" THEN None ELSE pendingDelete
  /\ SaveEnds(l)
  /\ UNCHANGED <<editor, nextId>>

recordsOpenCreate ==
  /\ editor = "records" /\ recordsOffered.add
  /\ showForm' = TRUE /\ editingRowId' = None /\ editingText' = Blank /\ editingUid' = None
  /\ UNCHANGED <<editor, pendingDelete>>
  /\ UNCHANGED <<screen, server>>

recordsEditRow(id) ==
  /\ editor = "records" /\ id \in recordsOffered.menus
  /\ showForm' = TRUE
  /\ editingRowId' = id
  /\ editingText' = RowOf(id).val
  /\ editingUid' = RowOf(id).uid
  /\ UNCHANGED <<editor, pendingDelete>>
  /\ UNCHANGED <<screen, server>>

recordsPersist(ok) ==
  /\ editor = "records"
  /\ post # None /\ post.phase # "reload"
  /\ IF ok THEN /\ post.phase = "stored"
                /\ post' = [post EXCEPT !.phase = "reload"]
                /\ loading' = TRUE /\ loadFailed' = FALSE
                /\ load' = [load EXCEPT !.reload = Unread]
                /\ UNCHANGED saving
     ELSE /\ post' = None /\ saving' = FALSE
          /\ UNCHANGED <<loading, loadFailed, load>>
  /\ unconfirmed' = (~ok /\ (unconfirmed \/ post.phase = "stored"))
  /\ UNCHANGED <<editor, stored, saves, blind, data, nextId, nextUid, pendingDelete>>
  /\ UNCHANGED form

recordsSaveRow ==
  /\ editor = "records" /\ recordsOffered.save
  /\ IF editingRowId = None
     THEN /\ nextUid <= MaxUid
          /\ nextUid' = nextUid + 1
          /\ SendList(Append(data, NewRow(editingText, Len(data) + 1)), "save", nextUid, FALSE)
     ELSE /\ SendList(With(editingRowId, editingText), "save", editingUid, FALSE)
          /\ UNCHANGED nextUid
  /\ UNCHANGED <<editor, pendingDelete>>
  /\ UNCHANGED <<screen, form>>

recordsRequestDelete(id) ==
  /\ editor = "records" /\ id \in recordsOffered.menus
  /\ pendingDelete' = [id |-> id, uid |-> RowOf(id).uid, draft |-> RowOf(id).draft]
  /\ UNCHANGED editor
  /\ UNCHANGED <<screen, form, server>>

recordsConfirmDelete ==
  /\ editor = "records" /\ recordsOffered.confirm
  /\ SendList(Without(pendingDelete.id), "delete", pendingDelete.uid, pendingDelete.draft)
  /\ UNCHANGED <<editor, nextUid, pendingDelete>>
  /\ UNCHANGED <<screen, form>>

(***************************************************************************)
(* The form and the dialog.                                                *)
(***************************************************************************)
TypeText(text) ==
  /\ \/ editor = "lists" /\ listsOffered.typing
     \/ editor = "records" /\ recordsOffered.typing
  /\ text # editingText
  /\ editingText' = text
  /\ UNCHANGED <<editor, editingRowId, showForm, editingUid, pendingDelete>>
  /\ UNCHANGED <<screen, server>>

(* The cross of the modal and of the dialog closes it at any time, during  *)
(* a save too; the request goes on.                                        *)
CloseForm ==
  /\ showForm
  /\ listsCloseForm
  /\ UNCHANGED <<editor, pendingDelete>>
  /\ UNCHANGED <<screen, server>>

CloseDialog ==
  /\ pendingDelete # None
  /\ pendingDelete' = None
  /\ UNCHANGED editor
  /\ UNCHANGED <<screen, form, server>>

ListNext ==
  \/ \E l \in {"mount", "reload"} : ReadList(l)
  \/ StoreList
  \/ \E ok \in BOOLEAN :
       \/ \E l \in {"mount", "reload"} : filterLoadAPIData(l, ok) \/ recordsLoadAPIData(l, ok)
       \/ listsLoadAPIData(ok)
       \/ filterSaveData(ok) \/ listsPersist(ok) \/ recordsPersist(ok)
  \/ \E text \in Texts \cup {Blank} : filterHandleChange(text)
  \/ \E text \in Texts : TypeText(text)
  \/ \E id \in RowIds :
       \/ filterEditRow(id) \/ listsEditRow(id) \/ recordsEditRow(id)
       \/ filterRequestDelete(id) \/ listsRequestDelete(id) \/ recordsRequestDelete(id)
  \/ filterAddRow \/ filterSaveEditingRow \/ filterCancelEditing \/ filterConfirmDelete
  \/ listsOpenCreate \/ listsSaveRow \/ listsConfirmDelete
  \/ recordsOpenCreate \/ recordsSaveRow \/ recordsConfirmDelete
  \/ CloseForm \/ CloseDialog

ListSpec == ListInit /\ [][ListNext]_listVars

(***************************************************************************)
(* Properties.                                                             *)
(***************************************************************************)
(* A save drops no row but the one whose deletion was confirmed, although  *)
(* every save replaces the whole list on the server, unless one was made   *)
(* before the list was there (the three editors offer "Add" after a failed *)
(* load, dnslists and dnsArecords during one) or the answer to the save    *)
(* before it was lost, so that the screen still shows the older list.      *)
(* Drafts are excepted as below.                                           *)
OnlyNamedRowsDropped ==
  [][stored' # stored /\ ~blind /\ ~unconfirmed /\ ~post.draft =>
       Uids(stored) \ Uids(stored') \subseteq (IF post.op = "delete" THEN {post.uid} ELSE {})]_listVars

(* The deletion that can be confirmed is that of the row the dialog names, *)
(* although rows are renumbered under an open dialog: the save that        *)
(* renumbers them also closes the dialog.  Excepted are the drafts of an   *)
(* inspection list: two of them, left behind by editing another row during *)
(* a save, can change places with their numbers.                           *)
DialogNamesItsRow ==
  pendingDelete # None /\ ~blind /\ ~pendingDelete.draft /\ pendingDelete.id \in RowIds =>
    RowOf(pendingDelete.id).uid = pendingDelete.uid

(* Between requests the screen shows what the server has, unless a load    *)
(* failed, the answer to a save was lost or a save was made blindly.  The  *)
(* rows of an inspection list may hold text that is not saved, and drafts. *)
ListsAgree ==
  ~loading /\ ~saving /\ ~loadFailed /\ ~unconfirmed /\ ~blind =>
    IF editor = "filter"
    THEN {data[n].uid : n \in {m \in DOMAIN data : ~data[m].draft}} = Uids(stored)
    ELSE Payload(data) = stored

(* An editor shows that it loads or saves while a request is under way,    *)
(* and never after.                                                        *)
ListsBusy ==
  /\ loading => \E l \in DOMAIN load : load[l] # None
  /\ saving <=> post # None

(* "DNS block lists edit by row identity", "stable edit identity"          *)
(* (dns_ui.test.ts): a save from the form of a row changes that row only.  *)
EditsByIdentity ==
  [][post = None /\ post' # None /\ editor # "filter" /\ ~blind' /\ post'.op = "save" /\ editingRowId # None =>
       /\ \A n \in DOMAIN data : post'.rows[n].val # data[n].val => data[n].uid = editingUid
       /\ editingUid \in Uids(data)]_listVars
=============================================================================
