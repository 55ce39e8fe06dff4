----------------------------- MODULE VaultChanges -----------------------------
(***************************************************************************)
(* What changes the items of an open vault page, on top of VaultSession:   *)
(* the editor, the delete dialog, the favourite button, the import of a    *)
(* CSV file, a sync, and the review of a login that the browser extension  *)
(* captured.  Each looks at the items at one moment and asks persist to    *)
(* change them at a later one.                                             *)
(*                                                                         *)
(* The documents are numbered as in VaultSession; an item is an object of  *)
(* JavaScript: `made' is the document it was made for, so that an item     *)
(* that was replaced in between is another one.  All items are of one      *)
(* site; a login is a user name there.  A view is a dialog, a preview or a *)
(* review the user was shown.                                              *)
(***************************************************************************)
EXTENDS VaultSession

CONSTANTS
  Login,     \* user names
  CsvFiles,  \* the CSV files: sequences of logins, NoLogin for an invalid row
  NoLogin,
  MaxViews   \* bound: views opened

ASSUME ChangesAssumption ==
  /\ ~Desktop /\ MaxViews \in Nat
  /\ NoLogin \notin Login /\ CsvFiles \subseteq Seq(Login \cup {NoLogin})

VARIABLES
  docs,    \* the items of each document
  dialog,  \* editing or deleting: the editor or the delete dialog
  csv,     \* the CSV file being read or previewed
  review,  \* the proposal of the extension under review
  born,    \* history: the session each view was opened in, and the items it showed
  saved,   \* history: the views whose change was stored, in order
  by       \* history: what made each document, of which view, from which one

views == <<dialog, csv, review>>
past == <<born, saved, by>>
changeVars == <<vars, docs, views, past>>

Item == [id : Nat \X Nat, login : Login, made : Nat]
NoItem == [id |-> <<0, 0>>, login |-> NoLogin, made |-> 0]
Row == [row : Nat, login : Login, duplicate : BOOLEAN]

NoDialog == [kind |-> "none", view |-> 0, item |-> NoItem]
NoCsv == [stage |-> "none", view |-> 0, rows |-> {}]
NoReview == [view |-> 0, login |-> NoLogin, seen |-> {}]

ChangesTypeOK ==
  /\ TypeOK
  /\ docs \in [0..edits -> SUBSET Item]
  /\ dialog \in [kind : {"none", "form", "delete"}, view : 0..Len(born),
                 item : [id : Nat \X Nat, login : Login \cup {NoLogin}, made : Nat]]
  /\ csv \in [stage : {"none", "reading", "preview"}, view : 0..Len(born),
              rows : SUBSET Row]
  /\ review \in [view : 0..Len(born), login : Login \cup {NoLogin},
                 seen : SUBSET Item]
  /\ saved \in Seq(DOMAIN born)
  /\ born \in Seq([session : DOMAIN session, sight : SUBSET Item])
  /\ Len(born) <= MaxViews
  /\ by \in Seq([kind : {"sync", "form", "delete", "favourite", "csv", "create",
                         "update"},
                 view : 0..Len(born), from : 0..edits, session : DOMAIN session,
                 seen : [id : Nat \X Nat, login : Login \cup {NoLogin}, made : Nat]])

ChangesInit ==
  /\ Init
  /\ docs \in {[e \in {0} |-> items] :
                 items \in {{}} \cup {{[id |-> <<0, 1>>, login |-> l, made |-> 0]} : l \in Login}}
  /\ dialog = NoDialog /\ csv = NoCsv /\ review = NoReview
  /\ born = <<>> /\ saved = <<>> /\ by = <<>>

-----------------------------------------------------------------------------
(* The items the page shows, and the operations on items *)

Items == docs[shown.edit]

\* The buttons that are disabled while the page locks, saves or syncs.
Enabled == status = "unlocked" /\ ~lock.on /\ ~sync.on /\ save = 0

Opens(v) ==
  /\ Len(born) < MaxViews /\ v = Len(born) + 1
  /\ born' = Append(born, [session |-> current, sight |-> Items])

\* updateVaultItem, addVaultItem and, for the one or the other, replaceItem, as
\* far as they make the item of the next document.
Updated(items, item, login) ==
  {IF i.id = item.id THEN [i EXCEPT !.login = login, !.made = edits + 1] ELSE i :
     i \in items}
Added(items, id, login) ==
  items \cup {[id |-> id, login |-> login, made |-> edits + 1]}
Replaced(items, item, login) ==
  IF \E i \in items : i.id = item.id THEN Updated(items, item, login)
  ELSE Added(items, item.id, login)

Made(kind, v, from, s, seen) ==
  Append(by, [kind |-> kind, view |-> v, from |-> from, session |-> s, seen |-> seen])
NextDoc(items) == [e \in 0..(edits + 1) |-> IF e <= edits THEN docs[e] ELSE items]

\* persist: the update is applied to the document the page shows now.
Change(kind, v, seen, items) ==
  /\ Persist
  /\ docs' = NextDoc(items)
  /\ by' = Made(kind, v, shown.edit, current, seen)

-----------------------------------------------------------------------------
(* The editor, the delete dialog and the favourite button *)

\* createLogin: the item of a new login has an id from the beginning.
NewLogin(v) == [NoItem EXCEPT !.id = <<v, 1>>]

\* Edit, or New login.
OpenForm ==
  /\ Enabled /\ dialog = NoDialog
  /\ \E v \in 1..MaxViews :
       /\ Opens(v)
       /\ \E item \in Items \cup {NewLogin(v)} :
            dialog' = [kind |-> "form", view |-> v, item |-> item]
  /\ UNCHANGED <<vars, docs, csv, review, saved, by>>

OpenDelete ==
  /\ Enabled /\ dialog = NoDialog
  /\ \E v \in 1..MaxViews : Opens(v) /\ \E item \in Items :
       dialog' = [kind |-> "delete", view |-> v, item |-> item]
  /\ UNCHANGED <<vars, docs, csv, review, saved, by>>

\* Save and Delete.  Nothing happens while the page syncs or saves.
SubmitForm(login) ==
  /\ dialog.kind = "form"
  /\ Change("form", dialog.view, dialog.item, Replaced(Items, dialog.item, login))
  /\ UNCHANGED <<views, born, saved>>

ConfirmDelete ==
  /\ dialog.kind = "delete"
  /\ \E i \in Items : i.id = dialog.item.id
  /\ Change("delete", dialog.view, dialog.item,
            {i \in Items : i.id # dialog.item.id})
  /\ UNCHANGED <<views, born, saved>>

CloseDialog ==
  /\ dialog # NoDialog
  /\ dialog' = NoDialog
  /\ UNCHANGED <<vars, docs, csv, review, past>>

\* The favourite button takes the latest version of its item.
Favourite(item) ==
  /\ Enabled
  /\ \E v \in 1..MaxViews :
       Opens(v) /\ Change("favourite", v, item, Updated(Items, item, item.login))
  /\ UNCHANGED <<views, saved>>

-----------------------------------------------------------------------------
(* The import of a CSV file *)

\* The rows of a file that can be imported, each with whether its login is in
\* the vault or in an earlier row.
Rows(file, items) ==
  {[row |-> n, login |-> file[n],
    duplicate |-> \/ \E i \in items : i.login = file[n]
                  \/ \E m \in 1..(n - 1) : file[m] = file[n]] :
     n \in {n \in DOMAIN file : file[n] # NoLogin}}

\* The rows are compared with the items of the moment the file was chosen.
ChooseCsv(file) ==
  /\ Enabled /\ csv.stage # "reading"
  /\ \E v \in 1..MaxViews :
       Opens(v) /\ csv' = [stage |-> "reading", view |-> v, rows |-> Rows(file, Items)]
  /\ UNCHANGED <<vars, docs, dialog, review, saved, by>>

\* The file is read, or cannot be.
CsvRead ==
  /\ csv.stage = "reading"
  /\ csv' \in {[csv EXCEPT !.stage = "preview"], NoCsv}
  /\ UNCHANGED <<vars, docs, dialog, review, past>>

\* The rows that a strategy imports, and the items with them.
Chosen(strategy) ==
  {r \in csv.rows : strategy = "import-all" \/ ~r.duplicate}
WithRows(items, rows) ==
  items \cup {[id |-> <<csv.view, r.row>>, login |-> r.login, made |-> edits + 1] :
                r \in rows}

ImportCsv(strategy) ==
  /\ csv.stage = "preview" /\ Chosen(strategy) # {}
  /\ Change("csv", csv.view, NoItem, WithRows(Items, Chosen(strategy)))
  /\ UNCHANGED <<views, born, saved>>

\* Cancel is disabled while an import is saved.
CancelCsv ==
  /\ csv.stage = "preview" /\ ~(save # 0 /\ by[save].view = csv.view)
  /\ csv' = NoCsv
  /\ UNCHANGED <<vars, docs, dialog, review, past>>

-----------------------------------------------------------------------------
(* The review of a captured login *)

\* A proposal of the extension replaces the one before.
Offer(login) ==
  /\ status = "unlocked" /\ ~lock.on
  /\ \E v \in 1..MaxViews :
       Opens(v) /\ review' = [view |-> v, login |-> login, seen |-> Items]
  /\ UNCHANGED <<vars, docs, dialog, csv, saved, by>>

\* It expires, is discarded, or its connection ends.
CancelReview ==
  /\ review # NoReview
  /\ review' = NoReview
  /\ UNCHANGED <<vars, docs, dialog, csv, past>>

\* An approval consumes the proposal, whatever becomes of it.
Consumed == NoReview

\* Variant: the target only has to exist.
SameId(item) == \E i \in Items : i.id = item.id

\* The target is the object the user was shown.
SameObject(item) == item \in Items

\* The user approves a new item, or the update of an item that was shown.
ApproveNew ==
  /\ review # NoReview
  /\ Change("create", review.view, NoItem,
            Added(Items, <<review.view, 1>>, review.login))
  /\ review' = Consumed
  /\ UNCHANGED <<dialog, csv, born, saved>>

ApproveUpdate(item) ==
  /\ review # NoReview /\ item \in review.seen
  /\ SameObject(item)
  /\ Change("update", review.view, item, Updated(Items, item, review.login))
  /\ review' = Consumed
  /\ UNCHANGED <<dialog, csv, born, saved>>

\* The page syncs or saves, or the target changed: nothing is saved.
ApproveRefused ==
  /\ review # NoReview
  /\ sync.on \/ save # 0 \/ \E item \in review.seen : ~SameObject(item)
  /\ review' = Consumed
  /\ UNCHANGED <<vars, docs, dialog, csv, past>>

-----------------------------------------------------------------------------
(* The page behind *)

\* Variant: a view stays until it is closed or its change is saved.
ViewsStay == UNCHANGED views

\* The screen of an open vault goes, and everything that was open on it.
ViewsGo == dialog' = NoDialog /\ csv' = NoCsv /\ review' = NoReview

\* A dialog closes when its change is stored.
SavedViewCloses(edit) ==
  /\ dialog' = IF edit = save /\ dialog.view = by[edit].view THEN NoDialog ELSE dialog
  /\ csv' = IF edit = save /\ csv.view = by[edit].view THEN NoCsv ELSE csv
  /\ UNCHANGED review

Stores(s) ==
  /\ SealDone(s)
  /\ LET edit == Head(session[s].writes)
     IN  /\ SavedViewCloses(edit)
         /\ saved' = IF by[edit].view = 0 THEN saved ELSE Append(saved, by[edit].view)
  /\ UNCHANGED <<docs, born, by>>

\* A pull finds that another device added, changed or removed an item.
Pulled(items) ==
  {Added(items, <<0, edits + 2>>, l) : l \in Login}
    \cup {Updated(items, i, i.login) : i \in items}
    \cup {items \ {i} : i \in items}

Pull ==
  /\ SyncSeals
  /\ \E items \in Pulled(docs[sync.doc.edit]) : docs' = NextDoc(items)
  /\ by' = Made("sync", 0, sync.doc.edit, sync.session, NoItem)
  /\ UNCHANGED <<views, born, saved>>

Leaves ==
  /\ RequestLock \/ ImportDone
  /\ ViewsGo
  /\ UNCHANGED <<docs, past>>

\* The rest of VaultSession is the same whatever the items are.
Behind ==
  /\ \/ Authenticate \/ AuthenticateFails \/ AuthenticateDone
     \/ StartSync \/ EndSync \/ SyncFails \/ LockDone
     \/ ChooseBackup \/ DropImport \/ AskToReplace \/ ImportBackup
     \/ \E s \in DOMAIN session : SealFails(s)
  /\ UNCHANGED <<docs, views, past>>

ChangesNext ==
  \/ OpenForm \/ OpenDelete \/ ConfirmDelete \/ CloseDialog
  \/ \E login \in Login : SubmitForm(login) \/ Offer(login)
  \/ \E item \in Items : Favourite(item)
  \/ \E file \in CsvFiles : ChooseCsv(file)
  \/ CsvRead \/ CancelCsv
  \/ \E strategy \in {"skip", "import-all"} : ImportCsv(strategy)
  \/ CancelReview \/ ApproveNew \/ ApproveRefused
  \/ \E item \in review.seen : ApproveUpdate(item)
  \/ \E s \in DOMAIN session : Stores(s)
  \/ Pull \/ Leaves \/ Behind

ChangesSpec == ChangesInit /\ [][ChangesNext]_changeVars

-----------------------------------------------------------------------------
(* Properties *)

\* A document of the page is stored over another one of its vault.  (A backup
\* imported behind the page and a sync that failed after sealing are set apart, as
\* in ShownIsStored.)
Supersedes ==
  /\ stored'.vault = stored.vault /\ stored' # stored
  /\ history.imported = 0 /\ ~history.stale

\* The items that the document stored by a step no longer has as they were.
Superseded == docs[stored.edit] \ docs[stored'.edit]

\* "Any replacement, including a sync revision with equal timestamps,
\* invalidates the displayed choice" (submitted-login-review.ts): whatever was
\* pulled, edited or saved since the review was opened, an approved update never
\* replaces an item in a version that the review did not show.
UpdatesWhatWasSeen ==
  [][Supersedes /\ by[stored'.edit].kind = "update"
       => Superseded \subseteq born[by[stored'.edit].view].sight]_changeVars

\* What a change may replace: a pull what the server has newer (see SyncClient),
\* the favourite button the version it was pressed on, an import or a new login
\* nothing.  The editor, the delete dialog and an approved update (see
\* UpdatesWhatWasSeen) replace their own item: the first two in whatever version
\* it has by then, for neither compares it with the one it was opened on.
MayReplace(change, item) ==
  \/ change.kind = "sync"
  \/ change.kind = "favourite" /\ item = change.seen
  \/ change.kind \in {"form", "delete", "update"} /\ item.id = change.seen.id

\* No change reverts another one by starting from an older document: each is made
\* from the very document it is stored over, and leaves every item of it as it is
\* but those it may replace.
NoChangeReverted ==
  [][Supersedes => /\ by[stored'.edit].from = stored.edit
                   /\ \A i \in Superseded : MayReplace(by[stored'.edit], i)]_changeVars

\* A view is good for one change, in the session it was opened in: what was open
\* before a lock or an import (vault-app.tsx lock, finishBackupImport) changes
\* nothing after it, and what was saved is not saved again, however often a save
\* failed and was tried again and however late it ended.
ViewsAreGoodOnce ==
  /\ \A e \in DOMAIN by : by[e].view # 0 => born[by[e].view].session = by[e].session
  /\ \A m, n \in DOMAIN saved : saved[m] = saved[n] => m = n
=============================================================================
