----------------------------- MODULE VaultSession -----------------------------
(***************************************************************************)
(* The vault page of one browser tab or desktop window: unlocking, saving, *)
(* syncing, importing a backup and locking, as far as they share the open  *)
(* session and the stored vault.                                           *)
(*                                                                         *)
(* The page is single-threaded.  A step is a handler up to its next await, *)
(* or a continuation with the microtasks it sets off; key derivation,      *)
(* sealing, file reads and requests end in steps of their own, in any      *)
(* order.  Every sealing goes through the write chain of its session.      *)
(*                                                                         *)
(* An envelope is a vault and the number of the edit it contains; an       *)
(* imported backup counts as a vault of its own, whichever vault it was    *)
(* made of.  The confirmation of an import covers the page and disables    *)
(* nothing behind it.                                                      *)
(***************************************************************************)
EXTENDS Integers, Sequences, FiniteSets

CONSTANTS
  Desktop,      \* IS_DESKTOP: native window, no sync
  MaxSessions,  \* bound: sessions opened
  MaxEdits,     \* bound: documents sealed
  MaxLocks      \* bound: lock requests

ASSUME ConstantsAssumption ==
  /\ Desktop \in BOOLEAN
  /\ MaxSessions \in Nat /\ MaxEdits \in Nat /\ MaxLocks \in Nat

VARIABLES
  stored,      \* the envelope in local storage
  session,     \* the sessions opened so far, in order
  status,      \* the screen: "setup", "locked" or "unlocked"
  current,     \* sessionRef, 0 for null
  shown,       \* documentRef, NoVault for null
  save,        \* pendingSave: the edit being saved, 0 for none (persistingRef)
  sync,        \* syncingRef, with the session and the document of the sync
  auth,        \* pendingAuthentication
  epoch,       \* the epoch of the lock queue
  lock,        \* the lock operation under way (lockingRef)
  import,      \* the import under way
  edits,       \* documents sealed or read from a server so far
  vaults,      \* vaults created or imported so far
  history      \* the save the user was promised, the vault last imported, and
               \* whether a failed sync left an old document on the page

vars == <<stored, session, status, current, shown, save, sync, auth, epoch,
          lock, import, edits, vaults, history>>

-----------------------------------------------------------------------------
Envelope == [vault : Nat, edit : Nat]
NoVault == [vault |-> 0, edit |-> 0]

\* A session is made from the envelope it was opened with; writes are the edits
\* its chain still has to seal.
Session ==
  [state : {"open", "closing", "destroyed"}, vault : Nat, writes : Seq(Nat)]

NoAuth == [on |-> FALSE, create |-> FALSE, ticket |-> 0, envelope |-> NoVault]
NoLock == [on |-> FALSE, session |-> 0, save |-> 0, failed |-> FALSE]
NoSync == [on |-> FALSE, session |-> 0, doc |-> NoVault, failed |-> FALSE]
NoImport == [stage |-> "none", existing |-> FALSE]

TypeOK ==
  /\ stored \in Envelope /\ shown \in Envelope
  /\ session \in Seq(Session)
  /\ status \in {"setup", "locked", "unlocked"}
  /\ current \in {0} \cup DOMAIN session
  /\ save \in 0..edits
  /\ sync \in [on : BOOLEAN, session : {0} \cup DOMAIN session,
               doc : Envelope, failed : BOOLEAN]
  /\ auth \in [on : BOOLEAN, create : BOOLEAN, ticket : 0..epoch,
               envelope : Envelope]
  /\ epoch \in 0..MaxLocks
  /\ lock \in [on : BOOLEAN, session : {0} \cup DOMAIN session,
               save : 0..edits, failed : BOOLEAN]
  /\ import \in [stage : {"none", "reading", "confirm", "closing"},
                 existing : BOOLEAN]
  /\ edits \in 0..MaxEdits
  /\ vaults \in Nat
  /\ history \in [wanted : Envelope, imported : Nat, stale : BOOLEAN]

Init ==
  /\ \/ stored = NoVault /\ status = "setup" /\ vaults = 0
     \/ stored = [vault |-> 1, edit |-> 0] /\ status = "locked" /\ vaults = 1
  /\ session = <<>> /\ current = 0 /\ shown = NoVault
  /\ save = 0 /\ edits = 0 /\ epoch = 0
  /\ sync = NoSync /\ auth = NoAuth /\ lock = NoLock /\ import = NoImport
  /\ history = [wanted |-> NoVault, imported |-> 0, stale |-> FALSE]

\* The screen that asks for the password; a lock that closes something hides it.
AuthShown == status # "unlocked" /\ ~(lock.on /\ (lock.session # 0 \/ auth.on))

\* The import controls of a screen that goes away: a choice made for an
\* existing vault goes with them, another one is carried on.
Unmounted ==
  IF import.stage = "confirm" \/ (import.stage = "reading" /\ import.existing)
  THEN NoImport ELSE import

-----------------------------------------------------------------------------
(* authenticate *)

\* Variant: the ticket counts the next lock request in.
NextTicket == epoch + 1

\* The ticket of an authentication: the lock requests there were before it.
Ticket == epoch

\* The vault is read, or a new one made, and the key derivation starts.
Authenticate ==
  /\ AuthShown
  /\ ~lock.on /\ ~auth.on
  /\ Len(session) < MaxSessions
  /\ auth' = [on |-> TRUE, create |-> status = "setup", ticket |-> Ticket,
              envelope |-> IF status = "setup" THEN NoVault ELSE stored]
  /\ UNCHANGED <<stored, session, status, current, shown, save, sync, epoch,
                 lock, import, edits, vaults, history>>

\* Wrong password, damaged vault, or the new vault cannot be stored.
AuthenticateFails ==
  /\ auth.on
  /\ auth' = NoAuth
  /\ UNCHANGED <<stored, session, status, current, shown, save, sync, epoch,
                 lock, import, edits, vaults, history>>

\* Variant: whoever has the password gets in.
NeverRevoked == FALSE

\* lockQueue.current fails or a lock is under way.
Revoked == auth.ticket # epoch \/ lock.on

\* createVault: a vault with a new id and an empty document.
NewVault == [vault |-> vaults + 1, edit |-> 0]

\* unlockVault: the document of the envelope the password fits.
Unlocked == auth.envelope

\* The key is derived: a new vault is stored, and the session becomes the
\* page's, unless a lock was requested since.
AuthenticateDone ==
  LET opened == IF auth.create THEN NewVault ELSE Unlocked IN
  /\ auth.on
  /\ auth' = NoAuth
  /\ vaults' = IF auth.create THEN vaults + 1 ELSE vaults
  /\ stored' = IF auth.create THEN opened ELSE stored
  /\ session' = Append(session,
       [state |-> IF Revoked THEN "destroyed" ELSE "open",
        vault |-> opened.vault, writes |-> <<>>])
  /\ IF Revoked THEN UNCHANGED <<status, current, shown, import>>
     ELSE /\ status' = "unlocked"
          /\ current' = Len(session) + 1
          /\ shown' = opened
          /\ import' = Unmounted
  /\ UNCHANGED <<save, sync, epoch, lock, edits, history>>

-----------------------------------------------------------------------------
(* persist, and the write chain of a session *)

\* Queue the next document in the chain of session s; seal refuses when closing.
Queue(s) ==
  /\ session[s].state = "open"
  /\ edits < MaxEdits
  /\ edits' = edits + 1
  /\ session' = [session EXCEPT ![s].writes = Append(@, edits + 1)]

\* Variant: the page shows the new document before it is sealed.
PersistShowing ==
  /\ current # 0
  /\ ~lock.on /\ ~sync.on /\ save = 0
  /\ Queue(current)
  /\ save' = edits + 1
  /\ history' = [history EXCEPT !.wanted =
       [vault |-> session[current].vault, edit |-> edits + 1]]
  /\ shown' = [shown EXCEPT !.edit = edits + 1]
  /\ UNCHANGED <<stored, status, current, sync, auth, epoch, lock, import, vaults>>

\* A change is sealed; the document is shown when it is stored.
Persist ==
  /\ current # 0
  /\ ~lock.on /\ ~sync.on /\ save = 0
  /\ Queue(current)
  /\ save' = edits + 1
  /\ history' = [history EXCEPT !.wanted =
       [vault |-> session[current].vault, edit |-> edits + 1]]
  /\ UNCHANGED <<stored, status, current, shown, sync, auth, epoch, lock,
                 import, vaults>>

\* sealVault: the document in an envelope of the session's vault.
Seal(s, edit) == [vault |-> session[s].vault, edit |-> edit]

\* What the end of a sealing means to the page: the save under way is over and
\* its document shown, unless a lock began; or the sync goes on with it.
Sealed(s, edit, ok) ==
  LET doc == Seal(s, edit) IN
  /\ save' = IF edit = save THEN 0 ELSE save
  /\ shown' = IF ok /\ edit = save /\ ~lock.on THEN doc ELSE shown
  /\ sync' = IF sync.on /\ sync.session = s /\ edit # save
             THEN IF ok THEN [sync EXCEPT !.doc = doc]
                  ELSE [sync EXCEPT !.failed = TRUE]
             ELSE sync
  /\ lock' = IF lock.on /\ edit = lock.save
             THEN [lock EXCEPT !.save = 0, !.failed = ~ok] ELSE lock
  /\ history' = IF edit = save /\ ~lock.on
                THEN IF ok THEN [history EXCEPT !.stale = FALSE]
                     ELSE [history EXCEPT !.wanted = shown]
                ELSE history

SealDone(s) ==
  /\ session[s].writes # <<>>
  /\ stored' = Seal(s, Head(session[s].writes))
  /\ session' = [session EXCEPT ![s].writes = Tail(@)]
  /\ Sealed(s, Head(session[s].writes), TRUE)
  /\ UNCHANGED <<status, current, auth, epoch, import, edits, vaults>>

\* The sealing or the write to local storage fails; what was stored stays.
SealFails(s) ==
  /\ session[s].writes # <<>>
  /\ session' = [session EXCEPT ![s].writes = Tail(@)]
  /\ Sealed(s, Head(session[s].writes), FALSE)
  /\ UNCHANGED <<stored, status, current, auth, epoch, import, edits, vaults>>

-----------------------------------------------------------------------------
(* A sync, as far as the page sees it: it works with the session and the      *)
(* document of its start, may seal what it pulled, and hands a document back. *)

StartSync ==
  /\ ~Desktop
  /\ status = "unlocked" /\ ~lock.on /\ ~sync.on /\ save = 0
  /\ sync' = [on |-> TRUE, session |-> current, doc |-> shown, failed |-> FALSE]
  /\ UNCHANGED <<stored, session, status, current, shown, save, auth, epoch,
                 lock, import, edits, vaults, history>>

SyncSeals ==
  /\ sync.on /\ ~sync.failed
  /\ session[sync.session].writes = <<>>
  /\ Queue(sync.session)
  /\ UNCHANGED <<stored, status, current, shown, save, sync, auth, epoch, lock,
                 import, vaults, history>>

\* Variant: the page does not take over the document of the sync.
EndSyncUnshown ==
  /\ sync.on /\ ~sync.failed
  /\ session[sync.session].writes = <<>>
  /\ sync' = NoSync
  /\ UNCHANGED <<stored, session, status, current, shown, save, auth, epoch,
                 lock, import, edits, vaults, history>>

\* The page takes over the document the sync hands back.
EndSync ==
  /\ sync.on /\ ~sync.failed
  /\ session[sync.session].writes = <<>>
  /\ sync' = NoSync
  /\ shown' = sync.doc
  /\ history' = [history EXCEPT !.stale = @ /\ shown = sync.doc]
  /\ UNCHANGED <<stored, session, status, current, save, auth, epoch, lock,
                 import, edits, vaults>>

\* A request or a sealing fails: the page keeps the document it shows.
SyncFails ==
  /\ sync.on
  /\ session[sync.session].writes = <<>>
  /\ sync' = NoSync
  /\ history' = [history EXCEPT !.stale = @ \/ shown # sync.doc]
  /\ UNCHANGED <<stored, session, status, current, shown, save, auth, epoch,
                 lock, import, edits, vaults>>

-----------------------------------------------------------------------------
(* lock *)

\* A request bumps the epoch.  The first one closes the session and takes note
\* of the save and the authentication it has to wait for; later ones join it.
\* In the browser nothing is locked during a save or a sync.
RequestLock ==
  /\ epoch < MaxLocks
  /\ Desktop \/ (status = "unlocked" /\ save = 0 /\ ~sync.on)
  /\ epoch' = epoch + 1
  /\ IF lock.on THEN UNCHANGED <<lock, session, import>>
     ELSE /\ lock' = [on |-> TRUE, session |-> current, save |-> save,
                      failed |-> FALSE]
          /\ session' = IF current = 0 THEN session
                        ELSE [session EXCEPT ![current].state =
                                IF @ = "open" THEN "closing" ELSE @]
          /\ import' = IF current # 0 \/ auth.on THEN Unmounted ELSE import
  /\ UNCHANGED <<stored, status, current, shown, save, sync, auth, edits, vaults, history>>

\* Variant: nobody waits for the write chain.
DrainedAtOnce(s) == TRUE

\* close() waits for the write chain of its session.
Drained(s) == session[s].writes = <<>>

\* Variant: only a save that succeeds lets the lock end.
SettledWell ==
  /\ ~auth.on /\ lock.save = 0 /\ ~lock.failed
  /\ lock.session # 0 => Drained(lock.session)
  /\ import.stage # "closing"

\* Variant: the lock waits for the authentication only.
SettledUnsaved == ~auth.on /\ import.stage # "closing"

\* Everything the lock waits for is settled: the write chain, the save and the
\* authentication.  (A closing import waits for less and is over before.)
Settled ==
  /\ ~auth.on /\ lock.save = 0
  /\ lock.session # 0 => Drained(lock.session)
  /\ import.stage # "closing"

Destroyed(s) ==
  IF s = 0 THEN session ELSE [session EXCEPT ![s].state = "destroyed"]

\* The key is destroyed and everything the page held is dropped.
LockDone ==
  /\ lock.on
  /\ Settled
  /\ session' = Destroyed(lock.session)
  /\ current' = 0 /\ shown' = NoVault
  /\ status' = IF stored = NoVault THEN "setup" ELSE "locked"
  /\ lock' = NoLock
  /\ history' = [history EXCEPT !.wanted = NoVault, !.stale = FALSE]
  /\ UNCHANGED <<stored, save, sync, auth, epoch, import, edits, vaults>>

-----------------------------------------------------------------------------
(* Importing a backup *)

\* The user chooses a file, which is then read; whether it needs a confirmation
\* is settled by the screen it was chosen on.  (Bound: one import.)
ChooseBackup ==
  /\ import.stage = "none"
  /\ history.imported = 0
  /\ \/ AuthShown /\ ~auth.on
     \/ ~Desktop /\ status = "unlocked" /\ ~lock.on /\ ~sync.on /\ save = 0
  /\ import' = [stage |-> "reading", existing |-> status # "setup"]
  /\ UNCHANGED <<stored, session, status, current, shown, save, sync, auth,
                 epoch, lock, edits, vaults, history>>

\* The read fails, or the user cancels.
DropImport ==
  /\ import.stage \in {"reading", "confirm"}
  /\ import' = NoImport
  /\ UNCHANGED <<stored, session, status, current, shown, save, sync, auth,
                 epoch, lock, edits, vaults, history>>

AskToReplace ==
  /\ import.stage = "reading" /\ import.existing
  /\ import' = [import EXCEPT !.stage = "confirm"]
  /\ UNCHANGED <<stored, session, status, current, shown, save, sync, auth,
                 epoch, lock, edits, vaults, history>>

\* importLocalVaultBackup without or with the consent to overwrite, then
\* finishBackupImport up to its await.
ImportBackup ==
  /\ \/ import.stage = "reading" /\ ~import.existing /\ stored = NoVault
     \/ import.stage = "confirm"
  /\ stored' = [vault |-> vaults + 1, edit |-> 0]
  /\ vaults' = vaults + 1
  /\ history' = [history EXCEPT !.wanted = NoVault, !.imported = vaults + 1]
  /\ IF current = 0
     THEN /\ import' = NoImport
          /\ status' = "locked" /\ shown' = NoVault
          /\ UNCHANGED session
     ELSE /\ import' = [import EXCEPT !.stage = "closing"]
          /\ session' = [session EXCEPT ![current].state =
                           IF @ = "open" THEN "closing" ELSE @]
          /\ UNCHANGED <<status, shown>>
  /\ UNCHANGED <<current, save, sync, auth, epoch, lock, edits>>

\* The session is closed: finishBackupImport drops what the page held.
ImportDone ==
  /\ import.stage = "closing"
  /\ Drained(current)
  /\ session' = Destroyed(current)
  /\ current' = 0 /\ shown' = NoVault /\ status' = "locked"
  /\ import' = NoImport
  /\ UNCHANGED <<stored, save, sync, auth, epoch, lock, edits, vaults, history>>

-----------------------------------------------------------------------------
\* Steps that end what was begun.
Settle ==
  \/ AuthenticateDone
  \/ \E s \in DOMAIN session : SealDone(s)
  \/ EndSync
  \/ SyncFails
  \/ LockDone
  \/ ImportDone

Next ==
  \/ Authenticate
  \/ AuthenticateFails
  \/ Persist
  \/ \E s \in DOMAIN session : SealFails(s)
  \/ StartSync
  \/ SyncSeals
  \/ RequestLock
  \/ ChooseBackup
  \/ DropImport
  \/ AskToReplace
  \/ ImportBackup
  \/ Settle

Spec == Init /\ [][Next]_vars

-----------------------------------------------------------------------------
(* Properties *)

\* No sealing is under way on a session whose key is destroyed: it would seal
\* the vault with a zeroed key.
SealsHaveKey ==
  \A s \in DOMAIN session :
    session[s].writes # <<>> => session[s].state # "destroyed"

\* The key of a vault exists only while the page shows that vault: once the page
\* is locked, by a lock or by an import, no session is left whose key is not
\* destroyed, and an unlock that was still deriving its key when the lock was
\* requested leaves none behind.
LockedHasNoKey ==
  \A s \in DOMAIN session :
    session[s].state # "destroyed" => s = current /\ status = "unlocked"

\* Whenever nothing is under way the page shows what is stored: a failed save is
\* not shown and a shown document is not lost.  Only a sync that failed after
\* sealing (see SyncClient) leaves the page behind, with an older document of the
\* same vault.  (A backup imported behind the page, see ImportKept, is set apart.)
ShownIsStored ==
  (status = "unlocked" /\ ~lock.on /\ ~sync.on /\ save = 0 /\ history.imported = 0)
    => /\ shown.vault = stored.vault /\ shown.edit <= stored.edit
       /\ shown # stored => history.stale

\* A lock loses no save: when it has ended without an error, the newest document
\* the user saved in that session is the one that is stored.
LockKeepsSave ==
  [][(lock.on /\ ~lock'.on /\ ~lock.failed /\ history.wanted.vault = stored.vault)
       => stored.edit >= history.wanted.edit]_vars

\* "The imported vault is encrypted and locked": after an import what is stored
\* is that vault, until another one is imported.
ImportKept == history.imported # 0 => stored.vault = history.imported
=============================================================================
