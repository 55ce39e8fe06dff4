------------------------------ MODULE MobileVault ------------------------------
(***************************************************************************)
(* The controller of the mobile app over its encrypted journal: creating   *)
(* and unlocking the vault, saving, deleting after a native dialog, and    *)
(* locking, which the system may cause at any time.                        *)
(*                                                                         *)
(* The app is single-threaded.  A step is a handler up to its next await,  *)
(* or the end of a journal write with the code that awaited it.  Key       *)
(* derivation, unlocking and sealing are synchronous.                      *)
(*                                                                         *)
(* A document is the number of the edit that made it.  The counters        *)
(* "epoch" and "stateVersion" are only compared with earlier values of     *)
(* theirs: op.revoked says that epoch has moved on since the operation     *)
(* began, prompt.fresh that neither has since the dialog was prepared.     *)
(***************************************************************************)
EXTENDS JournalStore

CONSTANTS
  MaxSessions,   \* bound: sessions opened by one process
  MaxEdits       \* bound: documents sealed

\* A vault is numbered by the edit that made it; somebody else has 1 and 2.
ASSUME MobileAssumption ==
  /\ MaxSessions \in Nat /\ MaxEdits \in Nat
  /\ Envelope = [vault : 1..MaxEdits \cup {1, 2}, edit : 1..MaxEdits]

VARIABLES
  active,        \* the app is in the foreground
  ready,         \* "loading", "ready" or "failed"
  envelope,      \* the cached envelope, NoEnvelope for null (and no hasVault)
  current,       \* the open session, 0 for null (and not unlocked)
  shown,         \* the document of the open session, 0 for none
  owned,         \* the sessions whose keys are not destroyed
  op,            \* the operation that holds "busy"
  prompt,        \* the dialog that asks whether to delete
  sessions,      \* sessions opened by this process
  edits,         \* documents sealed so far
  history        \* what the user was last told is stored, and the snapshot
                 \* that somebody else published and this process has not read

controller == <<active, ready, envelope, current, shown, owned, op, prompt, sessions>>
vars == <<journal, controller, edits, history>>

NoEnvelope == [vault |-> NoId, edit |-> 0]
NoOp == [kind |-> "none", create |-> FALSE, revoked |-> FALSE, session |-> 0, doc |-> 0]
NoPrompt == [open |-> FALSE, fresh |-> FALSE, session |-> 0, doc |-> 0]

Busy == op.kind # "none"
HasVault == envelope # NoEnvelope

MobileTypeOK ==
  /\ JournalTypeOK
  /\ active \in BOOLEAN
  /\ ready \in {"loading", "ready", "failed"}
  /\ envelope \in Envelope \cup {NoEnvelope}
  /\ current \in 0..sessions
  /\ shown \in 0..edits
  /\ owned \subseteq 1..sessions
  /\ op \in [kind : {"none", "yield", "create", "mutate"}, create : BOOLEAN,
             revoked : BOOLEAN, session : 0..sessions, doc : 0..edits]
  /\ prompt \in [open : BOOLEAN, fresh : BOOLEAN, session : 0..sessions,
                 doc : 0..edits]
  /\ sessions \in 0..MaxSessions
  /\ edits \in 0..MaxEdits
  /\ history \in [told : 0..edits, unseen : 0..MaxEdits, other : BOOLEAN]

\* A new process: nothing is read yet, and the app may be in the background.
NewController ==
  /\ active' \in BOOLEAN
  /\ ready' = "loading" /\ envelope' = NoEnvelope
  /\ current' = 0 /\ shown' = 0 /\ owned' = {}
  /\ op' = NoOp /\ prompt' = NoPrompt /\ sessions' = 0

Init ==
  /\ JournalInit
  /\ active \in BOOLEAN
  /\ ready = "loading" /\ envelope = NoEnvelope
  /\ current = 0 /\ shown = 0 /\ owned = {}
  /\ op = NoOp /\ prompt = NoPrompt /\ sessions = 0
  /\ edits = 0
  /\ history = [told |-> 0, unseen |-> 0, other |-> FALSE]

\* Variant: an update is not counted.
Uncounted == UNCHANGED prompt

\* update: a new stateVersion.
Updated == prompt' = [prompt EXCEPT !.fresh = FALSE]

-----------------------------------------------------------------------------
(* initialize *)

Initialize ==
  /\ ready = "loading"
  /\ Load
  /\ ready' = "ready"
  /\ envelope' = IF Latest = 0 THEN NoEnvelope ELSE files[Latest]
  /\ Updated
  /\ history' = [history EXCEPT !.unseen = 0]
  /\ UNCHANGED <<active, current, shown, owned, op, sessions, edits>>

\* Variant: a journal that cannot be read counts as a new one.
InitializeEmpty ==
  /\ ready = "loading"
  /\ sequence' = Latest /\ published' = Latest /\ initialized' = TRUE
  /\ ready' = "ready"
  /\ Updated
  /\ UNCHANGED <<directory, vaultId, queue, moving, active, envelope, current,
                 shown, owned, op, sessions, edits, history>>

InitializeFails ==
  /\ ready = "loading"
  /\ LoadFails
  /\ ready' = "failed"
  /\ Updated
  /\ UNCHANGED <<active, envelope, current, shown, owned, op, sessions, edits,
                 history>>

-----------------------------------------------------------------------------
(* lock *)

\* Variant: only the open session is discarded.
LockCurrent ==
  /\ current' = 0 /\ shown' = 0
  /\ owned' = owned \ {current}
  /\ op' = IF Busy THEN [op EXCEPT !.revoked = TRUE, !.doc = 0] ELSE op
  /\ Updated

\* Every session is discarded, an operation under way is revoked and the
\* document it was going to show is dropped.
Lock ==
  /\ current' = 0 /\ shown' = 0
  /\ owned' = {}
  /\ op' = IF Busy THEN [op EXCEPT !.revoked = TRUE, !.doc = 0] ELSE op
  /\ Updated

LockVault ==
  /\ current # 0
  /\ Lock
  /\ UNCHANGED <<journal, active, ready, envelope, sessions, edits, history>>

Background ==
  /\ active
  /\ active' = FALSE
  /\ Lock
  /\ UNCHANGED <<journal, ready, envelope, sessions, edits, history>>

Foreground ==
  /\ ~active
  /\ active' = TRUE
  /\ UNCHANGED <<journal, ready, envelope, current, shown, owned, op, prompt,
                 sessions, edits, history>>

Revoked == ~active \/ op.revoked

-----------------------------------------------------------------------------
(* What the native cryptography makes of documents and envelopes *)

\* create: a vault with a new id, and its envelope.
NewVault(doc) == [vault |-> doc, edit |-> doc]

\* seal: the envelope of the same vault with another document.
Sealed(doc) == [envelope EXCEPT !.edit = doc]

\* unlock: the document the envelope contains.
Opened == envelope.edit

-----------------------------------------------------------------------------
(* authenticate *)

\* Create when there is no vault, unlock when there is one; then one turn of the
\* event loop for the password field to clear.
Authenticate ==
  /\ active /\ ready = "ready" /\ ~Busy /\ current = 0
  /\ op' = [NoOp EXCEPT !.kind = "yield", !.create = ~HasVault]
  /\ Updated
  /\ UNCHANGED <<journal, active, ready, envelope, current, shown, owned,
                 sessions, edits, history>>

\* Revoked meanwhile, or the password is wrong.
AuthenticateReturns ==
  /\ op.kind = "yield"
  /\ op' = NoOp
  /\ Updated
  /\ UNCHANGED <<journal, active, ready, envelope, current, shown, owned,
                 sessions, edits, history>>

Unlock ==
  /\ op.kind = "yield" /\ ~op.create /\ ~Revoked
  /\ sessions < MaxSessions
  /\ sessions' = sessions + 1
  /\ owned' = owned \cup {sessions + 1}
  /\ current' = sessions + 1 /\ shown' = Opened
  /\ op' = NoOp
  /\ Updated
  /\ history' = [history EXCEPT !.told = Opened]
  /\ UNCHANGED <<journal, active, ready, envelope, edits>>

\* A vault and its session are made, and its envelope goes to the journal.
Create ==
  /\ op.kind = "yield" /\ op.create /\ ~Revoked
  /\ sessions < MaxSessions /\ edits < MaxEdits
  /\ sessions' = sessions + 1 /\ edits' = edits + 1
  /\ owned' = owned \cup {sessions + 1}
  /\ op' = [op EXCEPT !.kind = "create", !.session = sessions + 1]
  /\ Enqueue(NewVault(edits + 1))
  /\ UNCHANGED <<active, ready, envelope, current, shown, prompt, history>>

\* The new vault is stored: it is opened, unless a lock came meanwhile.
Created ==
  /\ op.kind = "create"
  /\ Publish
  /\ envelope' = moving[1].envelope
  /\ IF Revoked
     THEN owned' = owned \ {op.session} /\ UNCHANGED <<current, shown, history>>
     ELSE /\ current' = op.session /\ shown' = envelope'.edit
          /\ history' = [history EXCEPT !.told = envelope'.edit]
          /\ UNCHANGED owned
  /\ op' = NoOp
  /\ Updated
  /\ UNCHANGED <<active, ready, sessions, edits>>

CreateFails ==
  /\ op.kind = "create"
  /\ WriteFails
  /\ owned' = owned \ {op.session}
  /\ op' = NoOp
  /\ Updated
  /\ UNCHANGED <<active, ready, envelope, current, shown, sessions, edits,
                 history>>

-----------------------------------------------------------------------------
(* mutate *)

\* The changed document is sealed and its envelope goes to the journal; what is
\* shown stays.
Mutate ==
  /\ active /\ current # 0 /\ HasVault /\ ~Busy
  /\ edits < MaxEdits
  /\ edits' = edits + 1
  /\ op' = [NoOp EXCEPT !.kind = "mutate", !.session = current, !.doc = edits + 1]
  /\ Enqueue(Sealed(edits + 1))
  /\ UNCHANGED <<active, ready, envelope, current, shown, owned, sessions, history>>

Save == Mutate /\ Updated

\* The change does not apply, or the document cannot be sealed.
MutateRefused ==
  /\ active /\ current # 0 /\ HasVault /\ ~Busy
  /\ prompt.fresh
  /\ Updated
  /\ UNCHANGED <<journal, active, ready, envelope, current, shown, owned, op,
                 sessions, edits, history>>

\* Variant: the envelope is kept only for a session that is still open.
MutatedLate ==
  /\ op.kind = "mutate"
  /\ Publish
  /\ IF Revoked \/ op.doc = 0
     THEN UNCHANGED <<envelope, shown, history>>
     ELSE /\ envelope' = moving[1].envelope
          /\ shown' = op.doc
          /\ history' = [history EXCEPT !.told = op.doc]
  /\ op' = NoOp
  /\ Updated
  /\ UNCHANGED <<active, ready, current, owned, sessions, edits>>

\* The change is stored: it is shown and reported, unless a lock came meanwhile.
Mutated ==
  /\ op.kind = "mutate"
  /\ Publish
  /\ envelope' = moving[1].envelope
  /\ IF Revoked \/ op.doc = 0
     THEN UNCHANGED <<shown, history>>
     ELSE /\ shown' = op.doc
          /\ history' = [history EXCEPT !.told = op.doc]
  /\ op' = NoOp
  /\ Updated
  /\ UNCHANGED <<active, ready, current, owned, sessions, edits>>

\* Variant: a write that fails leaves the app busy.
MutateFailsBusy ==
  /\ op.kind = "mutate"
  /\ WriteFails
  /\ Updated
  /\ UNCHANGED <<active, ready, envelope, current, shown, owned, op, sessions,
                 edits, history>>

MutateFails ==
  /\ op.kind = "mutate"
  /\ WriteFails
  /\ op' = NoOp
  /\ Updated
  /\ UNCHANGED <<active, ready, envelope, current, shown, owned, sessions,
                 edits, history>>

\* Variant: the controller waits for the pending file only.
WritingUnwaited ==
  /\ WriteBegins
  /\ history' = IF op.doc # 0 THEN [history EXCEPT !.told = op.doc] ELSE history
  /\ UNCHANGED <<controller, edits>>

\* The pending file is written and its move begins; the controller waits on.
Writing ==
  /\ WriteBegins
  /\ UNCHANGED <<controller, edits, history>>

-----------------------------------------------------------------------------
(* prepareRemoval, and the dialog that may outlive everything but the process *)

AskRemoval ==
  /\ current # 0 /\ ~Busy
  /\ prompt' = [open |-> TRUE, fresh |-> TRUE, session |-> current, doc |-> shown]
  /\ UNCHANGED <<journal, active, ready, envelope, current, shown, owned, op,
                 sessions, edits, history>>

ConfirmRemoval ==
  /\ prompt.open /\ prompt.fresh
  /\ Mutate
  /\ prompt' = NoPrompt

\* Cancelled, or confirmed too late.
DropRemoval ==
  /\ prompt.open
  /\ prompt' = NoPrompt
  /\ UNCHANGED <<journal, active, ready, envelope, current, shown, owned, op,
                 sessions, edits, history>>

-----------------------------------------------------------------------------
(* The world around the app *)

Kill ==
  /\ Crash
  /\ NewController
  /\ history' = [history EXCEPT !.unseen = 0]
  /\ UNCHANGED edits

\* Somebody else, once, publishes a snapshot of this vault or of another one.  A
\* move that is under way goes on: it fails when its number is now taken, and is
\* not stopped by it when writes that failed before left it a higher one.
ExternalWrite(v) ==
  /\ ~history.other /\ edits < MaxEdits
  /\ External([vault |-> v, edit |-> edits + 1])
  /\ edits' = edits + 1
  /\ history' = [history EXCEPT !.other = TRUE,
                  !.unseen = IF initialized
                               /\ (moving = <<>> \/ moving[1].number = Latest + 1)
                             THEN edits + 1 ELSE 0]
  /\ UNCHANGED controller

-----------------------------------------------------------------------------
\* The ends of what was begun.
Settle ==
  \/ AuthenticateReturns
  \/ Unlock
  \/ Created
  \/ CreateFails
  \/ Writing
  \/ Mutated
  \/ MutateFails

Next ==
  \/ Initialize
  \/ InitializeFails
  \/ LockVault
  \/ Background
  \/ Foreground
  \/ Authenticate
  \/ Create
  \/ Save
  \/ MutateRefused
  \/ AskRemoval
  \/ ConfirmRemoval
  \/ DropRemoval
  \/ Kill
  \/ \E v \in {1, 2} : ExternalWrite(v)
  \/ Settle

Spec == Init /\ [][Next]_vars

\* Timers fire, and every file operation ends.
FairSpec == Spec /\ WF_vars(Settle)

-----------------------------------------------------------------------------
(* Properties *)

\* What the user was told is stored on this device is in the snapshot that the
\* next start will load, whatever failed, was revoked or was killed since.
SavesDurable ==
  history.told # 0 => Latest # 0 /\ files[Latest].edit >= history.told

\* An unlocked app at rest shows the document of the newest snapshot, and its
\* next change starts from that one: a save that ended behind the lock screen
\* counts, a save that failed does not.
UnlockedIsNewest ==
  (current # 0 /\ ~Busy /\ ~history.other)
    => Latest # 0 /\ envelope = files[Latest] /\ shown = envelope.edit

\* "Never replaces an existing vault using the create path": the journal holds
\* one vault, unless somebody else wrote to it.
OneVault ==
  ~history.other => \A m, n \in DOMAIN files : files[m].vault = files[n].vault

\* "Encrypted storage changed externally; reload before writing" and "fails rather
\* than replacing a concurrently published snapshot" (storage.ts): a snapshot that
\* somebody else published since the journal was read stays the newest one.  It is
\* not replaced, and not buried under a snapshot that was made without it, however
\* many saves are tried.
ForeignKept ==
  history.unseen # 0 => Latest # 0 /\ files[Latest].edit = history.unseen

\* Nothing is left behind a lock: the only keys are those of the open session and
\* of the vault that is being created, so that a lock in the middle of a creation
\* destroys a key that no screen shows yet, no write that ends later leaves one
\* behind, and the session on the screen has its key.  The draft goes with them.
KeysGoAtOnce ==
  /\ owned = {current, IF op.revoked THEN 0 ELSE op.session} \ {0}
  /\ ~active => owned = {}
  /\ ~active \/ op.revoked => op.doc = 0

\* "Revokes a pending native deletion callback": a deletion changes the document
\* and the session it was asked about, whatever happened behind the dialog.
RemovalIsCurrent ==
  [][ConfirmRemoval => current = prompt.session /\ shown = prompt.doc]_vars

\* The app does not stay busy: whatever fails or is revoked, the next operation
\* can begin.
BusyEnds == Busy ~> ~Busy
=============================================================================
