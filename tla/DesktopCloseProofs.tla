--------------------------- MODULE DesktopCloseProofs ---------------------------
(***************************************************************************)
(* Proofs about DesktopClose and, for the desktop, VaultClipboard: for any *)
(* number of sessions, saves, locks, copies and close requests.            *)
(*                                                                         *)
(* The steps of the window are steps of VaultSession, whose invariant      *)
(* holds therefore.  On top of it: a close is acknowledged only while all  *)
(* sessions of its time are destroyed, and a lock does not end before the  *)
(* entry of the clipboard is forgotten.                                    *)
(***************************************************************************)
EXTENDS DesktopClose, VaultSessionProofs

(* The inductive invariant *)

\* A vault that was stored stays, and no backup is imported behind an open page:
\* the choice of a file goes with the screen, or was made when nothing was stored.
StoredStays ==
  /\ status # "setup" \/ (auth.on /\ ~auth.create) => stored # NoVault
  /\ current # 0 => import.stage = "none" \/ (import.stage = "reading" /\ ~import.existing)

\* The page never holds a session whose key is destroyed.
PageHasKey == current # 0 => session[current].state # "destroyed"

\* The sessions there were when the close was requested are over.
OpenedAreOver ==
  \A s \in 1..opened :
    s \in DOMAIN session /\ session[s].state = "destroyed" /\ session[s].writes = <<>>

\* A close is acknowledged when they are and have lost nothing, and a lock that
\* began since is not theirs.
AnswerIsSafe ==
  answering \/ window = "destroyed" =>
    /\ ~lost /\ OpenedAreOver
    /\ lock.on => lock.session \notin 1..opened

CloseInv ==
  /\ notices <= closes
  /\ opened <= Len(session)
  /\ AnswerIsSafe
  /\ window = "destroyed" => ~busy

\* Every copy is numbered, and of the session it was asked in.
CopiesOwned ==
  /\ clipboard <= Len(owner) /\ entry <= Len(owner)
  /\ \A c \in copies : c.copy <= Len(owner) /\ owner[c.copy] = c.session

\* What is on the clipboard is still being copied, or is the entry.
Held(n) == \E c \in copies : c.copy = n
Registered ==
  clipboard # 0 /\ ~Held(clipboard) =>
    /\ entry = clipboard
    /\ current = owner[entry] \/ \E k \in clears : k.copy = entry

\* A lock waits until the entry is forgotten.
LockAwaitsEntry ==
  lock.on /\ entry # 0 => \E k \in clears : k.awaited /\ k.copy = entry

ClipInv == CopiesOwned /\ Registered /\ LockAwaitsEntry

DInv ==
  /\ IInv /\ DesktopTypeOK
  /\ StoredStays /\ PageHasKey
  /\ CloseInv
  /\ ClipInv

-----------------------------------------------------------------------------
(* The steps of VaultSession *)

\* A step of the window is a step of the page, or changes nothing of it.
LEMMA WindowStep == ASSUME [DesktopNext]_allVars PROVE [Next]_vars
  <1>1. CASE UNCHANGED allVars
    BY <1>1 DEF allVars, pageVars
  <1>2. CASE \/ RequestClose \/ CloseRefused \/ DestroyFails \/ Destroy
             \/ BeginExport \/ EndExport
             \/ ClipboardStep /\ UNCHANGED <<vars, native>>
    BY <1>2
    DEF RequestClose, CloseRefused, DestroyFails, Destroy, BeginExport, EndExport,
        pageVars
  <1>3. CASE LoseFocus \/ HandleClose \/ LockEnded
    BY <1>3
    DEF LoseFocus, HandleClose, LockEnded, ClipboardLock, ClipboardLockDone, Next,
        Settle
  <1>4. CASE BeginImport \/ EndImport \/ PageStep
    BY <1>4 DEF BeginImport, EndImport, PageStep, Next, Settle
  <1> QED
    BY <1>1, <1>2, <1>3, <1>4 DEF DesktopNext

\* Whatever holds of the page holds of the page in its window.
THEOREM WindowRefines == DesktopSpec => Spec
  <1>1. DesktopInit => Init
    BY DEF DesktopInit
  <1>2. [DesktopNext]_allVars => [Next]_vars
    BY WindowStep
  <1> QED
    BY <1>1, <1>2, PTL DEF DesktopSpec, Spec

\* Sessions are only added, and destroyed ones stay so; the page opens with an
\* open one, and gives its own up when it is destroyed.
SessionsGrow ==
  /\ DOMAIN session \subseteq DOMAIN session'
  /\ \A t \in DOMAIN session :
       /\ session[t].state = "destroyed" => session'[t].state = "destroyed"
       /\ session'[t].state = "destroyed" =>
            session[t].state = "destroyed" \/ current' = 0
  /\ current' \notin {0, current} => session'[current'].state = "open"

LEMMA SessionsGrowNext == ASSUME IInv, [Next]_vars PROVE SessionsGrow
  <1>1. CASE session' = session /\ current' \in {0, current}
    BY <1>1 DEF SessionsGrow
  <1>2. CASE AuthenticateDone
    <2> DEFINE opening == IF auth.create THEN NewVault ELSE Unlocked
               x == [state |-> IF Revoked THEN "destroyed" ELSE "open",
                     vault |-> opening.vault, writes |-> <<>>]
               n == Len(session) + 1
    <2>1. session' = Append(session, x) /\ current' \in {current, n}
          /\ (current' # current => ~Revoked)
      BY <1>2 DEF AuthenticateDone
    <2>2. opening.vault \in Nat
      BY DEF IInv, TypeOK, NewVault, Unlocked, Envelope
    <2>3. x \in Session /\ (~Revoked => x.state = "open")
      BY <2>2 DEF Session
    <2> HIDE DEF x
    <2>4. /\ DOMAIN session' = DOMAIN session \cup {n}
          /\ \A t \in DOMAIN session : session'[t] = session[t]
          /\ session'[n] = x
      BY <2>1, <2>3, SessionAdded DEF IInv, TypeOK
    <2> QED
      BY <2>1, <2>3, <2>4 DEF SessionsGrow
  <1>3. CASE Persist \/ SyncSeals
    <2>1. PICK s \in DOMAIN session : Queue(s) /\ session[s].writes = <<>>
      <3>1. CASE Persist
        <4>1. current \in DOMAIN session
          BY <3>1 DEF Persist, IInv, TypeOK
        <4>2. session[current].writes = <<>>
          BY <3>1, <4>1, Pending DEF Persist
        <4> QED
          BY <3>1, <4>1, <4>2 DEF Persist
      <3>2. CASE SyncSeals
        BY <3>2 DEF SyncSeals, IInv, TypeOK, OneWrite
      <3> QED
        BY <1>3, <3>1, <3>2
    <2>2. /\ DOMAIN session' = DOMAIN session
          /\ \A t \in DOMAIN session : t # s => session'[t] = session[t]
          /\ session'[s].state = session[s].state
      BY <2>1, Queued
    <2>3. current' = current
      BY <1>3 DEF Persist, SyncSeals
    <2> QED
      BY <2>2, <2>3 DEF SessionsGrow
  <1>4. ASSUME NEW s \in DOMAIN session, SealDone(s) \/ SealFails(s)
        PROVE  SessionsGrow
    <2>1. /\ session[s].writes # <<>> /\ current' = current
          /\ session' = [session EXCEPT ![s].writes = Tail(@)]
      BY <1>4 DEF SealDone, SealFails
    <2>2. /\ DOMAIN session' = DOMAIN session
          /\ \A t \in DOMAIN session : session'[t].state = session[t].state
      BY <2>1, Unqueued
    <2> QED
      BY <2>1, <2>2 DEF SessionsGrow
  <1>5. CASE RequestLock \/ ImportBackup
    <2>1. current' = current
      BY <1>5 DEF RequestLock, ImportBackup
    <2>2. CASE session' # session
      <3>1. /\ DOMAIN session' = DOMAIN session
            /\ \A t \in DOMAIN session :
                 session'[t].state = "destroyed" <=> session[t].state = "destroyed"
        BY <1>5, <2>2, Closes DEF RequestLock, ImportBackup
      <3> QED
        BY <2>1, <3>1 DEF SessionsGrow
    <2> QED
      BY <1>1, <2>1, <2>2
  <1>6. CASE LockDone \/ ImportDone
    <2>1. IInv' /\ current' = 0
      BY <1>6, LockDoneKeeps, ImportDoneKeeps DEF LockDone, ImportDone
    <2>2. DOMAIN session' = DOMAIN session
      BY <1>6 DEF LockDone, ImportDone, Destroyed
    <2>3. \A t \in DOMAIN session' : t # 0 => session'[t].state = "destroyed"
      BY <2>1 DEF IInv, OneSession
    <2>4. \A t \in DOMAIN session : t # 0
      BY SessionTyped DEF IInv
    <2> QED
      BY <2>1, <2>2, <2>3, <2>4 DEF SessionsGrow
  <1>7. CASE \/ Authenticate \/ AuthenticateFails \/ StartSync \/ EndSync \/ SyncFails
             \/ ChooseBackup \/ DropImport \/ AskToReplace \/ UNCHANGED vars
    <2>1. session' = session /\ current' = current
      BY <1>7
      DEF Authenticate, AuthenticateFails, StartSync, EndSync, SyncFails,
          ChooseBackup, DropImport, AskToReplace, vars
    <2> QED
      BY <1>1, <2>1
  <1> QED
    BY <1>2, <1>3, <1>4, <1>5, <1>6, <1>7 DEF Next, Settle

LEMMA PageHasKeyNext ==
  ASSUME IInv, PageHasKey, [Next]_vars
  PROVE  PageHasKey'
  BY SessionsGrowNext DEF SessionsGrow, PageHasKey, IInv, TypeOK

LEMMA LenGrows ==
  ASSUME IInv, IInv', SessionsGrow
  PROVE  Len(session) \in Nat /\ Len(session') \in Nat /\ Len(session) <= Len(session')
  <1>1. /\ Len(session) \in Nat /\ DOMAIN session = 1..Len(session)
        /\ Len(session') \in Nat /\ DOMAIN session' = 1..Len(session')
    BY LenProperties DEF IInv, TypeOK
  <1> QED
    BY <1>1 DEF SessionsGrow

LEMMA StoredStaysNext ==
  ASSUME IInv, StoredStays, [Next]_vars
  PROVE  StoredStays'
  <1>1. /\ vaults \in Nat /\ Desktop /\ NoVault = [vault |-> 0, edit |-> 0]
        /\ status = "unlocked" <=> current # 0
        /\ auth.on => current = 0
        /\ import.stage = "closing" => current # 0
    BY CloseAssumption DEF IInv, TypeOK, OneSession, NoVault, CloseAssumption
  <1>2. NewVault # NoVault /\ [vault |-> vaults + 1, edit |-> 0] # NoVault
    BY <1>1 DEF NewVault
  <1>3. import' \in {import, Unmounted} /\ current' = current =>
          (current' # 0 => \/ import'.stage = "none"
                           \/ (import'.stage = "reading" /\ ~import'.existing))
    BY DEF StoredStays, Unmounted, NoImport
  <1>4. CASE Authenticate \/ AuthenticateFails
    <2>1. /\ UNCHANGED <<stored, status, current, import>>
          /\ auth'.on /\ ~auth'.create => status # "setup"
      <3>1. CASE Authenticate
        <4>1. auth' = [on |-> TRUE, create |-> status = "setup", ticket |-> Ticket,
                       envelope |-> IF status = "setup" THEN NoVault ELSE stored]
          BY <3>1 DEF Authenticate
        <4>2. auth'.create = (status = "setup")
          BY <4>1
        <4> QED
          BY <3>1, <4>2 DEF Authenticate
      <3>2. CASE AuthenticateFails
        BY <3>2 DEF AuthenticateFails, NoAuth
      <3> QED
        BY <1>4, <3>1, <3>2
    <2> QED
      BY <2>1 DEF StoredStays
  <1>5. CASE AuthenticateDone
    <2>1. /\ auth.on /\ auth'.on = FALSE
          /\ stored' = IF auth.create THEN NewVault ELSE stored
      BY <1>5 DEF AuthenticateDone, NoAuth
    <2>2. stored' # NoVault
      BY <1>2, <2>1 DEF StoredStays
    <2>3. \/ UNCHANGED <<current, import>>
          \/ import' = Unmounted
      BY <1>5 DEF AuthenticateDone
    <2>4. import' = Unmounted =>
            \/ import'.stage = "none" \/ (import'.stage = "reading" /\ ~import'.existing)
            \/ import'.stage = "closing" /\ import' = import
      <3>1. import.stage \in {"none", "reading", "confirm", "closing"}
        BY DEF IInv, TypeOK
      <3> QED
        BY <3>1 DEF Unmounted, NoImport
    <2> QED
      BY <1>1, <2>1, <2>2, <2>3, <2>4 DEF StoredStays
  <1>6. ASSUME NEW s \in DOMAIN session, SealDone(s) \/ SealFails(s)
        PROVE  StoredStays'
    <2>1. /\ UNCHANGED <<status, current, auth, import>>
          /\ stored' = stored \/ stored' = Seal(s, Head(session[s].writes))
          /\ session[s].writes # <<>>
      BY <1>6 DEF SealDone, SealFails
    <2>2. Seal(s, Head(session[s].writes)) # NoVault
      BY <1>1, <2>1, Pending DEF Seal
    <2> QED
      BY <2>1, <2>2 DEF StoredStays
  <1>7. CASE RequestLock
    <2>1. UNCHANGED <<stored, status, current, auth>> /\ import' \in {import, Unmounted}
      BY <1>7 DEF RequestLock
    <2> QED
      BY <1>3, <2>1 DEF StoredStays
  <1>8. CASE LockDone
    BY <1>8 DEF LockDone, StoredStays, Settled
  <1>9. CASE ImportBackup
    <2>1. current = 0
      BY <1>1, <1>9 DEF ImportBackup, StoredStays
    <2>2. stored' # NoVault /\ current' = current
      BY <1>2, <1>9 DEF ImportBackup
    <2> QED
      BY <2>1, <2>2 DEF StoredStays
  <1>10. CASE ImportDone
    BY <1>1, <1>10 DEF ImportDone, StoredStays
  <1>11. CASE ChooseBackup
    BY <1>1, <1>11 DEF ChooseBackup, AuthShown, StoredStays
  <1>12. CASE DropImport \/ AskToReplace
    BY <1>12 DEF DropImport, AskToReplace, StoredStays, NoImport
  <1>13. CASE Persist \/ SyncSeals \/ StartSync \/ EndSync \/ SyncFails \/ UNCHANGED vars
    <2>1. UNCHANGED <<stored, status, current, auth, import>>
      BY <1>13 DEF Persist, SyncSeals, StartSync, EndSync, SyncFails, vars
    <2> QED
      BY <2>1 DEF StoredStays
  <1> QED
    BY <1>4, <1>5, <1>6, <1>7, <1>8, <1>9, <1>10, <1>11, <1>12, <1>13 DEF Next, Settle

-----------------------------------------------------------------------------
(* The clipboard *)

\* Steps of the page that are neither a lock nor its end.
PageOnly ==
  \/ PageStep \/ ChooseBackup \/ DropImport \/ AskToReplace \/ ImportBackup
  \/ UNCHANGED vars

LEMMA PageOnlyStays ==
  ASSUME IInv, StoredStays, PageOnly
  PROVE  /\ [Next]_vars
         /\ lock'.on = lock.on /\ lock'.session = lock.session
         /\ current' = current \/ current = 0
  <1>1. [Next]_vars
    BY DEF PageOnly, PageStep, Next, Settle
  <1>2. ASSUME NEW s \in DOMAIN session, SealDone(s) \/ SealFails(s)
        PROVE  lock'.on = lock.on /\ lock'.session = lock.session /\ current' = current
    BY <1>2, SealingEnds DEF SealDone, SealFails
  <1>3. CASE ImportDone
    BY <1>3 DEF ImportDone, StoredStays, IInv, OneSession
  <1>4. CASE AuthenticateDone
    <2>1. auth.on /\ lock' = lock
      BY <1>4 DEF AuthenticateDone
    <2> QED
      BY <1>1, <2>1 DEF IInv, OneSession
  <1>5. CASE \/ Authenticate \/ AuthenticateFails \/ Persist \/ ChooseBackup
             \/ DropImport \/ AskToReplace \/ ImportBackup \/ UNCHANGED vars
    <2>1. lock' = lock /\ current' = current
      BY <1>5
      DEF Authenticate, AuthenticateFails, Persist, ChooseBackup, DropImport,
          AskToReplace, ImportBackup, vars
    <2> QED
      BY <1>1, <2>1
  <1> QED
    BY <1>1, <1>2, <1>3, <1>4, <1>5 DEF PageOnly, PageStep

\* The sessions of the copies stay sessions.
LEMMA ClipTyped ==
  ASSUME ClipboardTypeOK, SessionsGrow, UNCHANGED clip
  PROVE  ClipboardTypeOK'
  <1>1. owner' \in Seq(DOMAIN session')
    BY SeqMonotonic DEF ClipboardTypeOK, SessionsGrow, clip
  <1> QED
    BY <1>1 DEF ClipboardTypeOK, SessionsGrow, clip

LEMMA OwnerOf ==
  ASSUME ClipboardTypeOK
  PROVE  /\ Len(owner) \in Nat /\ DOMAIN owner = 1..Len(owner)
         /\ \A n \in 1..Len(owner) : owner[n] \in DOMAIN session
  BY LenProperties DEF ClipboardTypeOK

LEMMA ClipKept ==
  ASSUME IInv, StoredStays, ClipboardTypeOK, ClipInv, PageOnly, UNCHANGED clip
  PROVE  ClipboardTypeOK' /\ ClipInv'
  <1>1. /\ [Next]_vars /\ lock'.on = lock.on
        /\ current' = current \/ current = 0
    BY PageOnlyStays
  <1>2. ClipboardTypeOK'
    BY <1>1, SessionsGrowNext, ClipTyped
  <1>3. CopiesOwned' /\ LockAwaitsEntry'
    BY <1>1 DEF ClipInv, CopiesOwned, LockAwaitsEntry, clip
  <1>4. Registered'
    <2>1. clipboard # 0 => clipboard \in 1..Len(owner)
      BY OwnerOf DEF ClipInv, CopiesOwned, ClipboardTypeOK
    <2>2. clipboard # 0 => owner[clipboard] # 0
      BY <2>1, OwnerOf, SessionTyped DEF IInv
    <2> QED
      BY <1>1, <2>2 DEF ClipInv, Registered, Held, clip
  <1> QED
    BY <1>2, <1>3, <1>4 DEF ClipInv

LEMMA ClipLockKeeps ==
  ASSUME IInv, ClipboardTypeOK, ClipInv, ClipboardLock
  PROVE  ClipboardTypeOK' /\ ClipInv'
  <1>1. /\ UNCHANGED <<clipboard, copies, entry, owner, current>>
        /\ clears' = IF lock.on \/ entry = 0 THEN clears ELSE clears \cup {Clear(TRUE)}
        /\ clears \subseteq clears'
    BY DEF ClipboardLock, RequestLock
  <1>2. SessionsGrow
    BY SessionsGrowNext DEF ClipboardLock, Next
  <1>3. entry # 0 => Clear(TRUE) \in [copy : Copy, stage : {"reading", "erasing"},
                                     awaited : BOOLEAN]
    BY ClipboardAssumption DEF Clear, Copy, ClipboardTypeOK, ClipboardAssumption
  <1>4. ClipboardTypeOK'
    <2>1. owner' \in Seq(DOMAIN session')
      BY <1>1, <1>2, SeqMonotonic DEF ClipboardTypeOK, SessionsGrow
    <2> QED
      BY <1>1, <1>2, <1>3, <2>1 DEF ClipboardTypeOK, SessionsGrow
  <1>5. CopiesOwned' /\ Registered'
    BY <1>1 DEF ClipInv, CopiesOwned, Registered, Held
  <1>6. LockAwaitsEntry'
    <2>1. Clear(TRUE).awaited /\ Clear(TRUE).copy = entry
      BY DEF Clear
    <2> QED
      BY <1>1, <2>1 DEF ClipInv, LockAwaitsEntry
  <1> QED
    BY <1>4, <1>5, <1>6 DEF ClipInv

LEMMA ClipLockDoneKeeps ==
  ASSUME IInv, ClipboardTypeOK, ClipInv, ClipboardLockDone
  PROVE  ClipboardTypeOK' /\ ClipInv'
  <1>1. /\ UNCHANGED clip /\ entry = 0 /\ ~lock'.on
    BY DEF ClipboardLockDone, LockDone, NoLock, ClipInv, LockAwaitsEntry
  <1>2. ClipboardTypeOK'
    BY <1>1, SessionsGrowNext, ClipTyped DEF ClipboardLockDone, Next, Settle
  <1>3. ClipInv'
    BY <1>1 DEF ClipInv, CopiesOwned, Registered, LockAwaitsEntry, Held, clip
  <1> QED
    BY <1>2, <1>3

CopyRecord == [copy : Copy, session : DOMAIN session, ticket : 0..MaxLocks,
               stage : {"writing", "reading", "erasing"}]
ClearRecord == [copy : Copy, stage : {"reading", "erasing"}, awaited : BOOLEAN]

LEMMA StageSet ==
  ASSUME NEW st \in {"reading", "erasing"}
  PROVE  /\ \A c \in CopyRecord : LET d == [c EXCEPT !.stage = st] IN
              d \in CopyRecord /\ d.copy = c.copy /\ d.session = c.session
         /\ \A k \in ClearRecord : LET d == [k EXCEPT !.stage = st] IN
              d \in ClearRecord /\ d.copy = k.copy /\ d.awaited = k.awaited
  BY DEF CopyRecord, ClearRecord

\* A copy starts.
LEMMA StartCopyKeeps ==
  ASSUME IInv, ClipboardTypeOK, ClipInv, StartCopy, UNCHANGED vars
  PROVE  ClipboardTypeOK' /\ ClipInv'
  <1> DEFINE n == Len(owner) + 1
             x == [copy |-> n, session |-> current, ticket |-> epoch,
                   stage |-> "writing"]
  <1>1. /\ status = "unlocked" /\ Len(owner) < MaxCopies
        /\ owner' = Append(owner, current) /\ copies' = copies \cup {x}
        /\ UNCHANGED <<clipboard, entry, clears>>
        /\ UNCHANGED <<session, current, lock, epoch>>
    BY DEF StartCopy, vars
  <1>2. current \in DOMAIN session /\ epoch \in 0..MaxLocks /\ MaxCopies \in Nat
    BY <1>1, ClipboardAssumption DEF IInv, TypeOK, OneSession, ClipboardAssumption
  <1>3. /\ owner' \in Seq(DOMAIN session) /\ Len(owner') = n
        /\ \A m \in 1..Len(owner) : owner'[m] = owner[m]
        /\ owner'[n] = current
        /\ Len(owner) \in Nat
    BY <1>1, <1>2, LenProperties, AppendProperties DEF ClipboardTypeOK
  <1>4. x \in CopyRecord /\ x.copy = n /\ x.session = current
    BY <1>1, <1>2, <1>3 DEF CopyRecord, Copy
  <1> HIDE DEF x
  <1>5. ClipboardTypeOK'
    BY <1>1, <1>2, <1>3, <1>4 DEF ClipboardTypeOK, CopyRecord
  <1>6. \A c \in copies : c.copy \in 1..Len(owner)
    BY <1>3 DEF ClipInv, CopiesOwned, ClipboardTypeOK, Copy
  <1>7. clipboard \in 0..Len(owner) /\ entry \in 0..Len(owner)
    BY <1>3 DEF ClipInv, CopiesOwned, ClipboardTypeOK
  <1>8. CopiesOwned'
    BY <1>1, <1>3, <1>4, <1>6, <1>7 DEF ClipInv, CopiesOwned
  <1>9. Registered' /\ LockAwaitsEntry'
    BY <1>1, <1>3, <1>7 DEF ClipInv, Registered, LockAwaitsEntry, Held
  <1> QED
    BY <1>5, <1>8, <1>9 DEF ClipInv

\* An access of a copy ends.
LEMMA CopyKeeps ==
  ASSUME IInv, ClipboardTypeOK, ClipInv, UNCHANGED vars, NEW c \in copies,
         CopyWritten(c) \/ CopyRead(c) \/ CopyErased(c) \/ CopyDenied(c)
  PROVE  ClipboardTypeOK' /\ ClipInv'
  <1> DEFINE d == [c EXCEPT !.stage = "reading"]
             e == [c EXCEPT !.stage = "erasing"]
  <1>1. UNCHANGED <<clears, owner>> /\ UNCHANGED <<session, current, lock>>
    BY DEF CopyWritten, CopyRead, CopyErased, CopyDenied, vars
  <1>2. c \in CopyRecord
    BY DEF ClipboardTypeOK, CopyRecord
  <1>3. /\ d \in CopyRecord /\ d.copy = c.copy /\ d.session = c.session
        /\ e \in CopyRecord /\ e.copy = c.copy /\ e.session = c.session
    BY <1>2, StageSet
  <1>4. /\ c.copy \in Copy /\ c.copy # 0 /\ c.copy <= Len(owner)
        /\ owner[c.copy] = c.session
    BY <1>2 DEF ClipInv, CopiesOwned, CopyRecord, Copy
  <1> HIDE DEF d, e
  <1>5. CASE CopyWritten(c) /\ Live(c)
    <2>1. clipboard' = c.copy /\ copies' \subseteq copies \cup {d}
          /\ \/ entry' = c.copy
             \/ entry' = entry /\ d \in copies'
      BY <1>5 DEF CopyWritten, d
    <2>2. ~lock.on /\ current = c.session
      BY <1>5 DEF Live
    <2>3. ClipboardTypeOK'
      BY <1>1, <1>3, <1>4, <2>1 DEF ClipboardTypeOK, CopyRecord, Copy
    <2>4. CopiesOwned' /\ Registered' /\ LockAwaitsEntry'
      BY <1>1, <1>3, <1>4, <2>1, <2>2
      DEF ClipInv, CopiesOwned, Registered, LockAwaitsEntry, Held
    <2> QED
      BY <2>3, <2>4 DEF ClipInv
  <1>6. CASE CopyWritten(c) /\ ~Live(c)
    <2>1. /\ clipboard' = c.copy /\ entry' = entry
          /\ copies' = (copies \ {c}) \cup {d}
      BY <1>6 DEF CopyWritten, d
    <2>2. ClipboardTypeOK'
      BY <1>1, <1>3, <1>4, <2>1 DEF ClipboardTypeOK, CopyRecord, Copy
    <2>3. CopiesOwned' /\ Registered' /\ LockAwaitsEntry'
      BY <1>1, <1>3, <1>4, <2>1
      DEF ClipInv, CopiesOwned, Registered, LockAwaitsEntry, Held
    <2> QED
      BY <2>2, <2>3 DEF ClipInv
  <1>7. CASE CopyRead(c)
    <2>1. /\ UNCHANGED <<clipboard, entry>>
          /\ copies' = (copies \ {c}) \cup (IF clipboard = c.copy THEN {e} ELSE {})
      BY <1>7 DEF CopyRead, e
    <2>2. ClipboardTypeOK'
      BY <1>1, <1>3, <2>1 DEF ClipboardTypeOK, CopyRecord
    <2>3. Held(clipboard) => Held(clipboard)'
      BY <1>3, <2>1 DEF Held
    <2>4. CopiesOwned' /\ Registered' /\ LockAwaitsEntry'
      BY <1>1, <1>3, <1>4, <2>1, <2>3
      DEF ClipInv, CopiesOwned, Registered, LockAwaitsEntry
    <2> QED
      BY <2>2, <2>4 DEF ClipInv
  <1>8. CASE CopyErased(c) \/ CopyDenied(c)
    <2>1. /\ entry' = entry /\ copies' = copies \ {c}
          /\ clipboard' = 0 \/ (clipboard' = clipboard /\ clipboard # c.copy)
      BY <1>8 DEF CopyErased, CopyDenied, GivenUp
    <2>2. ClipboardTypeOK'
      BY <1>1, <2>1, ClipboardAssumption DEF ClipboardTypeOK, ClipboardAssumption
    <2>3. clipboard' # 0 /\ Held(clipboard) => Held(clipboard)'
      BY <2>1 DEF Held
    <2>4. CopiesOwned' /\ Registered' /\ LockAwaitsEntry'
      BY <1>1, <2>1, <2>3, OwnerOf
      DEF ClipInv, CopiesOwned, Registered, LockAwaitsEntry
    <2> QED
      BY <2>2, <2>4 DEF ClipInv
  <1> QED
    BY <1>5, <1>6, <1>7, <1>8

\* The timer of the entry, or an access of a clearing ends.
LEMMA ClearKeeps ==
  ASSUME IInv, ClipboardTypeOK, ClipInv, UNCHANGED vars,
         EntryTimer \/ \E k \in clears : ClearRead(k) \/ ClearErased(k) \/ ClearDenied(k)
  PROVE  ClipboardTypeOK' /\ ClipInv'
  <1>1. UNCHANGED <<copies, owner>> /\ UNCHANGED <<session, current, lock>>
    BY DEF EntryTimer, ClearRead, ClearErased, ClearDenied, vars
  <1>2. /\ CopiesOwned' <=> clipboard' <= Len(owner) /\ entry' <= Len(owner)
        /\ 0 <= Len(owner) /\ clipboard <= Len(owner) /\ entry <= Len(owner)
    BY <1>1, OwnerOf DEF ClipInv, CopiesOwned
  <1>3. 0 \in 0..MaxCopies
    BY ClipboardAssumption DEF ClipboardAssumption
  <1>4. CASE EntryTimer
    <2>1. /\ entry # 0 /\ clears' = clears \cup {Clear(FALSE)}
          /\ UNCHANGED <<clipboard, entry>>
      BY <1>4 DEF EntryTimer
    <2>2. Clear(FALSE) \in ClearRecord
      BY <2>1 DEF Clear, ClearRecord, Copy, ClipboardTypeOK
    <2>3. ClipboardTypeOK'
      BY <1>1, <2>1, <2>2 DEF ClipboardTypeOK, ClearRecord
    <2>4. Registered' /\ LockAwaitsEntry'
      BY <1>1, <2>1 DEF ClipInv, Registered, LockAwaitsEntry, Held
    <2> QED
      BY <1>2, <2>1, <2>3, <2>4 DEF ClipInv
  <1>5. ASSUME NEW k \in clears, ClearRead(k), entry = k.copy, clipboard = k.copy
        PROVE  ClipboardTypeOK' /\ ClipInv'
    <2> DEFINE d == [k EXCEPT !.stage = "erasing"]
    <2>1. /\ clears' = (clears \ {k}) \cup {d} /\ UNCHANGED <<clipboard, entry>>
      BY <1>5 DEF ClearRead
    <2>2. d \in ClearRecord /\ d.copy = k.copy /\ d.awaited = k.awaited
      BY StageSet DEF ClipboardTypeOK, ClearRecord
    <2> HIDE DEF d
    <2>3. ClipboardTypeOK'
      BY <1>1, <2>1, <2>2 DEF ClipboardTypeOK, ClearRecord
    <2>4. Registered' /\ LockAwaitsEntry'
      BY <1>1, <2>1, <2>2 DEF ClipInv, Registered, LockAwaitsEntry, Held
    <2> QED
      BY <1>2, <2>1, <2>3, <2>4 DEF ClipInv
  <1>6. ASSUME NEW k \in clears,
               \/ ClearRead(k) /\ ~(entry = k.copy /\ clipboard = k.copy)
               \/ ClearErased(k)
               \/ ClearDenied(k)
        PROVE  ClipboardTypeOK' /\ ClipInv'
    <2>1. /\ clears' = clears \ {k} /\ entry' = IF entry = k.copy THEN 0 ELSE entry
          /\ \/ clipboard' = 0
             \/ clipboard' = clipboard /\ ~(entry = k.copy /\ clipboard = k.copy)
      BY <1>6 DEF ClearRead, ClearErased, ClearDenied, Forgotten, GivenUp
    <2>2. ClipboardTypeOK'
      BY <1>1, <1>3, <2>1 DEF ClipboardTypeOK
    <2>3. Registered' /\ LockAwaitsEntry'
      BY <1>1, <2>1 DEF ClipInv, Registered, LockAwaitsEntry, Held
    <2> QED
      BY <1>2, <2>1, <2>2, <2>3 DEF ClipInv
  <1> QED
    BY <1>4, <1>5, <1>6 DEF ClearRead

LEMMA ClipStepKeeps ==
  ASSUME IInv, ClipboardTypeOK, ClipInv, ClipboardStep, UNCHANGED vars
  PROVE  ClipboardTypeOK' /\ ClipInv'
  BY StartCopyKeeps, CopyKeeps, ClearKeeps DEF ClipboardStep, Access

-----------------------------------------------------------------------------
(* The close handshake *)

NativeTypeOK ==
  /\ window \in {"open", "destroyed"}
  /\ closing \in BOOLEAN /\ busy \in BOOLEAN
  /\ waiting \in BOOLEAN /\ answering \in BOOLEAN
  /\ notices \in 0..MaxCloses /\ closes \in 0..MaxCloses
  /\ dialog \in {"none", "export", "import"}
  /\ opened \in Nat /\ lost \in BOOLEAN

\* Sessions that are over stay so.
LEMMA OverStays ==
  ASSUME IInv, IInv', SessionsGrow, opened' = opened, opened <= Len(session),
         opened \in Nat
  PROVE  /\ OpenedAreOver => OpenedAreOver'
         /\ opened' <= Len(session')
  <1>1. Len(session) \in Nat /\ Len(session') \in Nat /\ Len(session) <= Len(session')
    BY LenGrows
  <1>2. OpenedAreOver => OpenedAreOver'
    BY DEF OpenedAreOver, SessionsGrow, IInv, SealsHaveKey
  <1> QED
    BY <1>1, <1>2

\* Steps that leave the answers alone and begin no lock.
LEMMA CloseKept ==
  ASSUME IInv, IInv', SessionsGrow, NativeTypeOK, CloseInv, window = "open",
         UNCHANGED <<window, answering, opened, lost>>,
         notices' <= closes', lock'.on => lock.on /\ lock'.session = lock.session
  PROVE  CloseInv'
  <1>1. (OpenedAreOver => OpenedAreOver') /\ opened' <= Len(session')
    BY OverStays DEF CloseInv, NativeTypeOK
  <1>2. AnswerIsSafe'
    BY <1>1 DEF CloseInv, AnswerIsSafe
  <1> QED
    BY <1>1, <1>2 DEF CloseInv

\* A lock that begins is of a session that is not over.
LEMMA LockKeepsClose ==
  ASSUME IInv, IInv', PageHasKey, NativeTypeOK, CloseInv, RequestLock,
         window = "open", UNCHANGED <<window, answering, opened, lost>>,
         notices' <= closes'
  PROVE  CloseInv'
  <1>1. SessionsGrow
    BY SessionsGrowNext DEF Next
  <1>2. CASE lock.on
    BY <1>1, <1>2, CloseKept DEF RequestLock
  <1>3. CASE ~lock.on
    <2>1. lock'.session = current
      BY <1>3 DEF RequestLock
    <2>2. OpenedAreOver => current \notin 1..opened
      BY DEF OpenedAreOver, PageHasKey
    <2>3. (OpenedAreOver => OpenedAreOver') /\ opened' <= Len(session')
      BY <1>1, OverStays DEF CloseInv, NativeTypeOK
    <2>4. AnswerIsSafe'
      BY <2>1, <2>2, <2>3 DEF CloseInv, AnswerIsSafe
    <2> QED
      BY <2>3, <2>4 DEF CloseInv
  <1> QED
    BY <1>2, <1>3

\* A lock that ends without an error has lost nothing, and ends all sessions.
LEMMA LockEndedKeeps ==
  ASSUME IInv, IInv', NativeTypeOK, CloseInv, LockEnded, window = "open"
  PROVE  CloseInv'
  <1>1. /\ LockDone /\ UNCHANGED <<window, notices, closes, opened>>
        /\ answering' = (answering \/ (waiting /\ ~lock.failed))
        /\ lost' = IF waiting
                   THEN lock.session \in 1..opened /\ stored.vault = history.wanted.vault
                          /\ stored.edit < history.wanted.edit
                   ELSE lost
    BY DEF LockEnded, ClipboardLockDone, Answers
  <1>2. lock.on /\ lock.save = 0 /\ current' = 0 /\ ~lock'.on
    BY <1>1 DEF LockDone, Settled, NoLock
  <1>3. SessionsGrow
    BY <1>1, SessionsGrowNext DEF Next, Settle
  <1>4. (OpenedAreOver => OpenedAreOver') /\ opened' <= Len(session')
    BY <1>1, <1>3, OverStays DEF CloseInv, NativeTypeOK
  <1>5. OpenedAreOver'
    <2>1. /\ DOMAIN session = 1..Len(session) /\ Len(session) \in Nat
          /\ opened \in Nat /\ opened <= Len(session)
      BY LenProperties DEF IInv, TypeOK, CloseInv, NativeTypeOK
    <2>2. \A s \in 1..opened' : s \in DOMAIN session' /\ s # current'
      BY <1>1, <1>2, <1>3, <2>1 DEF SessionsGrow
    <2> QED
      BY <2>2 DEF OpenedAreOver, IInv, OneSession, SealsHaveKey
  <1>6. ~lock.failed => ~(stored.vault = history.wanted.vault
                            /\ stored.edit < history.wanted.edit)
    <2>1. save = 0
      BY <1>2 DEF IInv, OneWrite
    <2>2. stored.edit \in Nat /\ history.wanted.edit \in Nat
      BY DEF IInv, TypeOK, Envelope
    <2> QED
      BY <2>1, <2>2 DEF IInv, WantedKept
  <1>7. answering' => ~lost'
    BY <1>1, <1>2, <1>6 DEF CloseInv, AnswerIsSafe
  <1> QED
    BY <1>1, <1>2, <1>4, <1>5, <1>7 DEF CloseInv, AnswerIsSafe

-----------------------------------------------------------------------------
(* The invariant *)

LEMMA DInvInit == ASSUME DesktopInit PROVE DInv
  <1>1. IInv
    BY IInvInit DEF DesktopInit
  <1>2. /\ session = <<>> /\ Len(session) = 0 /\ current = 0 /\ ~lock.on /\ ~auth.on
        /\ status # "setup" => stored # NoVault
        /\ owner = <<>> /\ Len(owner) = 0
    BY DEF DesktopInit, Init, ClipboardInit, NoVault, NoLock, NoAuth
  <1>3. /\ clipboard = 0 /\ copies = {} /\ entry = 0 /\ clears = {}
        /\ window = "open" /\ closing = FALSE /\ busy = FALSE /\ waiting = FALSE
        /\ answering = FALSE /\ lost = FALSE
        /\ notices = 0 /\ closes = 0 /\ dialog = "none" /\ opened = 0
    BY DEF DesktopInit, ClipboardInit
  <1>4. DesktopTypeOK
    <2>1. owner \in Seq(DOMAIN session) /\ MaxCopies \in Nat /\ MaxCloses \in Nat
      BY <1>2, ClipboardAssumption, CloseAssumption
      DEF ClipboardAssumption, CloseAssumption
    <2>2. ClipboardTypeOK
      BY <1>2, <1>3, <2>1 DEF ClipboardTypeOK
    <2>3. NativeTypeOK
      <3>1. /\ closing \in BOOLEAN /\ busy \in BOOLEAN /\ waiting \in BOOLEAN
            /\ answering \in BOOLEAN /\ lost \in BOOLEAN
        BY <1>3
      <3>2. /\ notices \in 0..MaxCloses /\ closes \in 0..MaxCloses /\ opened \in Nat
            /\ window \in {"open", "destroyed"}
            /\ dialog \in {"none", "export", "import"}
        BY <1>3, <2>1
      <3> QED
        BY <3>1, <3>2 DEF NativeTypeOK
    <2> QED
      BY <1>1, <2>2, <2>3 DEF DesktopTypeOK, IInv, NativeTypeOK
  <1>5. StoredStays /\ PageHasKey
    BY <1>2 DEF StoredStays, PageHasKey
  <1>6. CloseInv
    BY <1>2, <1>3 DEF CloseInv, AnswerIsSafe
  <1>7. ClipInv
    BY <1>2, <1>3 DEF ClipInv, CopiesOwned, Registered, LockAwaitsEntry
  <1> QED
    BY <1>1, <1>4, <1>5, <1>6, <1>7 DEF DInv

\* A step of the page alone, whatever the native side does meanwhile.
LEMMA PageAlone ==
  ASSUME DInv, PageOnly, UNCHANGED clip, NativeTypeOK', window = "open",
         UNCHANGED <<window, answering, opened, lost>>, notices' <= closes'
  PROVE  DInv'
  <1>1. IInv /\ StoredStays /\ PageHasKey /\ ClipboardTypeOK /\ NativeTypeOK
    BY DEF DInv, DesktopTypeOK, NativeTypeOK
  <1>2. [Next]_vars /\ lock'.on = lock.on /\ lock'.session = lock.session
    BY <1>1, PageOnlyStays
  <1>3. IInv' /\ SessionsGrow /\ StoredStays' /\ PageHasKey'
    BY <1>1, <1>2, IInvNext, SessionsGrowNext, StoredStaysNext, PageHasKeyNext
  <1>4. ClipboardTypeOK' /\ ClipInv'
    BY <1>1, ClipKept DEF DInv
  <1>5. CloseInv'
    BY <1>1, <1>2, <1>3, CloseKept DEF DInv
  <1> QED
    BY <1>3, <1>4, <1>5 DEF DInv, DesktopTypeOK, NativeTypeOK, IInv


LEMMA DInvParts ==
  ASSUME DInv
  PROVE  /\ IInv /\ StoredStays /\ PageHasKey /\ ClipboardTypeOK /\ NativeTypeOK
         /\ CloseInv /\ ClipInv
         /\ notices \in Nat /\ closes \in Nat /\ notices <= closes
         /\ MaxCloses \in Nat
  BY CloseAssumption
  DEF DInv, DesktopTypeOK, NativeTypeOK, CloseInv, CloseAssumption

LEMMA RequestCloseKeeps ==
  ASSUME DInv, RequestClose, window = "open"
  PROVE  DInv'
  <1>1. /\ notices' = notices + 1 /\ closes' = closes + 1 /\ closing' = TRUE
        /\ closes < MaxCloses
        /\ UNCHANGED vars /\ UNCHANGED clip
        /\ UNCHANGED <<window, busy, waiting, answering, dialog, lost>>
        /\ opened' \in {opened, Len(session)} /\ (answering => opened' = opened)
    BY DEF RequestClose, UnderWay, pageVars
  <1>2. Len(session) \in Nat
    BY DInvParts, LenProperties DEF IInv, TypeOK
  <1>3. NativeTypeOK'
    BY <1>1, <1>2, DInvParts DEF NativeTypeOK
  <1>4. ClipboardTypeOK' /\ ClipInv'
    BY <1>1, DInvParts, ClipKept DEF PageOnly
  <1>5. IInv' /\ StoredStays' /\ PageHasKey'
    BY <1>1, DInvParts, IInvNext, StoredStaysNext, PageHasKeyNext
  <1>6. CloseInv'
    <2>1. session' = session /\ lock' = lock /\ opened' <= Len(session')
      BY <1>1, <1>2, DInvParts DEF vars, CloseInv
    <2>2. AnswerIsSafe'
      BY <1>1, <2>1, DInvParts DEF CloseInv, AnswerIsSafe, OpenedAreOver
    <2> QED
      BY <1>1, <2>1, <2>2, DInvParts DEF CloseInv
  <1> QED
    BY <1>3, <1>4, <1>5, <1>6 DEF DInv, DesktopTypeOK, NativeTypeOK, IInv

LEMMA LocksKeep ==
  ASSUME DInv, LoseFocus \/ HandleClose, window = "open"
  PROVE  DInv'
  <1>1. /\ ClipboardLock /\ RequestLock
        /\ UNCHANGED <<window, closing, busy, answering, dialog, closes, opened, lost>>
        /\ \/ UNCHANGED <<notices, waiting>>
           \/ notices > 0 /\ notices' = notices - 1 /\ waiting' = TRUE
    BY DEF LoseFocus, HandleClose, ClipboardLock, native
  <1>2. NativeTypeOK' /\ notices' <= closes'
    <2>1. waiting \in BOOLEAN /\ waiting' \in {waiting, TRUE}
      BY <1>1, DInvParts DEF NativeTypeOK
    <2>2. waiting' \in BOOLEAN
      BY <2>1
    <2>3. notices' \in 0..MaxCloses /\ notices' <= closes'
      <3>1. notices \in 0..MaxCloses /\ notices' \in {notices, notices - 1}
        BY <1>1, DInvParts DEF NativeTypeOK
      <3>2. notices' # notices => notices > 0
        BY <1>1
      <3> QED
        BY <1>1, <3>1, <3>2, DInvParts
    <2> QED
      BY <1>1, <2>2, <2>3, DInvParts DEF NativeTypeOK
  <1>3. IInv' /\ StoredStays' /\ PageHasKey'
    BY <1>1, DInvParts, IInvNext, StoredStaysNext, PageHasKeyNext DEF Next
  <1>4. ClipboardTypeOK' /\ ClipInv'
    BY <1>1, DInvParts, ClipLockKeeps
  <1>5. CloseInv'
    BY <1>1, <1>2, <1>3, DInvParts, LockKeepsClose
  <1> QED
    BY <1>2, <1>3, <1>4, <1>5 DEF DInv, DesktopTypeOK, NativeTypeOK, IInv

LEMMA EndsKeep ==
  ASSUME DInv, LockEnded, window = "open"
  PROVE  DInv'
  <1>1. /\ ClipboardLockDone /\ LockDone
        /\ UNCHANGED <<window, closing, busy, notices, dialog, closes, opened>>
        /\ waiting' = FALSE /\ answering' = (answering \/ Answers)
        /\ lost' = IF waiting
                   THEN lock.session \in 1..opened /\ stored.vault = history.wanted.vault
                          /\ stored.edit < history.wanted.edit
                   ELSE lost
    BY DEF LockEnded, ClipboardLockDone
  <1>2. NativeTypeOK'
    <2>1. answering' \in BOOLEAN /\ lost' \in BOOLEAN
      BY <1>1, DInvParts DEF NativeTypeOK
    <2> QED
      BY <1>1, <2>1, DInvParts DEF NativeTypeOK
  <1>3. IInv' /\ StoredStays' /\ PageHasKey'
    BY <1>1, DInvParts, IInvNext, StoredStaysNext, PageHasKeyNext DEF Next, Settle
  <1>4. ClipboardTypeOK' /\ ClipInv'
    BY <1>1, DInvParts, ClipLockDoneKeeps
  <1>5. CloseInv'
    BY <1>3, DInvParts, LockEndedKeeps
  <1> QED
    BY <1>2, <1>3, <1>4, <1>5 DEF DInv, DesktopTypeOK, NativeTypeOK, IInv

\* The command that acknowledges a close, the ends of exports, and the accesses
\* to the clipboard leave the page alone.
LEMMA NativeKeeps ==
  ASSUME DInv, UNCHANGED vars, window = "open",
         \/ CloseRefused \/ DestroyFails \/ Destroy \/ BeginExport \/ EndExport
         \/ ClipboardStep /\ UNCHANGED native
         \/ UNCHANGED <<clip, native>>
  PROVE  DInv'
  <1>1. IInv' /\ StoredStays' /\ PageHasKey'
    BY DInvParts, IInvNext, StoredStaysNext, PageHasKeyNext
  <1>2. ClipboardTypeOK' /\ ClipInv'
    <2>1. CASE UNCHANGED clip
      BY <2>1, DInvParts, ClipKept DEF PageOnly
    <2>2. CASE ClipboardStep
      BY <2>2, DInvParts, ClipStepKeeps
    <2> QED
      BY <2>1, <2>2
      DEF CloseRefused, DestroyFails, Destroy, BeginExport, EndExport, pageVars
  <1>3. /\ UNCHANGED <<notices, waiting, closes, opened, lost>>
        /\ closing' \in {closing, FALSE} /\ busy' \in BOOLEAN /\ answering' \in BOOLEAN
        /\ dialog' \in {"none", "export", "import"}
        /\ \/ window' = window /\ (answering' => answering)
           \/ window' = "destroyed" /\ answering /\ ~busy /\ busy' = busy
    <2>1. CASE CloseRefused \/ DestroyFails \/ Destroy
      BY <2>1, DInvParts DEF CloseRefused, DestroyFails, Destroy, NativeTypeOK
    <2>2. CASE BeginExport \/ EndExport
      <3>1. /\ UNCHANGED <<window, closing, notices, waiting, answering, closes, opened,
                        lost>>
            /\ busy' \in {FALSE, TRUE} /\ dialog' \in {"none", "export"}
        BY <2>2 DEF BeginExport, EndExport, EndCommand
      <3>2. answering \in BOOLEAN
        BY DInvParts DEF NativeTypeOK
      <3> QED
        BY <3>1, <3>2
    <2>3. CASE UNCHANGED native
      BY <2>3, DInvParts DEF native, NativeTypeOK
    <2> QED
      BY <2>1, <2>2, <2>3
  <1>4. NativeTypeOK'
    BY <1>3, DInvParts DEF NativeTypeOK
  <1>5. CloseInv'
    <2>1. session' = session /\ lock' = lock
      BY DEF vars
    <2>2. AnswerIsSafe'
      BY <1>3, <2>1, DInvParts DEF CloseInv, AnswerIsSafe, OpenedAreOver
    <2> QED
      BY <1>3, <2>1, <2>2, DInvParts DEF CloseInv
  <1> QED
    BY <1>1, <1>2, <1>4, <1>5 DEF DInv, DesktopTypeOK, NativeTypeOK, IInv

\* The rest is a step of the page alone.
LEMMA PageKeeps ==
  ASSUME DInv, window = "open",
         BeginImport \/ EndImport \/ (PageStep /\ UNCHANGED <<clip, native>>)
  PROVE  DInv'
  <1>1. PageOnly /\ UNCHANGED clip
    BY DEF PageOnly, BeginImport, EndImport
  <1>2. /\ UNCHANGED <<window, closing, notices, waiting, answering, closes, opened, lost>>
        /\ busy' \in BOOLEAN /\ dialog' \in {"none", "export", "import"}
    BY DInvParts DEF BeginImport, EndImport, EndCommand, native, NativeTypeOK
  <1>3. NativeTypeOK' /\ notices' <= closes'
    BY <1>2, DInvParts DEF NativeTypeOK
  <1> QED
    BY <1>1, <1>2, <1>3, PageAlone

LEMMA DInvNext == ASSUME DInv, [DesktopNext]_allVars PROVE DInv'
  <1>1. CASE UNCHANGED allVars
    <2>1. UNCHANGED vars /\ UNCHANGED clip /\ UNCHANGED native
      BY <1>1 DEF allVars, pageVars
    <2>2. IInv' /\ StoredStays' /\ PageHasKey' /\ ClipboardTypeOK' /\ ClipInv'
      BY <2>1, DInvParts, IInvNext, StoredStaysNext, PageHasKeyNext, ClipKept DEF PageOnly
    <2>3. NativeTypeOK' /\ CloseInv'
      BY <2>1, DInvParts
      DEF NativeTypeOK, CloseInv, AnswerIsSafe, OpenedAreOver, native, vars
    <2> QED
      BY <2>2, <2>3 DEF DInv, DesktopTypeOK, NativeTypeOK, IInv
  <1>2. CASE DesktopNext
    <2>1. window = "open"
      BY <1>2 DEF DesktopNext
    <2>2. CASE RequestClose \/ LoseFocus \/ HandleClose \/ LockEnded
      BY <2>1, <2>2, RequestCloseKeeps, LocksKeep, EndsKeep
    <2>3. CASE CloseRefused \/ DestroyFails \/ Destroy \/ BeginExport \/ EndExport
      <3>1. UNCHANGED vars
        BY <2>3
        DEF CloseRefused, DestroyFails, Destroy, BeginExport, EndExport, pageVars
      <3> QED
        BY <2>1, <2>3, <3>1, NativeKeeps
    <2>4. CASE ClipboardStep /\ UNCHANGED <<vars, native>>
      BY <2>1, <2>4, NativeKeeps
    <2>5. CASE BeginImport \/ EndImport \/ (PageStep /\ UNCHANGED <<clip, native>>)
      BY <2>1, <2>5, PageKeeps
    <2> QED
      BY <1>2, <2>2, <2>3, <2>4, <2>5 DEF DesktopNext
  <1> QED
    BY <1>1, <1>2

LEMMA DesktopInvariance == DesktopSpec => []DInv
  BY DInvInit, DInvNext, PTL DEF DesktopSpec

-----------------------------------------------------------------------------
(* What follows *)

\* The types of the window, the clipboard and the page.
THEOREM DesktopTyped == DesktopSpec => []DesktopTypeOK
  <1>1. DInv => DesktopTypeOK
    BY DEF DInv
  <1> QED
    BY <1>1, DesktopInvariance, PTL

\* The window goes only when the sessions of its time have sealed and stored what
\* they had to and destroyed their keys, and while no backup command runs, however
\* many closes, locks and unlocks overlap (lib.rs: desktop_close_ready,
\* vault-app.tsx: the close handler).
THEOREM ClosesSafely == DesktopSpec => []ClosedSafely
  <1>1. DInv => ClosedSafely
    BY DEF DInv, CloseInv, AnswerIsSafe, OpenedAreOver, ClosedSafely
  <1> QED
    BY <1>1, DesktopInvariance, PTL

\* A value that is still on the clipboard is being erased, or belongs to the
\* session that is open, in whatever order accesses end or are denied
\* (vault-app.tsx: copyForLiveSession, clearClipboardEntry).
THEOREM CopiesRevoked == DesktopSpec => []ClipboardRevoked
  <1>1. DInv => ClipboardRevoked
    BY DEF DInv, ClipInv, Registered, Held, ClipboardRevoked, UnderErasure
  <1> QED
    BY <1>1, DesktopInvariance, PTL

\* The desktop keeps what the page promises: a locked window has no key, and no
\* lock loses a save.
THEOREM WindowLocks == DesktopSpec => []LockedHasNoKey /\ LockKeepsSave
  BY WindowRefines, NoKeyLeft, LocksKeepSaves, PTL
=============================================================================
