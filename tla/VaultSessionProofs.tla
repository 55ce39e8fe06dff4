-------------------------- MODULE VaultSessionProofs --------------------------
(***************************************************************************)
(* Proofs about VaultSession, for the browser and the desktop and any      *)
(* number of sessions, saves and locks.                                    *)
(*                                                                         *)
(* What a lock keeps and what the page shows depend on more than either:   *)
(* that there is one session with a key and one sealing under way, the     *)
(* newest, and that no document that is still around is newer than the one *)
(* that is stored of its vault.                                            *)
(***************************************************************************)
EXTENDS VaultSession, SequenceTheorems, TLAPS

(* The inductive invariant *)

\* Vaults and edits are numbered as they come.
Numbered ==
  /\ \A s \in DOMAIN session : session[s].vault <= vaults
  /\ \A e \in {stored, shown, sync.doc, auth.envelope, history.wanted} :
       e.vault <= vaults /\ e.edit <= edits

\* Only the session of the page may have a key, and only an unlocked page has a
\* session.  Whoever waits for a key has no session yet; a lock takes the one
\* there is.
OneSession ==
  /\ status = "unlocked" <=> current # 0
  /\ \A s \in DOMAIN session : s # current => session[s].state = "destroyed"
  /\ auth.on => current = 0
  /\ lock.on => current \in {0, lock.session}
  /\ import.stage = "closing" => current # 0 /\ history.imported # 0

\* At most one sealing is under way, that of the newest edit: it is the save of
\* the page, which a lock has taken note of, or belongs to the sync.
OneWrite ==
  /\ \A s \in DOMAIN session : session[s].writes # <<>> =>
       /\ s = current /\ session[s].writes = <<edits>> /\ stored.edit < edits
       /\ save = edits \/ (save = 0 /\ sync.on /\ sync.session = s)
  /\ save # 0 => current # 0 /\ session[current].writes = <<save>>
  /\ lock.on => lock.save = save
  /\ sync.on => ~Desktop /\ sync.session # 0 /\ save = 0 /\ ~lock.on

\* No document that is around is newer than the stored one of its vault.
NoneNewer ==
  \A e \in {shown, sync.doc, auth.envelope} :
    e.vault = stored.vault => e.edit <= stored.edit

\* The save the user was promised is stored, or being sealed, or the lock says
\* that it failed.
WantedKept ==
  history.wanted.vault = stored.vault =>
    \/ stored.edit >= history.wanted.edit
    \/ save # 0 /\ save = history.wanted.edit
    \/ lock.on /\ lock.failed

\* As long as no backup was imported, whoever opens, shows or syncs the vault
\* does it with the stored document, or the page knows that it is behind.
Fresh ==
  history.imported = 0 =>
    /\ status = "unlocked" /\ ~lock.on /\ ~sync.on /\ ~history.stale => shown = stored
    /\ sync.on => /\ sync.session = current
                  /\ sync.doc = stored \/ (history.stale /\ sync.doc = shown)
    /\ auth.on /\ ~auth.create => auth.envelope = stored

IInv ==
  /\ TypeOK
  /\ Numbered
  /\ OneSession
  /\ SealsHaveKey
  /\ OneWrite
  /\ NoneNewer
  /\ WantedKept
  /\ Fresh

-----------------------------------------------------------------------------
(* Sequences of sessions *)

LEMMA SessionSet ==
  ASSUME NEW q \in Seq(Session), NEW s \in DOMAIN q, NEW x \in Session
  PROVE  /\ [q EXCEPT ![s] = x] \in Seq(Session)
         /\ DOMAIN [q EXCEPT ![s] = x] = DOMAIN q
         /\ \A t \in DOMAIN q : [q EXCEPT ![s] = x][t] = IF t = s THEN x ELSE q[t]
  BY LenProperties, ExceptSeq

LEMMA SessionAdded ==
  ASSUME NEW q \in Seq(Session), NEW x \in Session
  PROVE  /\ Append(q, x) \in Seq(Session)
         /\ DOMAIN Append(q, x) = DOMAIN q \cup {Len(q) + 1}
         /\ \A t \in DOMAIN q : Append(q, x)[t] = q[t]
         /\ Append(q, x)[Len(q) + 1] = x
         /\ Len(q) + 1 \notin DOMAIN q
  BY LenProperties, AppendProperties

LEMMA SessionTyped ==
  ASSUME TypeOK, NEW s \in DOMAIN session
  PROVE  /\ session[s] \in Session
         /\ s \in Nat \ {0}
  BY LenProperties DEF TypeOK

LEMMA OneElement ==
  ASSUME NEW e \in Nat
  PROVE  /\ <<e>> \in Seq(Nat) /\ <<e>> # <<>>
         /\ Head(<<e>>) = e /\ Tail(<<e>>) = <<>> /\ Append(<<>>, e) = <<e>>
  OBVIOUS

-----------------------------------------------------------------------------
(* Its steps *)

LEMMA IInvInit == ASSUME Init PROVE IInv
  <1>1. DOMAIN session = {} /\ session \in Seq(Session)
    BY DEF Init
  <1>2. TypeOK
    BY <1>1, ConstantsAssumption
    DEF Init, TypeOK, ConstantsAssumption, Envelope, NoVault, NoSync, NoAuth,
        NoLock, NoImport
  <1> QED
    BY <1>1, <1>2
    DEF Init, IInv, Numbered, OneSession, SealsHaveKey, OneWrite, NoneNewer,
        WantedKept, Fresh, NoVault, NoSync, NoAuth, NoLock, NoImport

\* Steps that leave every session and the stored vault alone.
LEMMA QuietKeeps ==
  ASSUME IInv,
         \/ Authenticate \/ AuthenticateFails \/ ChooseBackup \/ DropImport
         \/ AskToReplace \/ StartSync \/ EndSync \/ SyncFails \/ UNCHANGED vars
  PROVE  IInv'
  <1>1. CASE Authenticate
    <2>1. TypeOK'
      BY <1>1 DEF IInv, TypeOK, Authenticate, Envelope, Ticket, NoVault
    <2>2. /\ auth'.on /\ (~auth'.create => auth'.envelope = stored)
          /\ auth'.envelope \in {stored, NoVault} /\ current = 0
      BY <1>1 DEF Authenticate, AuthShown, IInv, OneSession
    <2>3. Numbered' /\ NoneNewer'
      BY <1>1, <2>2
      DEF IInv, TypeOK, Authenticate, Numbered, NoneNewer, NoVault, Envelope
    <2>4. OneSession' /\ SealsHaveKey' /\ OneWrite'
      BY <1>1, <2>2 DEF IInv, Authenticate, OneSession, SealsHaveKey, OneWrite
    <2>5. WantedKept' /\ Fresh'
      BY <1>1, <2>2 DEF IInv, Authenticate, WantedKept, Fresh
    <2> QED
      BY <2>1, <2>3, <2>4, <2>5 DEF IInv
  <1>2. CASE AuthenticateFails
    <2>1. TypeOK'
      BY <1>2 DEF IInv, TypeOK, AuthenticateFails, Envelope, NoAuth, NoVault
    <2>2. ~auth'.on /\ auth'.envelope = NoVault
      BY <1>2 DEF AuthenticateFails, NoAuth
    <2>3. Numbered' /\ NoneNewer'
      BY <1>2, <2>2
      DEF IInv, TypeOK, AuthenticateFails, Numbered, NoneNewer, NoVault, Envelope
    <2>4. OneSession' /\ SealsHaveKey' /\ OneWrite'
      BY <1>2, <2>2
      DEF IInv, AuthenticateFails, OneSession, SealsHaveKey, OneWrite
    <2>5. WantedKept' /\ Fresh'
      BY <1>2, <2>2 DEF IInv, AuthenticateFails, WantedKept, Fresh
    <2> QED
      BY <2>1, <2>3, <2>4, <2>5 DEF IInv
  <1>3. CASE ChooseBackup \/ DropImport \/ AskToReplace
    <2>1. /\ import' \in [stage : {"none", "reading", "confirm", "closing"},
                          existing : BOOLEAN]
          /\ import'.stage # "closing"
      <3>1. import \in [stage : {"none", "reading", "confirm", "closing"},
                        existing : BOOLEAN]
        BY DEF IInv, TypeOK
      <3>2. CASE ChooseBackup
        <4>1. import' = [stage |-> "reading", existing |-> status # "setup"]
          BY <3>2 DEF ChooseBackup
        <4>2. (status # "setup") \in BOOLEAN
          OBVIOUS
        <4> QED
          BY <4>1, <4>2
      <3>3. CASE DropImport
        BY <3>3 DEF DropImport, NoImport
      <3>4. CASE AskToReplace
        BY <3>1, <3>4 DEF AskToReplace
      <3> QED
        BY <1>3, <3>2, <3>3, <3>4
    <2>2. UNCHANGED <<stored, session, status, current, shown, save, sync, auth,
                      epoch, lock, edits, vaults, history>>
      BY <1>3 DEF ChooseBackup, DropImport, AskToReplace
    <2>3. TypeOK'
      BY <2>1, <2>2 DEF IInv, TypeOK
    <2>4. Numbered' /\ OneSession' /\ SealsHaveKey' /\ OneWrite'
      BY <2>1, <2>2 DEF IInv, Numbered, OneSession, SealsHaveKey, OneWrite
    <2>5. NoneNewer' /\ WantedKept' /\ Fresh'
      BY <2>2 DEF IInv, NoneNewer, WantedKept, Fresh
    <2> QED
      BY <2>3, <2>4, <2>5 DEF IInv
  <1>4. CASE StartSync
    <2>1. TypeOK'
      BY <1>4 DEF IInv, TypeOK, StartSync
    <2>2. /\ sync'.session = current /\ sync'.doc = shown /\ current # 0
          /\ save = 0 /\ ~lock.on
      BY <1>4 DEF StartSync, IInv, OneSession
    <2>3. Numbered' /\ OneSession' /\ SealsHaveKey'
      BY <1>4, <2>2 DEF IInv, StartSync, Numbered, OneSession, SealsHaveKey
    <2>4. OneWrite'
      BY <1>4, <2>2 DEF IInv, StartSync, OneWrite
    <2>5. NoneNewer' /\ WantedKept' /\ Fresh'
      BY <1>4, <2>2 DEF IInv, StartSync, NoneNewer, WantedKept, Fresh
    <2> QED
      BY <2>1, <2>3, <2>4, <2>5 DEF IInv
  <1>5. CASE EndSync \/ SyncFails
    <2>1. /\ sync' = NoSync /\ shown' \in {shown, sync.doc}
          /\ history'.wanted = history.wanted
          /\ history'.imported = history.imported
          /\ ~history'.stale =>
               \/ shown' = sync.doc /\ (~history.stale \/ shown # sync.doc)
               \/ shown' = shown /\ ~history.stale /\ shown = sync.doc
          /\ history' \in [wanted : Envelope, imported : Nat, stale : BOOLEAN]
          /\ sync.on /\ session[sync.session].writes = <<>>
      <3> history \in [wanted : Envelope, imported : Nat, stale : BOOLEAN]
        BY DEF IInv, TypeOK
      <3>1. CASE EndSync
        BY <3>1 DEF EndSync
      <3>2. CASE SyncFails
        BY <3>2 DEF SyncFails
      <3> QED
        BY <1>5, <3>1, <3>2
    <2>2. UNCHANGED <<stored, session, status, current, save, auth, epoch, lock,
                      import, edits, vaults>>
      BY <1>5 DEF EndSync, SyncFails
    <2>3. TypeOK'
      BY <2>1, <2>2 DEF IInv, TypeOK, NoSync, NoVault, Envelope
    <2>4. Numbered' /\ NoneNewer'
      BY <2>1, <2>2
      DEF IInv, TypeOK, Numbered, NoneNewer, NoSync, NoVault, Envelope
    <2>5. OneSession' /\ SealsHaveKey'
      BY <2>1, <2>2 DEF IInv, OneSession, SealsHaveKey
    <2>6. OneWrite'
      BY <2>1, <2>2 DEF IInv, OneWrite, NoSync
    <2>7. WantedKept' /\ Fresh'
      BY <2>1, <2>2 DEF IInv, WantedKept, Fresh, NoSync
    <2> QED
      BY <2>3, <2>4, <2>5, <2>6, <2>7 DEF IInv
  <1>6. CASE UNCHANGED vars
    BY <1>6
    DEF vars, IInv, TypeOK, Numbered, OneSession, SealsHaveKey, OneWrite,
        NoneNewer, WantedKept, Fresh
  <1> QED
    BY <1>1, <1>2, <1>3, <1>4, <1>5, <1>6

\* The new session has a key if it becomes the page's.
LEMMA AuthenticateDoneKeeps == ASSUME IInv, AuthenticateDone PROVE IInv'
  <1> DEFINE opened == IF auth.create THEN NewVault ELSE Unlocked
             x == [state |-> IF Revoked THEN "destroyed" ELSE "open",
                   vault |-> opened.vault, writes |-> <<>>]
             n == Len(session) + 1
  <1>1. /\ auth.on /\ auth' = NoAuth /\ current = 0
        /\ session' = Append(session, x)
        /\ vaults' = IF auth.create THEN vaults + 1 ELSE vaults
        /\ stored' = IF auth.create THEN opened ELSE stored
        /\ UNCHANGED <<save, sync, epoch, lock, edits, history>>
    BY DEF AuthenticateDone, IInv, OneSession
  <1>2. \/ Revoked /\ UNCHANGED <<status, current, shown, import>>
        \/ /\ ~Revoked /\ ~lock.on
           /\ status' = "unlocked" /\ current' = n /\ shown' = opened
           /\ import' = Unmounted
    BY DEF AuthenticateDone, Revoked
  <1>3. /\ opened \in Envelope /\ opened.vault <= vaults' /\ opened.edit <= edits
        /\ auth.create => opened.vault = vaults + 1 /\ opened.edit = 0
        /\ ~auth.create => opened = auth.envelope
    BY <1>1 DEF IInv, TypeOK, Numbered, NewVault, Unlocked, Envelope
  <1>4. x \in Session /\ x.writes = <<>>
    BY <1>3 DEF Session, Envelope
  <1>5. /\ session' \in Seq(Session)
        /\ DOMAIN session' = DOMAIN session \cup {n} /\ n \notin DOMAIN session
        /\ \A t \in DOMAIN session : session'[t] = session[t]
        /\ session'[n] = x
    BY <1>1, <1>4, SessionAdded DEF IInv, TypeOK
  <1>6. n # 0
    BY LenProperties DEF IInv, TypeOK
  <1>7. import' \in [stage : {"none", "reading", "confirm", "closing"},
                     existing : BOOLEAN]
        /\ import'.stage # "closing"
    <2>1. import' = import \/ import' = NoImport
      BY <1>2 DEF Unmounted
    <2>2. /\ import \in [stage : {"none", "reading", "confirm", "closing"},
                         existing : BOOLEAN]
          /\ import.stage # "closing"
      BY <1>1 DEF IInv, TypeOK, OneSession
    <2>3. /\ NoImport \in [stage : {"none", "reading", "confirm", "closing"},
                           existing : BOOLEAN]
          /\ NoImport.stage # "closing"
      BY DEF NoImport
    <2> QED
      BY <2>1, <2>2, <2>3
  <1>8. TypeOK'
    <2>1. stored' \in Envelope /\ shown' \in Envelope
      BY <1>1, <1>2, <1>3 DEF IInv, TypeOK
    <2>2. /\ status' \in {"setup", "locked", "unlocked"}
          /\ current' \in {0} \cup DOMAIN session'
      BY <1>1, <1>2, <1>5 DEF IInv, TypeOK
    <2>3. auth' \in [on : BOOLEAN, create : BOOLEAN, ticket : 0..epoch',
                    envelope : Envelope]
      BY <1>1 DEF IInv, TypeOK, NoAuth, NoVault, Envelope
    <2>4. vaults' \in Nat
      BY <1>1 DEF IInv, TypeOK
    <2>5. /\ sync' \in [on : BOOLEAN, session : {0} \cup DOMAIN session',
                        doc : Envelope, failed : BOOLEAN]
          /\ lock' \in [on : BOOLEAN, session : {0} \cup DOMAIN session',
                        save : 0..edits', failed : BOOLEAN]
      BY <1>1, <1>5 DEF IInv, TypeOK
    <2> QED
      BY <1>1, <1>5, <1>7, <2>1, <2>2, <2>3, <2>4, <2>5 DEF IInv, TypeOK
  <1>9. Numbered'
    <2>1. \A t \in DOMAIN session' : session'[t].vault <= vaults'
      BY <1>1, <1>3, <1>5, SessionTyped DEF IInv, TypeOK, Numbered, Session
    <2>2. auth'.envelope.vault = 0 /\ auth'.envelope.edit = 0
      BY <1>1 DEF NoAuth, NoVault
    <2>3. \A e \in {stored, shown, sync.doc, history.wanted} :
            e.vault <= vaults' /\ e.edit <= edits
      <3>1. \A e \in {stored, shown, sync.doc, history.wanted} :
              e.vault \in Nat /\ e.vault <= vaults /\ e.edit <= edits
        BY DEF IInv, TypeOK, Numbered, Envelope
      <3>2. vaults \in Nat /\ vaults' \in {vaults, vaults + 1}
        BY <1>1 DEF IInv, TypeOK
      <3> QED
        BY <3>1, <3>2
    <2>4. stored' \in {stored, opened} /\ shown' \in {shown, opened}
      BY <1>1, <1>2
    <2> QED
      BY <1>1, <1>3, <1>8, <2>1, <2>2, <2>3, <2>4 DEF TypeOK, Numbered
  <1>10. OneSession'
    BY <1>1, <1>2, <1>5, <1>6, <1>7 DEF IInv, OneSession, NoAuth
  <1>11. SealsHaveKey'
    BY <1>4, <1>5 DEF IInv, SealsHaveKey
  <1>12. OneWrite'
    <2>1. save = 0
      BY <1>1 DEF IInv, OneWrite
    <2>2. \A t \in DOMAIN session' : session'[t].writes = <<>>
      BY <1>1, <1>4, <1>5, SessionTyped DEF IInv, OneWrite
    <2> QED
      BY <1>1, <1>2, <2>1, <2>2 DEF IInv, OneWrite
  <1>13. NoneNewer'
    <2>1. auth'.envelope.edit = 0 /\ stored'.edit \in Nat
      BY <1>1, <1>8 DEF NoAuth, NoVault, TypeOK, Envelope
    <2>2. CASE auth.create
      <3>1. \A e \in {shown, sync.doc, auth.envelope} :
              e.vault \in Nat /\ e.vault <= vaults
        BY DEF IInv, TypeOK, Numbered, Envelope
      <3>2. vaults \in Nat /\ stored' = opened /\ opened.vault = vaults + 1
        BY <1>1, <1>3, <2>2 DEF IInv, TypeOK
      <3>3. shown' = shown \/ shown' = stored'
        BY <1>2, <3>2
      <3> HIDE DEF opened
      <3> QED
        BY <1>1, <2>1, <3>1, <3>2, <3>3 DEF NoneNewer, NoAuth, NoVault
    <2>3. CASE ~auth.create
      BY <1>1, <1>2, <1>3, <2>1, <2>3 DEF IInv, NoneNewer
    <2> QED
      BY <2>2, <2>3
  <1>14. WantedKept'
    <2>1. /\ vaults \in Nat
          /\ history.wanted.vault \in Nat /\ history.wanted.vault <= vaults
      BY DEF IInv, TypeOK, Numbered, Envelope
    <2>2. stored' = stored \/ stored'.vault = vaults + 1
      BY <1>1, <1>3
    <2> QED
      BY <1>1, <2>1, <2>2 DEF IInv, WantedKept
  <1>15. Fresh'
    <2>1. history.imported = 0 => ~sync.on
      BY <1>1 DEF IInv, Fresh, OneWrite
    <2>2. Revoked => status' # "unlocked"
      BY <1>1, <1>2 DEF IInv, OneSession
    <2>3. history.imported = 0 => opened = stored'
      BY <1>1, <1>3 DEF IInv, Fresh
    <2> QED
      BY <1>1, <1>2, <2>1, <2>2, <2>3 DEF Fresh, NoAuth
  <1> QED
    BY <1>8, <1>9, <1>10, <1>11, <1>12, <1>13, <1>14, <1>15 DEF IInv

\* A sealing that is under way is that of the newest edit.
LEMMA Pending ==
  ASSUME IInv, NEW s \in DOMAIN session, session[s].writes # <<>>
  PROVE  /\ s = current /\ s # 0 /\ ~auth.on
         /\ session[s].state # "destroyed"
         /\ edits \in Nat /\ edits # 0 /\ stored.edit < edits
         /\ Head(session[s].writes) = edits /\ Tail(session[s].writes) = <<>>
         /\ \/ save = edits /\ ~sync.on
            \/ save = 0 /\ sync.on /\ sync.session = s /\ ~lock.on
  <1>1. s = current /\ session[s].writes = <<edits>> /\ stored.edit < edits
    BY DEF IInv, OneWrite
  <1>2. edits \in Nat /\ stored.edit \in Nat
    BY ConstantsAssumption DEF IInv, TypeOK, ConstantsAssumption, Envelope
  <1>3. save = edits \/ (save = 0 /\ sync.on /\ sync.session = s)
    BY DEF IInv, OneWrite
  <1>4. sync.on => save = 0 /\ ~lock.on
    BY DEF IInv, OneWrite
  <1>5. s # 0
    BY SessionTyped DEF IInv
  <1>6. Head(session[s].writes) = edits /\ Tail(session[s].writes) = <<>>
    BY <1>1, <1>2, OneElement
  <1>7. session[s].state # "destroyed" /\ ~auth.on
    BY <1>1, <1>5 DEF IInv, SealsHaveKey, OneSession
  <1>8. edits # 0
    BY <1>1, <1>2
  <1> QED
    BY <1>1, <1>2, <1>3, <1>4, <1>5, <1>6, <1>7, <1>8

\* What queueing a document on an idle session does.
LEMMA Queued ==
  ASSUME IInv, NEW s \in DOMAIN session, Queue(s), session[s].writes = <<>>
  PROVE  /\ s = current /\ s # 0 /\ session[s].state = "open"
         /\ edits \in Nat /\ edits' = edits + 1 /\ edits' <= MaxEdits
         /\ session' \in Seq(Session) /\ DOMAIN session' = DOMAIN session
         /\ \A t \in DOMAIN session : t # s => session'[t] = session[t]
         /\ session'[s].state = session[s].state
         /\ session'[s].vault = session[s].vault
         /\ session'[s].writes = <<edits + 1>>
  <1> DEFINE x == [session[s] EXCEPT !.writes = <<edits + 1>>]
  <1>1. edits \in Nat /\ edits < MaxEdits /\ MaxEdits \in Nat /\ edits' = edits + 1
    BY ConstantsAssumption DEF IInv, TypeOK, ConstantsAssumption, Queue
  <1>2. session[s] \in Session /\ s # 0
    BY SessionTyped DEF IInv
  <1>3. session[s].state = "open" /\ s = current
    BY DEF Queue, IInv, OneSession
  <1>4. session' = [session EXCEPT ![s] = x]
    BY <1>1 DEF Queue
  <1>5. x \in Session
    <2>1. <<edits + 1>> \in Seq(Nat)
      BY <1>1
    <2> QED
      BY <1>2, <2>1 DEF Session
  <1>6. /\ x.state = session[s].state /\ x.vault = session[s].vault
        /\ x.writes = <<edits + 1>>
    BY <1>2 DEF Session
  <1> HIDE DEF x
  <1>7. session \in Seq(Session)
    BY DEF IInv, TypeOK
  <1> QED
    BY <1>1, <1>2, <1>3, <1>4, <1>5, <1>6, <1>7, SessionSet

LEMMA PersistKeeps == ASSUME IInv, Persist PROVE IInv'
  <1>1. /\ current # 0 /\ ~lock.on /\ ~sync.on /\ save = 0
        /\ save' = edits + 1
        /\ history' = [history EXCEPT !.wanted =
              [vault |-> session[current].vault, edit |-> edits + 1]]
        /\ UNCHANGED <<stored, status, current, shown, sync, auth, epoch, lock,
                       import, vaults>>
    BY DEF Persist
  <1>2. current \in DOMAIN session
    BY <1>1 DEF IInv, TypeOK
  <1>3. session[current].writes = <<>>
    BY <1>1, <1>2, Pending
  <1>4. /\ session[current].state = "open"
        /\ edits \in Nat /\ edits' = edits + 1 /\ edits' <= MaxEdits
        /\ session' \in Seq(Session) /\ DOMAIN session' = DOMAIN session
        /\ \A t \in DOMAIN session : t # current => session'[t] = session[t]
        /\ session'[current].state = session[current].state
        /\ session'[current].vault = session[current].vault
        /\ session'[current].writes = <<edits + 1>>
    BY <1>2, <1>3, Queued DEF Persist
  <1>5. session[current].vault \in Nat /\ session[current].vault <= vaults
    BY <1>2, SessionTyped DEF IInv, Numbered, Session
  <1>6. /\ history' \in [wanted : Envelope, imported : Nat, stale : BOOLEAN]
        /\ history'.wanted.vault <= vaults /\ history'.wanted.edit = edits + 1
        /\ history'.imported = history.imported
        /\ history'.stale = history.stale
    <2>1. history \in [wanted : Envelope, imported : Nat, stale : BOOLEAN]
      BY DEF IInv, TypeOK
    <2>2. [vault |-> session[current].vault, edit |-> edits + 1] \in Envelope
      BY <1>4, <1>5 DEF Envelope
    <2> QED
      BY <1>1, <1>5, <2>1, <2>2
  <1>7. TypeOK'
    <2>1. /\ save' \in 0..edits' /\ edits' \in 0..MaxEdits
      BY <1>1, <1>4
    <2>2. /\ lock' \in [on : BOOLEAN, session : {0} \cup DOMAIN session',
                        save : 0..edits', failed : BOOLEAN]
      BY <1>1, <1>4 DEF IInv, TypeOK
    <2> QED
      BY <1>1, <1>4, <1>6, <2>1, <2>2 DEF IInv, TypeOK
  <1>8. Numbered'
    <2>1. \A e \in {stored, shown, sync.doc, auth.envelope} :
            e.vault <= vaults /\ e.edit \in Nat /\ e.edit <= edits
      BY DEF IInv, TypeOK, Numbered, Envelope
    <2>2. \A e \in {stored, shown, sync.doc, auth.envelope} :
            e.vault <= vaults' /\ e.edit <= edits'
      BY <1>1, <1>4, <2>1
    <2>3. \A t \in DOMAIN session' : session'[t].vault <= vaults'
      BY <1>1, <1>4, <1>5 DEF IInv, Numbered
    <2> QED
      BY <1>1, <1>4, <1>6, <2>2, <2>3 DEF Numbered
  <1>9. OneSession' /\ SealsHaveKey'
    BY <1>1, <1>2, <1>4, <1>6 DEF IInv, OneSession, SealsHaveKey
  <1>10. OneWrite'
    <2>1. stored.edit \in Nat /\ stored.edit <= edits
      BY DEF IInv, TypeOK, Numbered, Envelope
    <2>2. \A t \in DOMAIN session' : session'[t].writes # <<>> => t = current
      BY <1>4 DEF IInv, OneWrite
    <2> QED
      BY <1>1, <1>4, <2>1, <2>2 DEF OneWrite
  <1>11. NoneNewer' /\ Fresh'
    BY <1>1, <1>6 DEF IInv, NoneNewer, Fresh
  <1>12. WantedKept'
    BY <1>1, <1>4, <1>6 DEF WantedKept
  <1> QED
    BY <1>7, <1>8, <1>9, <1>10, <1>11, <1>12 DEF IInv

LEMMA SyncSealsKeeps == ASSUME IInv, SyncSeals PROVE IInv'
  <1> DEFINE s == sync.session
  <1>1. /\ sync.on /\ session[s].writes = <<>> /\ s # 0 /\ save = 0 /\ ~lock.on
        /\ ~Desktop
        /\ UNCHANGED <<stored, status, current, shown, save, sync, auth, epoch,
                       lock, import, vaults, history>>
    BY DEF SyncSeals, IInv, OneWrite
  <1>2. s \in DOMAIN session
    BY <1>1 DEF IInv, TypeOK
  <1>3. /\ s = current /\ session[s].state = "open"
        /\ edits \in Nat /\ edits' = edits + 1 /\ edits' <= MaxEdits
        /\ session' \in Seq(Session) /\ DOMAIN session' = DOMAIN session
        /\ \A t \in DOMAIN session : t # s => session'[t] = session[t]
        /\ session'[s].state = session[s].state
        /\ session'[s].vault = session[s].vault
        /\ session'[s].writes = <<edits + 1>>
    BY <1>1, <1>2, Queued DEF SyncSeals
  <1> HIDE DEF s
  <1>4. TypeOK'
    <2>1. /\ save' \in 0..edits' /\ edits' \in 0..MaxEdits
          /\ lock' \in [on : BOOLEAN, session : {0} \cup DOMAIN session',
                        save : 0..edits', failed : BOOLEAN]
      BY <1>1, <1>3 DEF IInv, TypeOK
    <2> QED
      BY <1>1, <1>3, <2>1 DEF IInv, TypeOK
  <1>5. Numbered'
    <2>1. \A e \in {stored, shown, sync.doc, auth.envelope, history.wanted} :
            e.vault <= vaults /\ e.edit \in Nat /\ e.edit <= edits
      BY DEF IInv, TypeOK, Numbered, Envelope
    <2>2. \A t \in DOMAIN session' : session'[t].vault <= vaults'
      BY <1>1, <1>2, <1>3 DEF IInv, Numbered
    <2> QED
      BY <1>1, <1>3, <2>1, <2>2 DEF Numbered
  <1>6. OneSession' /\ SealsHaveKey'
    BY <1>1, <1>2, <1>3 DEF IInv, OneSession, SealsHaveKey
  <1>7. OneWrite'
    <2>1. stored.edit \in Nat /\ stored.edit <= edits
      BY DEF IInv, TypeOK, Numbered, Envelope
    <2>2. \A t \in DOMAIN session' : session'[t].writes # <<>> => t = s
      BY <1>3 DEF IInv, OneWrite
    <2> QED
      BY <1>1, <1>3, <2>1, <2>2 DEF OneWrite, s
  <1>8. NoneNewer' /\ WantedKept' /\ Fresh'
    BY <1>1 DEF IInv, NoneNewer, WantedKept, Fresh
  <1> QED
    BY <1>4, <1>5, <1>6, <1>7, <1>8 DEF IInv

\* What the end of a sealing leaves of its session.
LEMMA Unqueued ==
  ASSUME IInv, NEW s \in DOMAIN session, session[s].writes # <<>>,
         session' = [session EXCEPT ![s].writes = Tail(@)]
  PROVE  /\ session' \in Seq(Session) /\ DOMAIN session' = DOMAIN session
         /\ \A t \in DOMAIN session :
              /\ session'[t].state = session[t].state
              /\ session'[t].vault = session[t].vault
              /\ session'[t].writes = <<>>
  <1> DEFINE x == [session[s] EXCEPT !.writes = <<>>]
             q == [session EXCEPT ![s] = x]
  <1>1. session' = q
    BY Pending
  <1>2. session[s] \in Session
    BY SessionTyped DEF IInv
  <1>3. <<>> \in Seq(Nat)
    OBVIOUS
  <1>4. /\ x \in Session /\ x.state = session[s].state
        /\ x.vault = session[s].vault /\ x.writes = <<>>
    BY <1>2, <1>3 DEF Session
  <1> HIDE DEF x
  <1>5. \A t \in DOMAIN session : t # s => session[t].writes = <<>>
    BY Pending DEF IInv, OneWrite
  <1>6. session \in Seq(Session)
    BY DEF IInv, TypeOK
  <1>7. /\ q \in Seq(Session) /\ DOMAIN q = DOMAIN session
        /\ \A t \in DOMAIN session : q[t] = IF t = s THEN x ELSE session[t]
    BY <1>4, <1>6, SessionSet
  <1> HIDE DEF q
  <1> QED
    BY <1>1, <1>4, <1>5, <1>7

\* The end of a sealing, successful or not: what it does to the page.
LEMMA SealingEnds ==
  ASSUME IInv, NEW s \in DOMAIN session, NEW ok \in BOOLEAN,
         session[s].writes # <<>>, Sealed(s, Head(session[s].writes), ok)
  PROVE  LET doc == Seal(s, edits) IN
         /\ doc \in Envelope /\ doc.vault <= vaults /\ doc.edit = edits
         /\ save' = 0
         /\ shown' = IF ok /\ save # 0 /\ ~lock.on THEN doc ELSE shown
         /\ sync' \in [on : BOOLEAN, session : {0} \cup DOMAIN session,
                       doc : Envelope, failed : BOOLEAN]
         /\ sync'.on = sync.on /\ sync'.session = sync.session
         /\ sync'.doc = IF ok /\ sync.on THEN doc ELSE sync.doc
         /\ lock' \in [on : BOOLEAN, session : {0} \cup DOMAIN session,
                       save : 0..edits, failed : BOOLEAN]
         /\ lock'.on = lock.on /\ lock'.session = lock.session
         /\ lock.on => lock'.save = 0 /\ lock'.failed = ~ok
         /\ history' = IF save # 0 /\ ~lock.on
                       THEN IF ok THEN [history EXCEPT !.stale = FALSE]
                            ELSE [history EXCEPT !.wanted = shown]
                       ELSE history
  <1> DEFINE doc == Seal(s, edits)
             e == Head(session[s].writes)
  <1>1. /\ e = edits /\ edits \in Nat /\ edits # 0
        /\ \/ save = edits /\ ~sync.on
           \/ save = 0 /\ sync.on /\ sync.session = s /\ ~lock.on
    BY Pending
  <1>2. session[s].vault \in Nat /\ session[s].vault <= vaults
    BY SessionTyped DEF IInv, Numbered, Session
  <1>3. doc \in Envelope /\ doc.vault <= vaults /\ doc.edit = edits
    BY <1>1, <1>2 DEF Seal, Envelope
  <1>4. (e = save) <=> save # 0
    BY <1>1
  <1>5. /\ save' = 0
        /\ shown' = IF ok /\ save # 0 /\ ~lock.on THEN doc ELSE shown
        /\ history' = IF save # 0 /\ ~lock.on
                      THEN IF ok THEN [history EXCEPT !.stale = FALSE]
                           ELSE [history EXCEPT !.wanted = shown]
                      ELSE history
    BY <1>1, <1>4 DEF Sealed
  <1>6. sync' = IF sync.on THEN IF ok THEN [sync EXCEPT !.doc = doc]
                                ELSE [sync EXCEPT !.failed = TRUE]
                ELSE sync
    BY <1>1, <1>4 DEF Sealed
  <1>7. sync \in [on : BOOLEAN, session : {0} \cup DOMAIN session,
                  doc : Envelope, failed : BOOLEAN]
    BY DEF IInv, TypeOK
  <1>8. /\ sync' \in [on : BOOLEAN, session : {0} \cup DOMAIN session,
                      doc : Envelope, failed : BOOLEAN]
        /\ sync'.on = sync.on /\ sync'.session = sync.session
        /\ sync'.doc = IF ok /\ sync.on THEN doc ELSE sync.doc
    <2> HIDE DEF doc
    <2> QED
      BY <1>3, <1>6, <1>7
  <1>9. lock \in [on : BOOLEAN, session : {0} \cup DOMAIN session,
                  save : 0..edits, failed : BOOLEAN]
    BY DEF IInv, TypeOK
  <1>10. lock.on => lock.save = save /\ save = edits
    BY <1>1 DEF IInv, OneWrite
  <1>11. lock' = IF lock.on THEN [lock EXCEPT !.save = 0, !.failed = ~ok] ELSE lock
    BY <1>1, <1>10 DEF Sealed
  <1>12. /\ lock' \in [on : BOOLEAN, session : {0} \cup DOMAIN session,
                       save : 0..edits, failed : BOOLEAN]
         /\ lock'.on = lock.on /\ lock'.session = lock.session
         /\ lock.on => lock'.save = 0 /\ lock'.failed = ~ok
    <2>1. 0 \in 0..edits /\ (~ok) \in BOOLEAN
      BY <1>1
    <2> QED
      BY <1>9, <1>11, <2>1
  <1> QED
    BY <1>3, <1>5, <1>8, <1>12

LEMMA SealDoneKeeps ==
  ASSUME IInv, NEW s \in DOMAIN session, SealDone(s)
  PROVE  IInv'
  <1> DEFINE doc == Seal(s, edits)
  <1>1. /\ session[s].writes # <<>> /\ stored' = doc
        /\ session' = [session EXCEPT ![s].writes = Tail(@)]
        /\ Sealed(s, Head(session[s].writes), TRUE)
        /\ UNCHANGED <<status, current, auth, epoch, import, edits, vaults>>
    BY Pending DEF SealDone
  <1>2. /\ session' \in Seq(Session) /\ DOMAIN session' = DOMAIN session
        /\ \A t \in DOMAIN session :
             /\ session'[t].state = session[t].state
             /\ session'[t].vault = session[t].vault
             /\ session'[t].writes = <<>>
    BY <1>1, Unqueued
  <1>3. /\ doc \in Envelope /\ doc.vault <= vaults /\ doc.edit = edits
        /\ save' = 0
        /\ shown' = IF save # 0 /\ ~lock.on THEN doc ELSE shown
        /\ sync' \in [on : BOOLEAN, session : {0} \cup DOMAIN session,
                      doc : Envelope, failed : BOOLEAN]
        /\ sync'.on = sync.on /\ sync'.session = sync.session
        /\ sync'.doc = IF sync.on THEN doc ELSE sync.doc
        /\ lock' \in [on : BOOLEAN, session : {0} \cup DOMAIN session,
                      save : 0..edits, failed : BOOLEAN]
        /\ lock'.on = lock.on /\ lock'.session = lock.session
        /\ lock.on => lock'.save = 0
        /\ history' = IF save # 0 /\ ~lock.on THEN [history EXCEPT !.stale = FALSE]
                      ELSE history
    BY <1>1, SealingEnds
  <1>4. /\ s = current /\ edits \in Nat /\ edits # 0
        /\ \/ save = edits /\ ~sync.on
           \/ save = 0 /\ sync.on /\ sync.session = s /\ ~lock.on
        /\ ~auth.on
    BY <1>1, Pending
  <1> HIDE DEF doc
  <1>5. /\ history' \in [wanted : Envelope, imported : Nat, stale : BOOLEAN]
        /\ history'.wanted = history.wanted /\ history'.imported = history.imported
    <2>1. history \in [wanted : Envelope, imported : Nat, stale : BOOLEAN]
      BY DEF IInv, TypeOK
    <2> QED
      BY <1>3, <2>1
  <1>6. TypeOK'
    <2>1. shown' \in Envelope /\ save' \in 0..edits'
      BY <1>1, <1>3, <1>4 DEF IInv, TypeOK
    <2> QED
      BY <1>1, <1>2, <1>3, <1>5, <2>1 DEF IInv, TypeOK
  <1>7. Numbered'
    <2>1. \A e \in {stored, shown, sync.doc, auth.envelope, history.wanted} :
            e.vault <= vaults /\ e.edit <= edits
      BY DEF IInv, Numbered
    <2>2. doc.vault <= vaults /\ doc.edit <= edits
      BY <1>3, <1>4
    <2>3. \A e \in {stored', shown', sync'.doc, auth'.envelope, history'.wanted} :
            e \in {shown, sync.doc, auth.envelope, history.wanted, doc}
      BY <1>1, <1>3, <1>5
    <2>4. \A t \in DOMAIN session' : session'[t].vault <= vaults'
      BY <1>1, <1>2 DEF IInv, Numbered
    <2> QED
      BY <1>1, <2>1, <2>2, <2>3, <2>4 DEF Numbered
  <1>8. OneSession' /\ SealsHaveKey'
    BY <1>1, <1>2, <1>3, <1>5 DEF IInv, OneSession, SealsHaveKey
  <1>9. OneWrite'
    BY <1>2, <1>3, <1>4 DEF IInv, OneWrite
  <1>10. NoneNewer' /\ WantedKept'
    BY <1>1, <1>3, <1>4, <1>5, <1>7 DEF Numbered, NoneNewer, WantedKept
  <1>11. Fresh'
    <2>1. ~lock.on /\ ~sync.on => shown' = stored'
      BY <1>1, <1>3, <1>4
    <2>2. sync'.on => sync'.session = current' /\ sync'.doc = stored'
      BY <1>1, <1>3, <1>4
    <2> QED
      BY <1>1, <1>3, <1>4, <2>1, <2>2 DEF Fresh
  <1> QED
    BY <1>6, <1>7, <1>8, <1>9, <1>10, <1>11 DEF IInv

LEMMA SealFailsKeeps ==
  ASSUME IInv, NEW s \in DOMAIN session, SealFails(s)
  PROVE  IInv'
  <1>1. /\ session[s].writes # <<>>
        /\ session' = [session EXCEPT ![s].writes = Tail(@)]
        /\ Sealed(s, Head(session[s].writes), FALSE)
        /\ UNCHANGED <<stored, status, current, auth, epoch, import, edits, vaults>>
    BY DEF SealFails
  <1>2. /\ session' \in Seq(Session) /\ DOMAIN session' = DOMAIN session
        /\ \A t \in DOMAIN session :
             /\ session'[t].state = session[t].state
             /\ session'[t].vault = session[t].vault
             /\ session'[t].writes = <<>>
    BY <1>1, Unqueued
  <1>3. /\ save' = 0 /\ shown' = shown
        /\ sync' \in [on : BOOLEAN, session : {0} \cup DOMAIN session,
                      doc : Envelope, failed : BOOLEAN]
        /\ sync'.on = sync.on /\ sync'.session = sync.session
        /\ sync'.doc = sync.doc
        /\ lock' \in [on : BOOLEAN, session : {0} \cup DOMAIN session,
                      save : 0..edits, failed : BOOLEAN]
        /\ lock'.on = lock.on /\ lock'.session = lock.session
        /\ lock.on => lock'.save = 0 /\ lock'.failed
        /\ history' = IF save # 0 /\ ~lock.on THEN [history EXCEPT !.wanted = shown]
                      ELSE history
    BY <1>1, SealingEnds
  <1>4. /\ s = current /\ edits \in Nat /\ edits # 0 /\ ~auth.on
        /\ \/ save = edits /\ ~sync.on
           \/ save = 0 /\ sync.on /\ sync.session = s /\ ~lock.on
    BY <1>1, Pending
  <1>5. /\ history' \in [wanted : Envelope, imported : Nat, stale : BOOLEAN]
        /\ history'.wanted = IF save # 0 /\ ~lock.on THEN shown ELSE history.wanted
        /\ history'.imported = history.imported /\ history'.stale = history.stale
    <2>1. /\ history \in [wanted : Envelope, imported : Nat, stale : BOOLEAN]
          /\ shown \in Envelope
      BY DEF IInv, TypeOK
    <2> QED
      BY <1>3, <2>1
  <1>6. TypeOK'
    BY <1>1, <1>2, <1>3, <1>4, <1>5 DEF IInv, TypeOK
  <1>7. Numbered'
    BY <1>1, <1>2, <1>3, <1>5 DEF IInv, Numbered
  <1>8. OneSession' /\ SealsHaveKey'
    BY <1>1, <1>2, <1>3, <1>5 DEF IInv, OneSession, SealsHaveKey
  <1>9. OneWrite'
    BY <1>2, <1>3, <1>4 DEF IInv, OneWrite
  <1>10. NoneNewer' /\ Fresh'
    BY <1>1, <1>3, <1>5 DEF IInv, NoneNewer, Fresh
  <1>11. WantedKept'
    <2>1. stored.edit \in Nat /\ shown.edit \in Nat
      BY DEF IInv, TypeOK, Envelope
    <2> QED
      BY <1>1, <1>3, <1>4, <1>5, <2>1 DEF IInv, NoneNewer, WantedKept
  <1> QED
    BY <1>6, <1>7, <1>8, <1>9, <1>10, <1>11 DEF IInv

\* What closing or destroying a session changes.
InState(s, st) == [session EXCEPT ![s].state = st]

LEMMA StateSet ==
  ASSUME TypeOK, NEW s \in DOMAIN session, NEW st \in {"open", "closing", "destroyed"}
  PROVE  LET q == InState(s, st) IN
         /\ q \in Seq(Session) /\ DOMAIN q = DOMAIN session
         /\ \A t \in DOMAIN session :
              /\ q[t].state = IF t = s THEN st ELSE session[t].state
              /\ q[t].vault = session[t].vault
              /\ q[t].writes = session[t].writes
  <1> DEFINE x == [session[s] EXCEPT !.state = st]
             q == [session EXCEPT ![s] = x]
  <1>1. session[s] \in Session /\ session \in Seq(Session)
    BY SessionTyped DEF TypeOK
  <1>2. /\ x \in Session /\ x.state = st
        /\ x.vault = session[s].vault /\ x.writes = session[s].writes
    BY <1>1 DEF Session
  <1>3. /\ q \in Seq(Session) /\ DOMAIN q = DOMAIN session
        /\ \A t \in DOMAIN session : q[t] = IF t = s THEN x ELSE session[t]
    <2> HIDE DEF x
    <2> QED
      BY <1>1, <1>2, SessionSet
  <1>4. \A t \in DOMAIN session :
          /\ q[t].state = IF t = s THEN st ELSE session[t].state
          /\ q[t].vault = session[t].vault
          /\ q[t].writes = session[t].writes
    <2> HIDE DEF x, q
    <2> QED
      BY <1>2, <1>3
  <1>5. q = InState(s, st)
    BY DEF InState
  <1> HIDE DEF q, x
  <1> QED
    BY <1>3, <1>4, <1>5

\* A session that may have a key is told to close.
LEMMA Closes ==
  ASSUME IInv, current # 0,
         session' = [session EXCEPT ![current].state =
                       IF @ = "open" THEN "closing" ELSE @]
  PROVE  /\ session' \in Seq(Session) /\ DOMAIN session' = DOMAIN session
         /\ \A t \in DOMAIN session :
              /\ session'[t].state = "destroyed" <=> session[t].state = "destroyed"
              /\ session'[t].vault = session[t].vault
              /\ session'[t].writes = session[t].writes
  <1> DEFINE st == IF session[current].state = "open" THEN "closing"
                   ELSE session[current].state
  <1>1. current \in DOMAIN session
    BY DEF IInv, TypeOK
  <1>2. session[current] \in Session
    BY <1>1, SessionTyped DEF IInv
  <1>3. st \in {"open", "closing", "destroyed"}
    BY <1>2 DEF Session
  <1> DEFINE q == InState(current, st)
  <1>4. session' = q
    BY DEF InState
  <1>5. st = "destroyed" <=> session[current].state = "destroyed"
    OBVIOUS
  <1>6. /\ q \in Seq(Session) /\ DOMAIN q = DOMAIN session
        /\ \A t \in DOMAIN session :
             /\ q[t].state = IF t = current THEN st ELSE session[t].state
             /\ q[t].vault = session[t].vault
             /\ q[t].writes = session[t].writes
    <2> HIDE DEF st
    <2>1. TypeOK
      BY DEF IInv
    <2> QED
      BY <1>1, <1>3, <2>1, StateSet
  <1> HIDE DEF q, st
  <1> QED
    BY <1>4, <1>5, <1>6

LEMMA RequestLockKeeps == ASSUME IInv, RequestLock PROVE IInv'
  <1>1. /\ epoch' = epoch + 1 /\ epoch < MaxLocks
        /\ Desktop \/ ~sync.on
        /\ UNCHANGED <<stored, status, current, shown, save, sync, auth, edits,
                       vaults, history>>
    BY DEF RequestLock
  <1>2. \/ lock.on /\ UNCHANGED <<lock, session, import>>
        \/ /\ ~lock.on
           /\ lock' = [on |-> TRUE, session |-> current, save |-> save,
                       failed |-> FALSE]
           /\ session' = IF current = 0 THEN session
                         ELSE [session EXCEPT ![current].state =
                                 IF @ = "open" THEN "closing" ELSE @]
           /\ import' = IF current # 0 \/ auth.on THEN Unmounted ELSE import
    BY DEF RequestLock
  <1>3. /\ session' \in Seq(Session) /\ DOMAIN session' = DOMAIN session
        /\ \A t \in DOMAIN session :
             /\ session'[t].state = "destroyed" <=> session[t].state = "destroyed"
             /\ session'[t].vault = session[t].vault
             /\ session'[t].writes = session[t].writes
    <2>1. CASE session' = session
      BY <2>1 DEF IInv, TypeOK
    <2>2. CASE session' # session
      BY <1>2, <2>2, Closes
    <2> QED
      BY <2>1, <2>2
  <1>4. /\ lock' \in [on : BOOLEAN, session : {0} \cup DOMAIN session,
                      save : 0..edits, failed : BOOLEAN]
        /\ lock'.on
        /\ \/ lock.on /\ UNCHANGED lock
           \/ /\ ~lock.on /\ ~lock'.failed
              /\ lock'.session = current /\ lock'.save = save
    <2>1. current \in {0} \cup DOMAIN session /\ save \in 0..edits
      BY DEF IInv, TypeOK
    <2>2. lock \in [on : BOOLEAN, session : {0} \cup DOMAIN session,
                    save : 0..edits, failed : BOOLEAN]
      BY DEF IInv, TypeOK
    <2>3. CASE lock.on /\ UNCHANGED lock
      BY <2>2, <2>3
    <2>4. CASE /\ ~lock.on
               /\ lock' = [on |-> TRUE, session |-> current, save |-> save,
                           failed |-> FALSE]
      BY <2>1, <2>4
    <2> QED
      BY <1>2, <2>3, <2>4
  <1>5. /\ import' \in [stage : {"none", "reading", "confirm", "closing"},
                        existing : BOOLEAN]
        /\ import'.stage = "closing" => import.stage = "closing"
    <2>1. import' = import \/ import' = NoImport
      BY <1>2 DEF Unmounted
    <2>2. import \in [stage : {"none", "reading", "confirm", "closing"},
                      existing : BOOLEAN]
      BY DEF IInv, TypeOK
    <2>3. /\ NoImport \in [stage : {"none", "reading", "confirm", "closing"},
                           existing : BOOLEAN]
          /\ NoImport.stage # "closing"
      BY DEF NoImport
    <2> QED
      BY <2>1, <2>2, <2>3
  <1>6. TypeOK'
    <2>1. epoch' \in 0..MaxLocks
      BY <1>1, ConstantsAssumption DEF IInv, TypeOK, ConstantsAssumption
    <2>2. auth' \in [on : BOOLEAN, create : BOOLEAN, ticket : 0..epoch',
                     envelope : Envelope]
      BY <1>1 DEF IInv, TypeOK
    <2> QED
      BY <1>1, <1>3, <1>4, <1>5, <2>1, <2>2 DEF IInv, TypeOK
  <1>7. Numbered'
    BY <1>1, <1>3 DEF IInv, Numbered
  <1>8. OneSession' /\ SealsHaveKey'
    BY <1>1, <1>3, <1>4, <1>5 DEF IInv, OneSession, SealsHaveKey
  <1>9. OneWrite'
    <2>1. ~sync.on
      BY <1>1 DEF IInv, OneWrite
    <2>2. save # 0 => current \in DOMAIN session
      BY DEF IInv, TypeOK, OneWrite
    <2> QED
      BY <1>1, <1>3, <1>4, <2>1, <2>2 DEF IInv, OneWrite
  <1>10. NoneNewer' /\ WantedKept'
    BY <1>1, <1>4 DEF IInv, NoneNewer, WantedKept
  <1>11. Fresh'
    BY <1>1, <1>4 DEF IInv, Fresh
  <1> QED
    BY <1>6, <1>7, <1>8, <1>9, <1>10, <1>11 DEF IInv

LEMMA LockDoneKeeps == ASSUME IInv, LockDone PROVE IInv'
  <1>1. /\ lock.on /\ Settled /\ ~auth.on /\ lock.save = 0 /\ import.stage # "closing"
        /\ session' = Destroyed(lock.session)
        /\ current' = 0 /\ shown' = NoVault
        /\ status' \in {"setup", "locked"} /\ lock' = NoLock
        /\ history' = [history EXCEPT !.wanted = NoVault, !.stale = FALSE]
        /\ UNCHANGED <<stored, save, sync, auth, epoch, import, edits, vaults>>
    BY DEF LockDone, Settled
  <1>2. save = 0 /\ ~sync.on
    BY <1>1 DEF IInv, OneWrite
  <1>3. \A t \in DOMAIN session : session[t].writes = <<>>
    BY <1>2, Pending
  <1>4. /\ session' \in Seq(Session) /\ DOMAIN session' = DOMAIN session
        /\ \A t \in DOMAIN session :
             /\ session'[t].state = "destroyed"
             /\ session'[t].vault = session[t].vault
             /\ session'[t].writes = <<>>
    <2>1. current \in {0, lock.session} /\ lock.session \in {0} \cup DOMAIN session
      BY <1>1 DEF IInv, TypeOK, OneSession
    <2>2. CASE lock.session = 0
      <3>1. session' = session /\ 0 \notin DOMAIN session
        BY <1>1, <2>2, SessionTyped DEF Destroyed, IInv
      <3> QED
        BY <1>3, <2>1, <2>2, <3>1 DEF IInv, TypeOK, OneSession
    <2>3. CASE lock.session # 0
      <3> DEFINE q == InState(lock.session, "destroyed")
      <3>1. session' = q
        BY <1>1, <2>3 DEF Destroyed, InState
      <3>2. /\ q \in Seq(Session) /\ DOMAIN q = DOMAIN session
            /\ \A t \in DOMAIN session :
                 /\ q[t].state = IF t = lock.session THEN "destroyed"
                                 ELSE session[t].state
                 /\ q[t].vault = session[t].vault
                 /\ q[t].writes = session[t].writes
        BY <2>1, <2>3, StateSet DEF IInv
      <3> HIDE DEF q
      <3>3. \A t \in DOMAIN session :
              t # lock.session => session[t].state = "destroyed"
        BY <2>1, SessionTyped DEF IInv, OneSession
      <3> QED
        BY <1>3, <3>1, <3>2, <3>3
    <2> QED
      BY <2>2, <2>3
  <1>5. /\ history' \in [wanted : Envelope, imported : Nat, stale : BOOLEAN]
        /\ history'.wanted = NoVault /\ history'.imported = history.imported
    <2>1. history \in [wanted : Envelope, imported : Nat, stale : BOOLEAN]
      BY DEF IInv, TypeOK
    <2>2. NoVault \in Envelope
      BY DEF NoVault, Envelope
    <2> QED
      BY <1>1, <2>1, <2>2
  <1>6. NoVault \in Envelope /\ NoVault.vault = 0 /\ NoVault.edit = 0
    BY DEF NoVault, Envelope
  <1>7. TypeOK'
    <2>1. lock' \in [on : BOOLEAN, session : {0} \cup DOMAIN session,
                     save : 0..edits, failed : BOOLEAN] /\ ~lock'.on
      BY <1>1 DEF IInv, TypeOK, NoLock
    <2> QED
      BY <1>1, <1>4, <1>5, <1>6, <2>1 DEF IInv, TypeOK
  <1>8. Numbered'
    <2>1. edits \in Nat /\ vaults \in Nat
      BY DEF IInv, TypeOK
    <2> QED
      BY <1>1, <1>4, <1>5, <1>6, <2>1 DEF IInv, Numbered
  <1>9. OneSession' /\ SealsHaveKey'
    BY <1>1, <1>4, <1>5 DEF IInv, OneSession, SealsHaveKey, NoLock
  <1>10. OneWrite'
    BY <1>1, <1>2, <1>4 DEF IInv, OneWrite, NoLock
  <1>11. NoneNewer' /\ WantedKept'
    <2>1. stored.edit \in Nat
      BY DEF IInv, TypeOK, Envelope
    <2> QED
      BY <1>1, <1>5, <1>6, <2>1 DEF IInv, NoneNewer, WantedKept
  <1>12. Fresh'
    BY <1>1, <1>2, <1>5 DEF IInv, Fresh
  <1> QED
    BY <1>7, <1>8, <1>9, <1>10, <1>11, <1>12 DEF IInv

\* What was promised to the user or shown of another vault counts no more.
LEMMA ImportBackupKeeps == ASSUME IInv, ImportBackup PROVE IInv'
  <1>1. /\ stored' = [vault |-> vaults + 1, edit |-> 0] /\ vaults' = vaults + 1
        /\ history' = [history EXCEPT !.wanted = NoVault, !.imported = vaults + 1]
        /\ UNCHANGED <<current, save, sync, auth, epoch, lock, edits>>
        /\ import.stage # "closing"
    BY DEF ImportBackup
  <1>2. \/ /\ current = 0 /\ import' = NoImport
           /\ status' = "locked" /\ shown' = NoVault /\ UNCHANGED session
        \/ /\ current # 0 /\ import' = [import EXCEPT !.stage = "closing"]
           /\ session' = [session EXCEPT ![current].state =
                            IF @ = "open" THEN "closing" ELSE @]
           /\ UNCHANGED <<status, shown>>
    BY DEF ImportBackup
  <1>3. /\ session' \in Seq(Session) /\ DOMAIN session' = DOMAIN session
        /\ \A t \in DOMAIN session :
             /\ session'[t].state = "destroyed" <=> session[t].state = "destroyed"
             /\ session'[t].vault = session[t].vault
             /\ session'[t].writes = session[t].writes
    <2>1. CASE session' = session
      BY <2>1 DEF IInv, TypeOK
    <2>2. CASE session' # session
      BY <1>2, <2>2, Closes
    <2> QED
      BY <2>1, <2>2
  <1>4. vaults \in Nat /\ edits \in Nat
    BY DEF IInv, TypeOK
  <1>5. NoVault \in Envelope /\ NoVault.vault = 0 /\ NoVault.edit = 0
    BY DEF NoVault, Envelope
  <1>6. /\ history' \in [wanted : Envelope, imported : Nat, stale : BOOLEAN]
        /\ history'.wanted = NoVault /\ history'.imported = vaults + 1
    <2>1. history \in [wanted : Envelope, imported : Nat, stale : BOOLEAN]
      BY DEF IInv, TypeOK
    <2>2. vaults + 1 \in Nat
      BY <1>4
    <2> QED
      BY <1>1, <1>5, <2>1, <2>2
  <1>7. stored' \in Envelope /\ stored'.vault = vaults + 1 /\ stored'.edit = 0
    BY <1>1, <1>4 DEF Envelope
  <1>8. /\ import' \in [stage : {"none", "reading", "confirm", "closing"},
                        existing : BOOLEAN]
        /\ import'.stage = "closing" => current # 0
    <2>1. import \in [stage : {"none", "reading", "confirm", "closing"},
                      existing : BOOLEAN]
      BY DEF IInv, TypeOK
    <2>2. CASE import' = NoImport
      BY <2>2 DEF NoImport
    <2>3. CASE current # 0 /\ import' = [import EXCEPT !.stage = "closing"]
      BY <2>1, <2>3
    <2> QED
      BY <1>2, <2>2, <2>3
  <1>9. TypeOK'
    BY <1>1, <1>2, <1>3, <1>4, <1>5, <1>6, <1>7, <1>8 DEF IInv, TypeOK
  <1>10. Numbered'
    <2>1. \A e \in {shown, sync.doc, auth.envelope} :
            e.vault \in Nat /\ e.vault <= vaults /\ e.edit <= edits
      BY DEF IInv, TypeOK, Numbered, Envelope
    <2>2. \A e \in {shown', sync'.doc, auth'.envelope} :
            e.vault <= vaults' /\ e.edit <= edits'
      BY <1>1, <1>2, <1>4, <1>5, <2>1
    <2>3. \A t \in DOMAIN session' : session'[t].vault <= vaults'
      <3>1. \A t \in DOMAIN session :
              session[t].vault \in Nat /\ session[t].vault <= vaults
        BY SessionTyped DEF IInv, Numbered, Session
      <3> QED
        BY <1>1, <1>3, <1>4, <3>1
    <2> QED
      BY <1>1, <1>4, <1>5, <1>6, <1>7, <2>2, <2>3 DEF Numbered
  <1>11. OneSession' /\ SealsHaveKey'
    BY <1>1, <1>2, <1>3, <1>4, <1>6, <1>8 DEF IInv, OneSession, SealsHaveKey
  <1>12. OneWrite'
    <2>1. /\ save # 0 => current \in DOMAIN session
          /\ stored.edit \in Nat
      BY DEF IInv, TypeOK, OneWrite, Envelope
    <2> QED
      BY <1>1, <1>3, <1>4, <1>7, <2>1 DEF IInv, OneWrite
  <1>13. NoneNewer'
    <2>1. \A e \in {shown, sync.doc, auth.envelope} :
            e.vault \in Nat /\ e.vault <= vaults
      BY DEF IInv, TypeOK, Numbered, Envelope
    <2> QED
      BY <1>1, <1>2, <1>4, <1>5, <1>7, <2>1 DEF NoneNewer
  <1>14. WantedKept' /\ Fresh'
    BY <1>4, <1>5, <1>6, <1>7 DEF WantedKept, Fresh
  <1> QED
    BY <1>9, <1>10, <1>11, <1>12, <1>13, <1>14 DEF IInv

LEMMA ImportDoneKeeps == ASSUME IInv, ImportDone PROVE IInv'
  <1>1. /\ import.stage = "closing" /\ Drained(current)
        /\ session' = Destroyed(current)
        /\ current' = 0 /\ shown' = NoVault /\ status' = "locked"
        /\ import' = NoImport
        /\ UNCHANGED <<stored, save, sync, auth, epoch, lock, edits, vaults, history>>
    BY DEF ImportDone
  <1>2. /\ current \in DOMAIN session /\ current # 0
        /\ history.imported # 0 /\ ~auth.on
    BY <1>1 DEF IInv, TypeOK, OneSession
  <1>3. \A t \in DOMAIN session : session[t].writes = <<>>
    BY <1>1, Pending DEF Drained
  <1>4. save = 0
    <2>1. session[current].writes = <<>> /\ <<save>> # <<>>
      BY <1>2, <1>3
    <2> QED
      BY <2>1 DEF IInv, OneWrite
  <1>5. /\ session' \in Seq(Session) /\ DOMAIN session' = DOMAIN session
        /\ \A t \in DOMAIN session :
             /\ session'[t].state = "destroyed"
             /\ session'[t].vault = session[t].vault
             /\ session'[t].writes = <<>>
    <2> DEFINE q == InState(current, "destroyed")
    <2>1. session' = q
      BY <1>1, <1>2 DEF Destroyed, InState
    <2>2. TypeOK
      BY DEF IInv
    <2>3. /\ q \in Seq(Session) /\ DOMAIN q = DOMAIN session
          /\ \A t \in DOMAIN session :
               /\ q[t].state = IF t = current THEN "destroyed" ELSE session[t].state
               /\ q[t].vault = session[t].vault
               /\ q[t].writes = session[t].writes
      BY <1>2, <2>2, StateSet
    <2> HIDE DEF q
    <2> QED
      BY <1>3, <2>1, <2>3 DEF IInv, OneSession
  <1>6. NoVault \in Envelope /\ NoVault.vault = 0 /\ NoVault.edit = 0
    BY DEF NoVault, Envelope
  <1>7. TypeOK'
    <2>1. import' \in [stage : {"none", "reading", "confirm", "closing"},
                       existing : BOOLEAN] /\ import'.stage # "closing"
      BY <1>1 DEF NoImport
    <2> QED
      BY <1>1, <1>5, <1>6, <2>1 DEF IInv, TypeOK
  <1>8. Numbered' /\ NoneNewer'
    <2>1. edits \in Nat /\ vaults \in Nat /\ stored.edit \in Nat
      BY DEF IInv, TypeOK, Envelope
    <2> QED
      BY <1>1, <1>5, <1>6, <2>1 DEF IInv, Numbered, NoneNewer
  <1>9. OneSession' /\ SealsHaveKey'
    BY <1>1, <1>2, <1>5 DEF IInv, OneSession, SealsHaveKey, NoImport
  <1>10. OneWrite'
    BY <1>1, <1>4, <1>5 DEF IInv, OneWrite
  <1>11. WantedKept' /\ Fresh'
    BY <1>1, <1>2 DEF IInv, WantedKept, Fresh
  <1> QED
    BY <1>7, <1>8, <1>9, <1>10, <1>11 DEF IInv

LEMMA IInvNext == ASSUME IInv, [Next]_vars PROVE IInv'
  BY QuietKeeps, AuthenticateDoneKeeps, PersistKeeps, SyncSealsKeeps,
     SealDoneKeeps, SealFailsKeeps, RequestLockKeeps, LockDoneKeeps,
     ImportBackupKeeps, ImportDoneKeeps
  DEF Next, Settle

LEMMA Invariance == Spec => []IInv
  BY IInvInit, IInvNext, PTL DEF Spec

-----------------------------------------------------------------------------
(* What follows *)

\* Nothing is ever sealed with a destroyed key: whoever destroys a session waits
\* for its write chain (vault-adapter.ts close, vault-app.tsx lock).
THEOREM KeyOutlivesSeals == Spec => []SealsHaveKey
  <1>1. IInv => SealsHaveKey
    BY DEF IInv
  <1> QED
    BY <1>1, Invariance, PTL

\* As long as no backup was imported, the page shows a document of the stored
\* vault, and its session is of that vault.
SameVault ==
  history.imported = 0 /\ current # 0 =>
    session[current].vault = stored.vault /\ shown.vault = stored.vault

\* No step but an unlock changes which vault the session of the page is of.
LEMMA SessionsKeepVault ==
  ASSUME IInv, Next, ~AuthenticateDone
  PROVE  \A s \in DOMAIN session : session'[s].vault = session[s].vault
  <1>1. CASE Persist
    <2>1. current \in DOMAIN session /\ session[current].writes = <<>>
      <3>1. current \in DOMAIN session /\ save = 0 /\ ~sync.on
        BY <1>1 DEF Persist, IInv, TypeOK
      <3> QED
        BY <3>1, Pending
    <2> QED
      BY <1>1, <2>1, Queued DEF Persist
  <1>2. CASE SyncSeals
    <2>1. sync.session \in DOMAIN session
      BY <1>2 DEF SyncSeals, IInv, TypeOK, OneWrite
    <2> QED
      BY <1>2, <2>1, Queued DEF SyncSeals
  <1>3. ASSUME NEW s \in DOMAIN session, SealDone(s) \/ SealFails(s)
        PROVE  \A t \in DOMAIN session : session'[t].vault = session[t].vault
    BY <1>3, Unqueued DEF SealDone, SealFails
  <1>4. CASE RequestLock \/ ImportBackup
    <2>1. \/ session' = session
          \/ /\ current # 0
             /\ session' = [session EXCEPT ![current].state =
                              IF @ = "open" THEN "closing" ELSE @]
      BY <1>4 DEF RequestLock, ImportBackup
    <2> QED
      BY <2>1, Closes
  <1>5. CASE LockDone \/ ImportDone
    <2>1. \/ session' = session
          \/ \E s \in DOMAIN session : session' = InState(s, "destroyed")
      <3>1. /\ lock.session \in {0} \cup DOMAIN session
            /\ current \in {0} \cup DOMAIN session
        BY DEF IInv, TypeOK
      <3> QED
        BY <1>5, <3>1 DEF LockDone, ImportDone, Destroyed, InState
    <2> QED
      BY <2>1, StateSet DEF IInv
  <1>6. CASE session' = session
    BY <1>6
  <1> QED
    BY <1>1, <1>2, <1>3, <1>4, <1>5, <1>6
    DEF Next, Settle, Authenticate, AuthenticateFails, StartSync, EndSync,
        SyncFails, ChooseBackup, DropImport, AskToReplace

LEMMA SameVaultNext ==
  ASSUME IInv, SameVault, [Next]_vars
  PROVE  SameVault'
  <1>1. CASE AuthenticateDone
    <2>1. /\ auth.on /\ current = 0 /\ history' = history
          /\ session' = Append(session,
               [state |-> IF Revoked THEN "destroyed" ELSE "open",
                vault |-> (IF auth.create THEN NewVault ELSE Unlocked).vault,
                writes |-> <<>>])
          /\ stored' = IF auth.create THEN NewVault ELSE stored
          /\ \/ current' = 0
             \/ /\ current' = Len(session) + 1
                /\ shown' = IF auth.create THEN NewVault ELSE Unlocked
      BY <1>1 DEF AuthenticateDone, IInv, OneSession
    <2>2. history.imported = 0 /\ ~auth.create => Unlocked = stored
      BY <2>1 DEF IInv, Fresh, Unlocked
    <2>3. session'[Len(session) + 1].vault =
            (IF auth.create THEN NewVault ELSE Unlocked).vault
      BY <2>1, AppendProperties DEF IInv, TypeOK
    <2> QED
      BY <2>1, <2>2, <2>3 DEF SameVault
  <1>2. CASE LockDone \/ ImportDone
    BY <1>2 DEF LockDone, ImportDone, SameVault
  <1>3. CASE ImportBackup
    <2>1. history'.imported = vaults + 1 /\ vaults \in Nat
      BY <1>3 DEF ImportBackup, IInv, TypeOK
    <2> QED
      BY <2>1 DEF SameVault
  <1>4. ASSUME NEW s \in DOMAIN session, SealDone(s)
        PROVE  SameVault'
    <2>1. /\ s = current /\ s # 0 /\ UNCHANGED current
          /\ stored' = Seal(s, edits) /\ shown' \in {shown, stored'}
      BY <1>4, Pending, SealingEnds DEF SealDone
    <2>2. session'[s].vault = session[s].vault
      BY <1>4, Unqueued DEF SealDone
    <2>3. history'.imported = history.imported
      <3>1. history' \in {history, [history EXCEPT !.stale = FALSE]}
        BY <1>4, SealingEnds DEF SealDone
      <3>2. history \in [wanted : Envelope, imported : Nat, stale : BOOLEAN]
        BY DEF IInv, TypeOK
      <3> QED
        BY <3>1, <3>2
    <2> QED
      BY <2>1, <2>2, <2>3 DEF SameVault, Seal
  <1>5. CASE EndSync
    <2>1. /\ sync.on /\ shown' = sync.doc
          /\ history'.imported = history.imported
          /\ UNCHANGED <<stored, session, current>>
      BY <1>5 DEF EndSync, IInv, TypeOK
    <2>2. history.imported = 0 => sync.doc \in {stored, shown}
      BY <2>1 DEF IInv, Fresh
    <2> QED
      BY <2>1, <2>2 DEF SameVault
  <1>6. CASE /\ Next /\ ~AuthenticateDone /\ ~LockDone /\ ~ImportDone
             /\ ~ImportBackup /\ ~EndSync
             /\ \A s \in DOMAIN session : ~SealDone(s)
    <2>1. /\ UNCHANGED <<stored, current, shown>>
          /\ history'.imported = history.imported
      <3>1. history \in [wanted : Envelope, imported : Nat, stale : BOOLEAN]
        BY DEF IInv, TypeOK
      <3>2. ASSUME NEW s \in DOMAIN session, SealFails(s)
            PROVE  /\ UNCHANGED <<stored, current, shown>>
                   /\ history'.imported = history.imported
        <4>1. history' \in {history, [history EXCEPT !.wanted = shown]}
          BY <3>2, SealingEnds DEF SealFails
        <4>2. UNCHANGED <<stored, current, shown>>
          BY <3>2, SealingEnds DEF SealFails
        <4> QED
          BY <3>1, <4>1, <4>2
      <3>3. CASE Persist \/ SyncFails
        BY <3>1, <3>3 DEF Persist, SyncFails
      <3> QED
        BY <1>6, <3>2, <3>3
        DEF Next, Settle, Authenticate, AuthenticateFails, StartSync, SyncSeals,
            RequestLock, ChooseBackup, DropImport, AskToReplace
    <2>2. current # 0 => session'[current].vault = session[current].vault
      BY <1>6, SessionsKeepVault DEF IInv, TypeOK
    <2> QED
      BY <2>1, <2>2 DEF SameVault
  <1>7. CASE UNCHANGED vars
    BY <1>7 DEF vars, SameVault
  <1> QED
    BY <1>1, <1>2, <1>3, <1>4, <1>5, <1>6, <1>7

\* Whatever saves, locks and unlocks failed before, a page with nothing under way
\* shows the stored document.  Two things are set apart, as ShownIsStored says: a
\* sync that failed after sealing leaves an older document of the same vault on
\* the page, and nothing is said of a page that a backup was imported behind.
THEOREM PageShowsStored == Spec => []ShownIsStored
  <1>1. Init => SameVault
    BY DEF Init, SameVault
  <1>2. IInv /\ SameVault => ShownIsStored
    BY DEF IInv, OneSession, NoneNewer, Fresh, SameVault, ShownIsStored
  <1> QED
    BY <1>1, <1>2, SameVaultNext, Invariance, PTL DEF Spec

\* Wherever a lock or an import finds an unlock, a creation or a save, no key is
\* left when the page is locked (vault-app.tsx authenticate, lock,
\* finishBackupImport).
THEOREM NoKeyLeft == Spec => []LockedHasNoKey
  <1>1. IInv => LockedHasNoKey
    BY SessionTyped DEF IInv, OneSession, LockedHasNoKey
  <1> QED
    BY <1>1, Invariance, PTL

\* A lock that ends without an error has stored the newest save of its session,
\* or there was none: the lock waits for the save it interrupted.
THEOREM LocksKeepSaves == Spec => LockKeepsSave
  <1>1. ASSUME IInv, [Next]_vars
        PROVE  [(lock.on /\ ~lock'.on /\ ~lock.failed
                   /\ history.wanted.vault = stored.vault)
                  => stored.edit >= history.wanted.edit]_vars
    <2>1. CASE LockDone
      BY <1>1, <2>1 DEF LockDone, Settled, IInv, OneWrite, WantedKept
    <2>2. ASSUME NEW s \in DOMAIN session, SealDone(s) \/ SealFails(s)
          PROVE  lock'.on = lock.on
      BY <1>1, <2>2, SealingEnds DEF SealDone, SealFails
    <2>3. CASE /\ ~LockDone
               /\ \A s \in DOMAIN session : ~(SealDone(s) \/ SealFails(s))
      <3>1. lock.on => lock'.on
        BY <1>1, <2>3
        DEF Next, Settle, Authenticate, AuthenticateFails, AuthenticateDone,
            Persist, StartSync, SyncSeals, RequestLock, ChooseBackup, DropImport,
            AskToReplace, ImportBackup, EndSync, SyncFails, ImportDone, vars
      <3> QED
        BY <3>1
    <2> QED
      BY <2>1, <2>2, <2>3
  <1> QED
    BY <1>1, Invariance, PTL DEF Spec, LockKeepsSave
=============================================================================
