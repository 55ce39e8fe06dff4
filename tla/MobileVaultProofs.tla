--------------------------- MODULE MobileVaultProofs ---------------------------
(***************************************************************************)
(* Proofs about MobileVault and its JournalStore, for any number of edits, *)
(* sessions, snapshots and restarts.                                       *)
(*                                                                         *)
(* What is durable rests on the numbers: a write takes one above all that  *)
(* its process has seen, so what it publishes is the newest snapshot, or   *)
(* somebody else's is, who wrote later.  What is shown rests on the        *)
(* controller: it caches the newest snapshot, and a lock drops the session *)
(* together with the document that an operation was going to show.         *)
(***************************************************************************)
EXTENDS MobileVault, SequenceTheorems, TLAPS

(* The inductive invariant *)

\* The snapshots have a highest number.
HasLatest ==
  DOMAIN files # {} => \E n \in DOMAIN files : \A m \in DOMAIN files : m <= n

\* The envelope that is being written, queued or on its move.
InWrite(e) ==
  \/ queue = <<e>> /\ moving = <<>>
  \/ queue = <<>> /\ moving = <<[number |-> sequence, envelope |-> e]>>

Writes == op.kind \in {"create", "mutate"}

\* The journal knows the snapshot it follows, and takes numbers above it.
JournalFollows ==
  /\ published <= sequence
  /\ moving # <<>> => published < sequence
  /\ initialized <=> ready = "ready"
  /\ initialized =>
       \/ published = 0 /\ vaultId = NoId
       \/ published \in DOMAIN files /\ vaultId = files[published].vault

\* A move publishes the newest snapshot, or somebody else did meanwhile.
MoveIsNewest ==
  moving # <<>> =>
    \/ Latest < sequence
    \/ history.other /\ Latest # 0 /\ files[Latest].edit >= moving[1].envelope.edit

\* As long as nobody else wrote, the move is of the vault of the journal.
MoveIsAllowed ==
  moving # <<>> => vaultId \in {NoId, moving[1].envelope.vault}

\* A write has its operation, and carries the newest document.
WriteHasOp ==
  /\ ~Writes => queue = <<>> /\ moving = <<>>
  /\ Writes => \E e \in Envelope :
       /\ InWrite(e)
       /\ history.told <= e.edit /\ e.edit <= edits
       /\ op.kind = "mutate" /\ op.doc # 0 => e.edit = op.doc

\* A document no newer than the newest snapshot.
InJournal(d) == d # 0 => Latest # 0 /\ files[Latest].edit >= d

Durable == InJournal(history.told) /\ InJournal(envelope.edit)

\* Documents are numbered as they are made.
Numbered ==
  envelope.edit <= edits /\ \A n \in DOMAIN files : files[n].edit <= edits

\* As long as nobody else wrote, the controller caches the newest snapshot.
CacheIsLatest ==
  ready = "ready" /\ ~history.other =>
    /\ published = Latest
    /\ envelope = IF Latest = 0 THEN NoEnvelope ELSE files[Latest]

\* A session is open in the foreground and shows the cached envelope; an
\* operation that was revoked left it closed.
SessionShows ==
  /\ current # 0 =>
       /\ active /\ ready = "ready" /\ envelope # NoEnvelope
       /\ shown = envelope.edit
       /\ ~op.revoked
       /\ op.kind \in {"none", "mutate"}
       /\ op.kind = "mutate" => op.doc # 0
  /\ Busy => ready = "ready"
  /\ op.kind = "yield" /\ ~op.create => envelope # NoEnvelope

\* A dialog is fresh as long as its session and its document are current.
PromptIsCurrent ==
  prompt.open /\ prompt.fresh => current = prompt.session /\ shown = prompt.doc

MInv ==
  /\ MobileTypeOK /\ HasLatest
  /\ JournalFollows /\ MoveIsNewest /\ MoveIsAllowed /\ WriteHasOp
  /\ Durable /\ Numbered /\ OneVault
  /\ CacheIsLatest /\ SessionShows /\ PromptIsCurrent

-----------------------------------------------------------------------------

(* The snapshots *)

LEMMA Envelopes ==
  /\ MaxEdits \in Nat /\ MaxSessions \in Nat /\ MaxSequence \in Nat /\ MaxEntries \in Nat
  /\ \A e \in Envelope : e.vault \in Nat /\ e.vault # NoId
                           /\ e.edit \in Nat /\ e.edit # 0 /\ e.edit <= MaxEdits
  /\ \A n \in 1..MaxEdits :
       /\ [vault |-> n, edit |-> n] \in Envelope
       /\ \A v \in {1, 2} : [vault |-> v, edit |-> n] \in Envelope
       /\ \A e \in Envelope : [e EXCEPT !.edit = n] \in Envelope
                                /\ [e EXCEPT !.edit = n].edit = n
  /\ NoEnvelope.edit = 0 /\ NoEnvelope \notin Envelope
  BY JournalAssumption, MobileAssumption
  DEF JournalAssumption, MobileAssumption, NoId, NoEnvelope

LEMMA GreatestIsLatest ==
  ASSUME NEW f, NEW n \in DOMAIN f, DOMAIN f \subseteq Nat, \A m \in DOMAIN f : m <= n
  PROVE  LatestOf(f) = n
  <1> DEFINE P(k) == \A m \in DOMAIN f : m <= k
             c == CHOOSE k \in DOMAIN f : P(k)
  <1>1. c \in DOMAIN f /\ P(c)
    <2>1. \E k \in DOMAIN f : P(k)
      OBVIOUS
    <2> HIDE DEF P
    <2> QED
      BY <2>1
  <1>2. LatestOf(f) = c
    BY DEF LatestOf
  <1> HIDE DEF c
  <1>3. c \in Nat /\ n \in Nat /\ c <= n /\ n <= c
    BY <1>1
  <1> QED
    BY <1>2, <1>3

LEMMA LatestFacts ==
  ASSUME JournalTypeOK, HasLatest
  PROVE  /\ Latest \in 0..MaxSequence
         /\ Latest = 0 <=> DOMAIN files = {}
         /\ Latest # 0 => Latest \in DOMAIN files /\ files[Latest] \in Envelope
         /\ \A m \in DOMAIN files : m <= Latest /\ m # 0 /\ m \in 1..MaxSequence
  <1>1. DOMAIN files \subseteq 1..MaxSequence /\ MaxSequence \in Nat
    BY Envelopes DEF JournalTypeOK
  <1>2. CASE DOMAIN files = {}
    BY <1>1, <1>2 DEF Latest, LatestOf
  <1>3. CASE DOMAIN files # {}
    <2>1. PICK n \in DOMAIN files : \A m \in DOMAIN files : m <= n
      BY <1>3 DEF HasLatest
    <2>2. Latest = n
      BY <1>1, <2>1, GreatestIsLatest DEF Latest
    <2> QED
      BY <1>1, <1>3, <2>1, <2>2 DEF JournalTypeOK
  <1> QED
    BY <1>2, <1>3

\* One more snapshot.
LEMMA FileAdded ==
  ASSUME JournalTypeOK, HasLatest, NEW n \in 1..MaxSequence, n \notin DOMAIN files,
         NEW e \in Envelope,
         files' = [k \in DOMAIN files \cup {n} |-> IF k = n THEN e ELSE files[k]]
  PROVE  /\ DOMAIN files' = DOMAIN files \cup {n}
         /\ DOMAIN files' \subseteq 1..MaxSequence
         /\ \A k \in DOMAIN files' : files'[k] \in Envelope
         /\ \A k \in DOMAIN files : files'[k] = files[k]
         /\ files'[n] = e
         /\ HasLatest'
         /\ Latest' = IF Latest < n THEN n ELSE Latest
         /\ Latest' # 0
  <1>1. /\ DOMAIN files' = DOMAIN files \cup {n}
        /\ \A k \in DOMAIN files : files'[k] = files[k]
        /\ files'[n] = e
    OBVIOUS
  <1>2. /\ DOMAIN files' \subseteq 1..MaxSequence
        /\ \A k \in DOMAIN files' : files'[k] \in Envelope
        /\ MaxSequence \in Nat
    BY <1>1, Envelopes DEF JournalTypeOK
  <1> DEFINE g == IF Latest < n THEN n ELSE Latest
  <1>3. g \in DOMAIN files' /\ (\A m \in DOMAIN files' : m <= g) /\ g # 0
    BY <1>1, <1>2, LatestFacts
  <1> HIDE DEF g
  <1>4. HasLatest'
    BY <1>3 DEF HasLatest
  <1>5. LatestOf(files') = g
    BY <1>2, <1>3, GreatestIsLatest
  <1>6. Latest' = g
    BY <1>5 DEF Latest
  <1> QED
    BY <1>1, <1>2, <1>3, <1>4, <1>6 DEF g

\* The write under way.
LEMMA WriteFacts ==
  ASSUME MInv
  PROVE  /\ ~Writes => queue = <<>> /\ moving = <<>>
         /\ Len(moving) <= 1 /\ sequence \in 0..MaxSequence
         /\ queue # <<>> => Writes /\ moving = <<>> /\ Head(queue) \in Envelope
                              /\ queue = <<Head(queue)>>
         /\ moving # <<>> => Writes /\ queue = <<>> /\ moving[1].number = sequence
                              /\ moving[1].envelope \in Envelope
                              /\ moving = <<[number |-> sequence,
                                             envelope |-> moving[1].envelope]>>
  <1>1. /\ Len(moving) <= 1 /\ sequence \in 0..MaxSequence
        /\ ~Writes => queue = <<>> /\ moving = <<>>
    BY DEF MInv, MobileTypeOK, JournalTypeOK, WriteHasOp
  <1>2. CASE Writes
    <2>1. PICK e \in Envelope : InWrite(e)
      BY <1>2 DEF MInv, WriteHasOp
    <2>2. CASE queue = <<e>> /\ moving = <<>>
      BY <1>1, <1>2, <2>2
    <2>3. CASE queue = <<>> /\ moving = <<[number |-> sequence, envelope |-> e]>>
      <3>1. /\ moving # <<>> /\ moving[1].number = sequence /\ moving[1].envelope = e
        BY <2>3
      <3> QED
        BY <1>1, <1>2, <2>3, <3>1
    <2> QED
      BY <2>1, <2>2, <2>3 DEF InWrite
  <1> QED
    BY <1>1, <1>2

-----------------------------------------------------------------------------
(* Its steps *)

LEMMA MInvInit == ASSUME Init PROVE MInv
  <1>1. /\ files = <<>> /\ DOMAIN files = {} /\ pending = {}
        /\ sequence = 0 /\ published = 0 /\ vaultId = NoId /\ initialized = FALSE
        /\ queue = <<>> /\ moving = <<>> /\ Len(moving) = 0
    BY DEF Init, JournalInit
  <1>2. /\ ready = "loading" /\ envelope = NoEnvelope /\ envelope.edit = 0
        /\ current = 0 /\ shown = 0 /\ owned = {}
        /\ op = NoOp /\ op.kind = "none" /\ prompt = NoPrompt /\ ~prompt.open
        /\ sessions = 0 /\ edits = 0 /\ active \in BOOLEAN
        /\ history = [told |-> 0, unseen |-> 0, other |-> FALSE]
        /\ history.told = 0
    BY DEF Init, NoEnvelope, NoOp, NoPrompt
  <1>3. MobileTypeOK
    <2>1. JournalTypeOK
      <3>1. initialized \in BOOLEAN /\ vaultId \in {NoId} \cup {e.vault : e \in Envelope}
        BY <1>1
      <3> QED
        BY <1>1, <3>1, Envelopes DEF JournalTypeOK
    <2>2. /\ op \in [kind : {"none", "yield", "create", "mutate"}, create : BOOLEAN,
                     revoked : BOOLEAN, session : 0..sessions, doc : 0..edits]
          /\ prompt \in [open : BOOLEAN, fresh : BOOLEAN, session : 0..sessions,
                         doc : 0..edits]
      BY <1>2 DEF NoOp, NoPrompt
    <2> QED
      BY <1>2, <2>1, <2>2, Envelopes DEF MobileTypeOK
  <1>4. HasLatest /\ OneVault
    BY <1>1 DEF HasLatest, OneVault
  <1>5. JournalFollows /\ MoveIsNewest /\ MoveIsAllowed /\ WriteHasOp
    BY <1>1, <1>2 DEF JournalFollows, MoveIsNewest, MoveIsAllowed, WriteHasOp, Writes
  <1>6. Durable /\ Numbered
    BY <1>1, <1>2 DEF Durable, InJournal, Numbered
  <1>7. CacheIsLatest /\ SessionShows /\ PromptIsCurrent
    BY <1>2 DEF CacheIsLatest, SessionShows, PromptIsCurrent, Busy
  <1> QED
    BY <1>3, <1>4, <1>5, <1>6, <1>7 DEF MInv

OpRecord == [kind : {"none", "yield", "create", "mutate"}, create : BOOLEAN,
             revoked : BOOLEAN, session : 0..sessions, doc : 0..edits]
PromptRecord == [open : BOOLEAN, fresh : BOOLEAN, session : 0..sessions, doc : 0..edits]

LEMMA Typed ==
  ASSUME MInv
  PROVE  /\ JournalTypeOK /\ HasLatest
         /\ op \in OpRecord /\ prompt \in PromptRecord
         /\ envelope \in Envelope \cup {NoEnvelope}
         /\ envelope.edit \in Nat /\ envelope.edit <= edits
         /\ edits \in 0..MaxEdits /\ sessions \in 0..MaxSessions
         /\ history \in [told : 0..edits, unseen : 0..MaxEdits, other : BOOLEAN]
  BY Envelopes DEF MInv, MobileTypeOK, OpRecord, PromptRecord, Numbered

\* An update of the dialog, and a lock.
LEMMA UpdatedFacts ==
  ASSUME MInv, Updated
  PROVE  prompt' \in PromptRecord /\ ~(prompt'.open /\ prompt'.fresh)
  BY Typed DEF Updated, PromptRecord

LEMMA LockFacts ==
  ASSUME MInv, Lock
  PROVE  /\ current' = 0 /\ shown' = 0 /\ owned' = {}
         /\ op' \in OpRecord /\ op'.kind = op.kind /\ op'.create = op.create
         /\ op'.doc \in {0, op.doc}
         /\ prompt' \in PromptRecord /\ ~(prompt'.open /\ prompt'.fresh)
  <1>1. op \in OpRecord /\ edits \in 0..MaxEdits
    BY Typed
  <1>2. /\ op' = op \/ op' = [op EXCEPT !.revoked = TRUE, !.doc = 0]
        /\ current' = 0 /\ shown' = 0 /\ owned' = {} /\ Updated
    BY DEF Lock
  <1>3. /\ op' \in OpRecord /\ op'.kind = op.kind /\ op'.create = op.create
        /\ op'.doc \in {0, op.doc}
    <2>1. CASE op' = op
      BY <1>1, <2>1
    <2>2. CASE op' = [op EXCEPT !.revoked = TRUE, !.doc = 0]
      <3>1. 0 \in 0..edits /\ TRUE \in BOOLEAN
        BY <1>1, Envelopes
      <3> DEFINE Doc == 0..edits
      <3>2. op \in [kind : {"none", "yield", "create", "mutate"}, create : BOOLEAN,
                    revoked : BOOLEAN, session : 0..sessions, doc : Doc]
        BY <1>1 DEF OpRecord
      <3>3. 0 \in Doc
        BY <3>1
      <3> HIDE DEF Doc
      <3>4. /\ op' \in [kind : {"none", "yield", "create", "mutate"}, create : BOOLEAN,
                         revoked : BOOLEAN, session : 0..sessions, doc : Doc]
            /\ op'.kind = op.kind /\ op'.create = op.create /\ op'.doc = 0
        BY <2>2, <3>2, <3>3
      <3> QED
        BY <3>4 DEF OpRecord, Doc
    <2> QED
      BY <1>2, <2>1, <2>2
  <1> QED
    BY <1>2, <1>3, UpdatedFacts

\* What a step that leaves the journal alone has to keep.
LEMMA JournalKept ==
  ASSUME MInv, UNCHANGED <<journal, edits, ready, envelope>>,
         history'.other = history.other, history'.unseen = history.unseen,
         history'.told \in {history.told, envelope.edit},
         history' \in [told : 0..edits, unseen : 0..MaxEdits, other : BOOLEAN],
         \/ Writes' /\ Writes /\ op'.kind = op.kind /\ op'.doc \in {0, op.doc}
              /\ history'.told = history.told
         \/ ~Writes' /\ ~Writes
  PROVE  /\ HasLatest' /\ JournalTypeOK'
         /\ JournalFollows' /\ MoveIsNewest' /\ MoveIsAllowed' /\ WriteHasOp'
         /\ Durable' /\ Numbered' /\ OneVault' /\ CacheIsLatest'
  <1>1. /\ UNCHANGED <<files, pending, sequence, published, vaultId, initialized, queue,
                       moving>>
        /\ Latest' = Latest
    BY DEF journal, directory, process, Latest
  <1>2. HasLatest' /\ JournalTypeOK' /\ OneVault'
    BY <1>1 DEF MInv, MobileTypeOK, HasLatest, JournalTypeOK, OneVault
  <1>3. JournalFollows' /\ MoveIsNewest' /\ MoveIsAllowed' /\ CacheIsLatest'
    BY <1>1 DEF MInv, JournalFollows, MoveIsNewest, MoveIsAllowed, CacheIsLatest
  <1>4. WriteHasOp'
    <2>1. CASE ~Writes' /\ ~Writes
      BY <1>1, <2>1 DEF MInv, WriteHasOp
    <2>2. CASE Writes' /\ Writes
      <3>1. PICK e \in Envelope :
              /\ InWrite(e)
              /\ history.told <= e.edit /\ e.edit <= edits
              /\ op.kind = "mutate" /\ op.doc # 0 => e.edit = op.doc
        BY <2>2 DEF MInv, WriteHasOp
      <3>2. InWrite(e)'
        BY <1>1, <3>1 DEF InWrite
      <3> QED
        BY <2>2, <3>1, <3>2 DEF WriteHasOp
    <2> QED
      BY <2>1, <2>2
  <1>5. Durable' /\ Numbered'
    BY <1>1 DEF MInv, Durable, InJournal, Numbered
  <1> QED
    BY <1>2, <1>3, <1>4, <1>5

\* Locks, dialogs and whatever else writes nothing.
LEMMA LocksKeep ==
  ASSUME MInv, LockVault \/ Background
  PROVE  MInv'
  <1>1. /\ Lock /\ UNCHANGED <<journal, ready, envelope, sessions, edits, history>>
        /\ active' \in BOOLEAN
    BY DEF LockVault, Background, MInv, MobileTypeOK
  <1>2. /\ current' = 0 /\ shown' = 0 /\ owned' = {}
        /\ op' \in OpRecord /\ op'.kind = op.kind /\ op'.create = op.create
        /\ op'.doc \in {0, op.doc}
        /\ prompt' \in PromptRecord /\ ~(prompt'.open /\ prompt'.fresh)
    BY <1>1, LockFacts
  <1>3. /\ HasLatest' /\ JournalTypeOK'
        /\ JournalFollows' /\ MoveIsNewest' /\ MoveIsAllowed' /\ WriteHasOp'
        /\ Durable' /\ Numbered' /\ OneVault' /\ CacheIsLatest'
    BY <1>1, <1>2, Typed, JournalKept DEF Writes
  <1>4. MobileTypeOK'
    BY <1>1, <1>2, <1>3 DEF MInv, MobileTypeOK, OpRecord, PromptRecord
  <1>5. SessionShows' /\ PromptIsCurrent'
    BY <1>1, <1>2 DEF MInv, SessionShows, PromptIsCurrent, Busy
  <1> QED
    BY <1>3, <1>4, <1>5 DEF MInv

LEMMA OperationsKeep ==
  ASSUME MInv,
         \/ Foreground \/ Authenticate \/ AuthenticateReturns \/ MutateRefused
         \/ AskRemoval \/ DropRemoval \/ UNCHANGED vars
  PROVE  MInv'
  <1>1. UNCHANGED <<journal, ready, envelope, current, shown, owned, sessions, edits,
                    history>>
    BY DEF Foreground, Authenticate, AuthenticateReturns, MutateRefused, AskRemoval,
           DropRemoval, vars, controller
  <1>2. /\ active' \in BOOLEAN /\ (active => active')
        /\ \/ op' = op
           \/ /\ op'.kind = "none" \/ (op'.kind = "yield" /\ (op'.create = ~HasVault)
                                         /\ current = 0 /\ ready = "ready")
              /\ ~op'.revoked
              /\ op.kind \in {"none", "yield"}
        /\ op' \in OpRecord
    <2>1. CASE Foreground \/ MutateRefused \/ AskRemoval \/ DropRemoval \/ UNCHANGED vars
      BY <2>1, Typed
      DEF Foreground, MutateRefused, AskRemoval, DropRemoval, vars, controller, MInv,
          MobileTypeOK
    <2>2. CASE Authenticate
      <3> DEFINE b == ~HasVault
      <3>1. /\ op' = [NoOp EXCEPT !.kind = "yield", !.create = b]
            /\ active' = active /\ ready = "ready" /\ current = 0 /\ op.kind = "none"
        BY <2>2 DEF Authenticate, Busy
      <3>2. b \in BOOLEAN
        OBVIOUS
      <3> HIDE DEF b
      <3>3. op' = [kind |-> "yield", create |-> b, revoked |-> FALSE,
                   session |-> 0, doc |-> 0]
        BY <3>1 DEF NoOp
      <3>4. 0 \in 0..sessions /\ 0 \in 0..edits
        BY Typed, Envelopes
      <3>5. /\ op'.kind = "yield" /\ op'.create = b /\ op'.revoked = FALSE
            /\ op' \in OpRecord
        BY <3>2, <3>3, <3>4 DEF OpRecord
      <3> QED
        BY <3>1, <3>5 DEF b, MInv, MobileTypeOK
    <2>3. CASE AuthenticateReturns
      <3>1. op' = NoOp /\ active' = active /\ op.kind = "yield"
        BY <2>3 DEF AuthenticateReturns
      <3>2. op'.kind = "none" /\ op'.revoked = FALSE /\ op' \in OpRecord
        BY <3>1, Typed DEF NoOp, OpRecord
      <3> QED
        BY <3>1, <3>2 DEF MInv, MobileTypeOK
    <2> QED
      BY <2>1, <2>2, <2>3
  <1>3. prompt' \in PromptRecord /\ PromptIsCurrent'
    <2>1. CASE Updated
      BY <2>1, UpdatedFacts DEF PromptIsCurrent
    <2>2. CASE AskRemoval
      BY <1>1, <2>2, Typed
      DEF AskRemoval, PromptRecord, PromptIsCurrent, MInv, MobileTypeOK
    <2>3. CASE DropRemoval
      BY <2>3, Typed DEF DropRemoval, NoPrompt, PromptRecord, PromptIsCurrent
    <2>4. CASE prompt' = prompt
      BY <1>1, <2>4, Typed DEF MInv, PromptIsCurrent, PromptRecord
    <2> QED
      BY <2>1, <2>2, <2>3, <2>4
      DEF Foreground, Authenticate, AuthenticateReturns, MutateRefused, vars, controller
  <1>4. /\ HasLatest' /\ JournalTypeOK'
        /\ JournalFollows' /\ MoveIsNewest' /\ MoveIsAllowed' /\ WriteHasOp'
        /\ Durable' /\ Numbered' /\ OneVault' /\ CacheIsLatest'
    BY <1>1, <1>2, Typed, JournalKept DEF Writes
  <1>5. MobileTypeOK'
    BY <1>1, <1>2, <1>3, <1>4 DEF MInv, MobileTypeOK, OpRecord, PromptRecord
  <1>6. SessionShows'
    BY <1>1, <1>2 DEF MInv, SessionShows, Busy, HasVault
  <1> QED
    BY <1>3, <1>4, <1>5, <1>6 DEF MInv

LEMMA UnlockKeeps == ASSUME MInv, Unlock PROVE MInv'
  <1>1. /\ op.kind = "yield" /\ ~op.create /\ active
        /\ sessions < MaxSessions /\ sessions' = sessions + 1
        /\ owned' = owned \cup {sessions + 1}
        /\ current' = sessions + 1 /\ shown' = envelope.edit
        /\ op' = NoOp /\ Updated
        /\ history' = [history EXCEPT !.told = envelope.edit]
        /\ UNCHANGED <<journal, active, ready, envelope, edits>>
    BY DEF Unlock, Revoked, Opened
  <1>2. /\ edits \in Nat /\ sessions \in Nat /\ sessions' \in 0..MaxSessions
        /\ envelope.edit \in 0..edits
        /\ history \in [told : 0..edits, unseen : 0..MaxEdits, other : BOOLEAN]
    BY <1>1, Typed, Envelopes
  <1>3. /\ history' \in [told : 0..edits, unseen : 0..MaxEdits, other : BOOLEAN]
        /\ history'.told = envelope.edit /\ history'.other = history.other
        /\ history'.unseen = history.unseen
    BY <1>1, <1>2
  <1>4. op'.kind = "none" /\ op'.revoked = FALSE /\ op' \in OpRecord'
    BY <1>1, <1>2 DEF NoOp, OpRecord
  <1>5. prompt' \in PromptRecord' /\ ~(prompt'.open /\ prompt'.fresh)
    <2>1. prompt' \in PromptRecord /\ ~(prompt'.open /\ prompt'.fresh)
      BY <1>1, UpdatedFacts
    <2> QED
      BY <1>1, <1>2, <2>1 DEF PromptRecord
  <1>6. /\ HasLatest' /\ JournalTypeOK'
        /\ JournalFollows' /\ MoveIsNewest' /\ MoveIsAllowed' /\ WriteHasOp'
        /\ Durable' /\ Numbered' /\ OneVault' /\ CacheIsLatest'
    BY <1>1, <1>3, <1>4, JournalKept DEF Writes
  <1>7. MobileTypeOK'
    <2>1. /\ current' \in 0..sessions' /\ shown' \in 0..edits'
          /\ owned' \subseteq 1..sessions'
      BY <1>1, <1>2 DEF MInv, MobileTypeOK
    <2> QED
      BY <1>1, <1>2, <1>3, <1>4, <1>5, <1>6, <2>1
      DEF MInv, MobileTypeOK, OpRecord, PromptRecord
  <1>8. SessionShows' /\ PromptIsCurrent'
    BY <1>1, <1>4, <1>5 DEF MInv, SessionShows, PromptIsCurrent, Busy
  <1> QED
    BY <1>6, <1>7, <1>8 DEF MInv

-----------------------------------------------------------------------------
(* The journal is loaded *)

LEMMA LoadKeeps == ASSUME MInv, Initialize \/ InitializeFails PROVE MInv'
  <1>1. /\ ready = "loading" /\ Quiet /\ sequence' = Latest /\ published' = Latest
        /\ UNCHANGED <<files, pending, queue, moving>>
        /\ UNCHANGED <<active, current, shown, owned, op, sessions, edits>>
        /\ Updated /\ Latest' = Latest
    BY DEF Initialize, InitializeFails, Load, LoadFails, directory, Latest
  <1>2. /\ op.kind = "none" /\ ~Busy /\ ~Writes /\ current = 0 /\ ~initialized
        /\ op' = op /\ current' = 0
    BY <1>1 DEF MInv, SessionShows, JournalFollows, Busy, Writes
  <1>3. /\ HasLatest /\ JournalTypeOK
        /\ history \in [told : 0..edits, unseen : 0..MaxEdits, other : BOOLEAN]
        /\ Latest \in 0..MaxSequence
        /\ Latest = 0 <=> DOMAIN files = {}
        /\ Latest # 0 => Latest \in DOMAIN files /\ files[Latest] \in Envelope
    BY Typed, LatestFacts
  <1>4. /\ history' \in [told : 0..edits, unseen : 0..MaxEdits, other : BOOLEAN]
        /\ history'.told = history.told /\ history'.other = history.other
    <2>1. history' = history \/ history' = [history EXCEPT !.unseen = 0]
      BY DEF Initialize, InitializeFails
    <2>2. 0 \in 0..MaxEdits
      BY Envelopes
    <2> QED
      BY <1>3, <2>1, <2>2
  <1>5. prompt' \in PromptRecord /\ ~(prompt'.open /\ prompt'.fresh)
    BY <1>1, UpdatedFacts
  <1>6. \/ /\ ready' = "ready" /\ initialized' = TRUE
           /\ vaultId' = IF Latest = 0 THEN NoId ELSE files[Latest].vault
           /\ envelope' = IF Latest = 0 THEN NoEnvelope ELSE files[Latest]
        \/ /\ ready' = "failed" /\ initialized' = initialized
           /\ vaultId' = vaultId /\ envelope' = envelope
    BY DEF Initialize, InitializeFails, Load, LoadFails
  <1>7. /\ envelope' \in Envelope \cup {NoEnvelope}
        /\ vaultId' \in {NoId} \cup {e.vault : e \in Envelope}
        /\ initialized' \in BOOLEAN
    BY <1>3, <1>6 DEF MInv, MobileTypeOK, JournalTypeOK
  <1>8. MobileTypeOK'
    <2>1. JournalTypeOK'
      BY <1>1, <1>3, <1>7 DEF JournalTypeOK
    <2> QED
      BY <1>1, <1>4, <1>5, <1>6, <1>7, <2>1
      DEF MInv, MobileTypeOK, OpRecord, PromptRecord
  <1>9. HasLatest' /\ OneVault'
    BY <1>1, <1>4 DEF MInv, HasLatest, OneVault
  <1>10. JournalFollows' /\ MoveIsNewest' /\ MoveIsAllowed' /\ WriteHasOp'
    <2>1. queue' = <<>> /\ moving' = <<>> /\ ~Writes'
      BY <1>1, <1>2 DEF Quiet, Writes
    <2>2. JournalFollows'
      BY <1>1, <1>2, <1>3, <1>6, <2>1 DEF JournalFollows
    <2> QED
      BY <2>1, <2>2 DEF MoveIsNewest, MoveIsAllowed, WriteHasOp
  <1>11. Durable' /\ Numbered'
    <2>1. /\ envelope'.edit = 0 \/ envelope' = envelope
             \/ (Latest # 0 /\ envelope' = files[Latest])
          /\ Latest # 0 => files[Latest].edit \in Nat
      BY <1>3, <1>6, Envelopes
    <2>2. Durable /\ Numbered /\ edits \in Nat
      BY Typed, Envelopes DEF MInv
    <2>3. Durable'
      BY <1>1, <1>4, <2>1, <2>2 DEF Durable, InJournal
    <2>4. Numbered'
      BY <1>1, <1>3, <2>1, <2>2 DEF Numbered
    <2> QED
      BY <2>3, <2>4
  <1>12. CacheIsLatest' /\ SessionShows' /\ PromptIsCurrent'
    BY <1>1, <1>2, <1>5, <1>6 DEF CacheIsLatest, SessionShows, PromptIsCurrent, Busy
  <1> QED
    BY <1>8, <1>9, <1>10, <1>11, <1>12 DEF MInv

-----------------------------------------------------------------------------
(* A write is queued, begins, ends or fails *)

\* What a step keeps that touches neither the directory nor what was loaded from it.
LEMMA QueueKept ==
  ASSUME MInv, UNCHANGED <<files, ready, envelope, published, vaultId, initialized>>,
         edits <= edits', edits' \in Nat, history' = history,
         sequence <= sequence', sequence' \in 0..MaxSequence,
         moving' # <<>> => published < sequence'
  PROVE  /\ HasLatest' /\ JournalFollows' /\ Durable' /\ Numbered' /\ OneVault'
         /\ CacheIsLatest'
         /\ Latest' = Latest
  <1>1. Latest' = Latest
    BY DEF Latest
  <1>2. HasLatest' /\ Durable' /\ OneVault' /\ CacheIsLatest'
    BY <1>1 DEF MInv, HasLatest, Durable, InJournal, OneVault, CacheIsLatest
  <1>3. Numbered'
    <2>1. /\ edits \in Nat /\ envelope.edit \in Nat
          /\ \A n \in DOMAIN files : files[n].edit \in Nat
      BY Typed, Envelopes DEF JournalTypeOK
    <2> QED
      BY <2>1 DEF MInv, Numbered
  <1>4. JournalFollows'
    <2>1. published \in Nat /\ sequence \in Nat /\ sequence' \in Nat
      BY Typed, Envelopes DEF JournalTypeOK
    <2> QED
      BY <2>1 DEF MInv, JournalFollows
  <1> QED
    BY <1>1, <1>2, <1>3, <1>4

\* What is queued is an envelope of the next document.
LEMMA QueuedFacts ==
  ASSUME MInv, NEW e \in Envelope, Enqueue(e), e.edit = edits + 1, edits < MaxEdits,
         edits' = edits + 1, history' = history, ~Writes, Writes',
         op'.kind = "mutate" => op'.doc = edits + 1,
         UNCHANGED <<ready, envelope>>
  PROVE  /\ HasLatest' /\ JournalTypeOK' /\ edits' \in 0..MaxEdits
         /\ JournalFollows' /\ MoveIsNewest' /\ MoveIsAllowed' /\ WriteHasOp'
         /\ Durable' /\ Numbered' /\ OneVault' /\ CacheIsLatest'
         /\ history' \in [told : 0..edits', unseen : 0..MaxEdits, other : BOOLEAN]
  <1>1. /\ queue = <<>> /\ moving = <<>> /\ queue' = <<e>>
        /\ UNCHANGED <<files, pending, sequence, published, vaultId, initialized, moving>>
    BY WriteFacts DEF Enqueue, directory
  <1>2. /\ edits \in 0..MaxEdits /\ edits \in Nat /\ MaxEdits \in Nat
        /\ history \in [told : 0..edits, unseen : 0..MaxEdits, other : BOOLEAN]
        /\ JournalTypeOK
    BY Typed, Envelopes
  <1>3. edits' \in 0..MaxEdits /\ edits' \in Nat /\ edits <= edits'
    BY <1>2
  <1>4. sequence \in 0..MaxSequence /\ MaxSequence \in Nat
    BY <1>2, Envelopes DEF JournalTypeOK
  <1>5. /\ HasLatest' /\ JournalFollows' /\ Durable' /\ Numbered' /\ OneVault'
        /\ CacheIsLatest'
    BY <1>1, <1>3, <1>4, QueueKept
  <1>6. JournalTypeOK'
    BY <1>1, <1>2 DEF JournalTypeOK
  <1>7. WriteHasOp'
    <2>1. InWrite(e)'
      BY <1>1 DEF InWrite
    <2>2. history'.told <= e.edit /\ e.edit <= edits'
      BY <1>2
    <2>3. (op'.kind = "mutate" /\ op'.doc # 0) => e.edit = op'.doc
      OBVIOUS
    <2> QED
      BY <2>1, <2>2, <2>3 DEF WriteHasOp
  <1>8. MoveIsNewest' /\ MoveIsAllowed'
    BY <1>1 DEF MoveIsNewest, MoveIsAllowed
  <1>9. history' \in [told : 0..edits', unseen : 0..MaxEdits, other : BOOLEAN]
    <2> DEFINE D == 0..edits
               D1 == 0..edits'
    <2>1. D \subseteq D1 /\ history \in [told : D, unseen : 0..MaxEdits, other : BOOLEAN]
      BY <1>2, <1>3
    <2> HIDE DEF D, D1
    <2>2. history' \in [told : D1, unseen : 0..MaxEdits, other : BOOLEAN]
      BY <2>1
    <2> QED
      BY <2>2 DEF D1
  <1> QED
    BY <1>3, <1>5, <1>6, <1>7, <1>8, <1>9

LEMMA CreateKeeps == ASSUME MInv, Create PROVE MInv'
  <1>1. /\ op.kind = "yield" /\ op.create /\ active
        /\ sessions < MaxSessions /\ edits < MaxEdits
        /\ sessions' = sessions + 1 /\ edits' = edits + 1
        /\ owned' = owned \cup {sessions + 1}
        /\ op' = [op EXCEPT !.kind = "create", !.session = sessions + 1]
        /\ Enqueue([vault |-> edits + 1, edit |-> edits + 1])
        /\ UNCHANGED <<active, ready, envelope, current, shown, prompt, history>>
    BY DEF Create, Revoked, NewVault
  <1>2. /\ edits \in Nat /\ sessions \in Nat /\ edits + 1 \in 1..MaxEdits
        /\ sessions' \in 0..MaxSessions
        /\ op \in OpRecord /\ prompt \in PromptRecord
    BY <1>1, Typed, Envelopes
  <1> DEFINE e == [vault |-> edits + 1, edit |-> edits + 1]
  <1>3. e \in Envelope /\ e.edit = edits + 1 /\ Enqueue(e)
    BY <1>1, <1>2, Envelopes
  <1> HIDE DEF e
  <1>4. /\ op'.kind = "create" /\ op'.create = op.create /\ op'.revoked = op.revoked
        /\ op'.session = sessions + 1 /\ op'.doc = op.doc /\ op' \in OpRecord'
    <2> DEFINE S == 0..sessions'
               D == 0..edits
               D1 == 0..edits'
    <2>1. /\ D \subseteq D1 /\ sessions + 1 \in S
          /\ op \in [kind : {"none", "yield", "create", "mutate"}, create : BOOLEAN,
                     revoked : BOOLEAN, session : 0..sessions, doc : D]
      BY <1>1, <1>2 DEF OpRecord
    <2> HIDE DEF S, D, D1
    <2>2. /\ op' \in [kind : {"none", "yield", "create", "mutate"}, create : BOOLEAN,
                      revoked : BOOLEAN, session : S, doc : D1]
          /\ op'.kind = "create" /\ op'.create = op.create /\ op'.revoked = op.revoked
          /\ op'.session = sessions + 1 /\ op'.doc = op.doc
      BY <1>1, <2>1
    <2> QED
      BY <2>2 DEF OpRecord, S, D1
  <1>5. /\ HasLatest' /\ JournalTypeOK' /\ edits' \in 0..MaxEdits
        /\ JournalFollows' /\ MoveIsNewest' /\ MoveIsAllowed' /\ WriteHasOp'
        /\ Durable' /\ Numbered' /\ OneVault' /\ CacheIsLatest'
        /\ history' \in [told : 0..edits', unseen : 0..MaxEdits, other : BOOLEAN]
    <2>1. ~Writes /\ Writes'
      BY <1>1, <1>4 DEF Writes
    <2> QED
      BY <1>1, <1>3, <1>4, <2>1, QueuedFacts
  <1>6. current = 0 /\ ready = "ready"
    BY <1>1 DEF MInv, SessionShows, Busy
  <1>7. MobileTypeOK'
    <2>1. prompt' \in PromptRecord'
      <3> DEFINE S == 0..sessions
                 S1 == 0..sessions'
                 D == 0..edits
                 D1 == 0..edits'
      <3>1. /\ S \subseteq S1 /\ D \subseteq D1 /\ prompt' = prompt
            /\ prompt \in [open : BOOLEAN, fresh : BOOLEAN, session : S, doc : D]
        BY <1>1, <1>2 DEF PromptRecord
      <3> HIDE DEF S, S1, D, D1
      <3>2. prompt' \in [open : BOOLEAN, fresh : BOOLEAN, session : S1, doc : D1]
        BY <3>1
      <3> QED
        BY <3>2 DEF PromptRecord, S1, D1
    <2>2. /\ current' \in 0..sessions' /\ shown' \in 0..edits'
          /\ owned' \subseteq 1..sessions'
      BY <1>1, <1>2 DEF MInv, MobileTypeOK
    <2> QED
      BY <1>1, <1>2, <1>4, <1>5, <2>1, <2>2 DEF MInv, MobileTypeOK, OpRecord, PromptRecord
  <1>8. SessionShows' /\ PromptIsCurrent'
    BY <1>1, <1>4, <1>6 DEF MInv, SessionShows, PromptIsCurrent, Busy
  <1> QED
    BY <1>5, <1>7, <1>8 DEF MInv

LEMMA MutateKeeps == ASSUME MInv, Save \/ ConfirmRemoval PROVE MInv'
  <1>1. /\ active /\ current # 0 /\ envelope # NoEnvelope /\ op.kind = "none"
        /\ edits < MaxEdits /\ edits' = edits + 1
        /\ op' = [NoOp EXCEPT !.kind = "mutate", !.session = current, !.doc = edits + 1]
        /\ Enqueue([envelope EXCEPT !.edit = edits + 1])
        /\ UNCHANGED <<active, ready, envelope, current, shown, owned, sessions, history>>
    BY DEF Save, ConfirmRemoval, Mutate, Busy, HasVault, Sealed
  <1>2. /\ edits \in Nat /\ edits + 1 \in 1..MaxEdits
        /\ envelope \in Envelope /\ current \in 0..sessions
    BY <1>1, Typed, Envelopes DEF MInv, MobileTypeOK
  <1> DEFINE e == [envelope EXCEPT !.edit = edits + 1]
  <1>3. e \in Envelope /\ e.edit = edits + 1 /\ Enqueue(e)
    BY <1>1, <1>2, Envelopes
  <1> HIDE DEF e
  <1>4. /\ op'.kind = "mutate" /\ op'.revoked = FALSE /\ op'.doc = edits + 1
        /\ op' \in OpRecord'
    <2>1. op' = [kind |-> "mutate", create |-> FALSE, revoked |-> FALSE,
                 session |-> current, doc |-> edits + 1]
      BY <1>1 DEF NoOp
    <2>2. current \in 0..sessions' /\ edits + 1 \in 0..edits'
      BY <1>1, <1>2
    <2> QED
      BY <2>1, <2>2 DEF OpRecord
  <1>5. /\ HasLatest' /\ JournalTypeOK' /\ edits' \in 0..MaxEdits
        /\ JournalFollows' /\ MoveIsNewest' /\ MoveIsAllowed' /\ WriteHasOp'
        /\ Durable' /\ Numbered' /\ OneVault' /\ CacheIsLatest'
        /\ history' \in [told : 0..edits', unseen : 0..MaxEdits, other : BOOLEAN]
    <2>1. ~Writes /\ Writes'
      BY <1>1, <1>4 DEF Writes
    <2> QED
      BY <1>1, <1>3, <1>4, <2>1, QueuedFacts
  <1>6. prompt' \in PromptRecord' /\ ~(prompt'.open /\ prompt'.fresh)
    <2> DEFINE D == 0..edits
               D1 == 0..edits'
               S == 0..sessions
    <2>1. prompt \in PromptRecord /\ sessions' = sessions
      BY <1>1, Typed
    <2>2. CASE Updated
      <3>1. /\ D \subseteq D1 /\ prompt' = [prompt EXCEPT !.fresh = FALSE]
            /\ prompt \in [open : BOOLEAN, fresh : BOOLEAN, session : S, doc : D]
        BY <1>1, <1>2, <2>1, <2>2 DEF PromptRecord, Updated
      <3> HIDE DEF D, D1, S
      <3>2. prompt' \in [open : BOOLEAN, fresh : BOOLEAN, session : S, doc : D1]
            /\ prompt'.fresh = FALSE
        BY <3>1
      <3> QED
        BY <2>1, <3>2 DEF PromptRecord, S, D1
    <2>3. CASE ConfirmRemoval
      <3>1. 0 \in 0..sessions' /\ 0 \in 0..edits'
        BY <1>1, <1>2, <2>1, Typed, Envelopes
      <3> QED
        BY <2>3, <3>1 DEF ConfirmRemoval, NoPrompt, PromptRecord
    <2> QED
      BY <2>2, <2>3 DEF Save
  <1>7. MobileTypeOK'
    <2>1. shown' \in 0..edits'
      BY <1>1, <1>2 DEF MInv, MobileTypeOK
    <2> QED
      BY <1>1, <1>2, <1>4, <1>5, <1>6, <2>1 DEF MInv, MobileTypeOK, OpRecord, PromptRecord
  <1>8. SessionShows' /\ PromptIsCurrent'
    BY <1>1, <1>2, <1>4, <1>6 DEF MInv, SessionShows, PromptIsCurrent, Busy
  <1> QED
    BY <1>5, <1>7, <1>8 DEF MInv

\* The pending file is written and its move begins.
LEMMA WritingKeeps == ASSUME MInv, Writing PROVE MInv'
  <1> DEFINE e == Head(queue)
  <1>1. /\ queue # <<>> /\ moving = <<>> /\ MayWrite(e)
        /\ sequence' = sequence + 1 /\ pending' = pending \cup {sequence + 1}
        /\ moving' = <<[number |-> sequence + 1, envelope |-> e]>>
        /\ queue' = Tail(queue)
        /\ UNCHANGED <<files, published, vaultId, initialized>>
        /\ UNCHANGED <<controller, edits, history>>
    BY DEF Writing, WriteBegins
  <1>2. /\ initialized /\ Latest = published /\ vaultId \in {NoId, e.vault}
        /\ sequence < MaxSequence
    BY <1>1 DEF MayWrite
  <1>3. Writes /\ e \in Envelope /\ queue = <<e>>
    BY <1>1, WriteFacts
  <1> HIDE DEF e
  <1>4. UNCHANGED <<active, ready, envelope, current, shown, owned, op, prompt, sessions>>
    BY <1>1 DEF controller
  <1>5. /\ sequence \in 0..MaxSequence /\ MaxSequence \in Nat /\ published \in Nat
        /\ published <= sequence /\ sequence + 1 \in 1..MaxSequence
        /\ JournalTypeOK /\ edits \in Nat
    BY <1>2, Typed, Envelopes DEF MInv, JournalTypeOK, JournalFollows
  <1>6. /\ HasLatest' /\ JournalFollows' /\ Durable' /\ Numbered' /\ OneVault'
        /\ CacheIsLatest' /\ Latest' = Latest
    <2>1. /\ sequence <= sequence' /\ sequence' \in 0..MaxSequence /\ published < sequence'
          /\ edits <= edits' /\ edits' \in Nat
      BY <1>1, <1>5
    <2> QED
      BY <1>1, <1>4, <2>1, QueueKept
  <1> DEFINE m == [number |-> sequence + 1, envelope |-> e]
  <1>7. /\ m \in Move /\ m.number = sequence' /\ m.envelope = e /\ moving' = <<m>>
        /\ moving'[1] = m /\ moving' # <<>> /\ Len(moving') = 1 /\ moving' \in Seq(Move)
        /\ queue' = <<>>
    <2>1. m \in Move /\ m.number = sequence' /\ m.envelope = e
      BY <1>1, <1>3, <1>5 DEF Move
    <2>2. moving' = <<m>> /\ queue' = <<>>
      BY <1>1, <1>3
    <2> HIDE DEF m
    <2> QED
      BY <2>1, <2>2
  <1> HIDE DEF m
  <1>8. MobileTypeOK'
    <2>1. JournalTypeOK'
      BY <1>1, <1>5, <1>7 DEF JournalTypeOK
    <2> QED
      BY <1>1, <1>4, <2>1 DEF MInv, MobileTypeOK
  <1>9. MoveIsNewest' /\ MoveIsAllowed'
    BY <1>1, <1>2, <1>5, <1>6, <1>7 DEF MoveIsNewest, MoveIsAllowed
  <1>10. WriteHasOp'
    <2>1. PICK f \in Envelope :
            /\ InWrite(f)
            /\ history.told <= f.edit /\ f.edit <= edits
            /\ op.kind = "mutate" /\ op.doc # 0 => f.edit = op.doc
      BY <1>3 DEF MInv, WriteHasOp
    <2>2. f = e
      BY <1>1, <1>3, <2>1 DEF InWrite
    <2>3. InWrite(f)'
      <3>1. m = [number |-> sequence', envelope |-> f]
        BY <1>1, <2>2 DEF m
      <3>2. queue' = <<>> /\ moving' = <<[number |-> sequence', envelope |-> f]>>
        BY <1>7, <3>1
      <3> QED
        BY <3>2 DEF InWrite
    <2>4. Writes'
      BY <1>3, <1>4 DEF Writes
    <2>5. /\ history'.told <= f.edit /\ f.edit <= edits'
          /\ op'.kind = "mutate" /\ op'.doc # 0 => f.edit = op'.doc
      BY <1>1, <1>4, <2>1
    <2> QED
      BY <2>3, <2>4, <2>5 DEF WriteHasOp
  <1>11. SessionShows' /\ PromptIsCurrent'
    BY <1>4 DEF MInv, SessionShows, PromptIsCurrent, Busy
  <1> QED
    BY <1>6, <1>8, <1>9, <1>10, <1>11 DEF MInv

\* The move of the write under way has happened: what it published is the newest
\* snapshot, or somebody else's is.
LEMMA MovedFacts ==
  ASSUME MInv, moving # <<>>, Moved(moving[1]), NEW e, e = moving[1].envelope
  PROVE  /\ e \in Envelope /\ sequence \in 1..MaxSequence /\ sequence \in DOMAIN files'
         /\ files'[sequence] = e
         /\ history.told <= e.edit /\ e.edit <= edits
         /\ op.kind = "mutate" /\ op.doc # 0 => e.edit = op.doc
         /\ HasLatest' /\ DOMAIN files' \subseteq 1..MaxSequence
         /\ \A n \in DOMAIN files' : files'[n] \in Envelope /\ files'[n].edit <= edits
         /\ Latest' # 0 /\ Latest' \in DOMAIN files' /\ files'[Latest'].edit >= e.edit
         /\ ~history.other =>
              /\ Latest' = sequence
              /\ \A m, n \in DOMAIN files' : files'[m].vault = files'[n].vault
         /\ pending' \subseteq 1..MaxSequence
  <1>1. /\ JournalTypeOK /\ HasLatest /\ Numbered
        /\ Latest \in 0..MaxSequence
        /\ Latest = 0 <=> DOMAIN files = {}
        /\ Latest # 0 => Latest \in DOMAIN files /\ files[Latest] \in Envelope
    BY Typed, LatestFacts DEF MInv
  <1>2. /\ Writes /\ queue = <<>> /\ moving[1].number = sequence /\ e \in Envelope
        /\ moving = <<[number |-> sequence, envelope |-> e]>>
    BY WriteFacts
  <1>3. sequence \in 1..MaxSequence
    <2>1. published < sequence /\ published \in Nat /\ sequence \in 0..MaxSequence
          /\ MaxSequence \in Nat
      BY Envelopes DEF MInv, MobileTypeOK, JournalTypeOK, JournalFollows
    <2> QED
      BY <2>1
  <1>4. /\ history.told <= e.edit /\ e.edit <= edits
        /\ op.kind = "mutate" /\ op.doc # 0 => e.edit = op.doc
    <2>1. PICK f \in Envelope :
            /\ InWrite(f)
            /\ history.told <= f.edit /\ f.edit <= edits
            /\ op.kind = "mutate" /\ op.doc # 0 => f.edit = op.doc
      BY <1>2 DEF MInv, WriteHasOp
    <2>2. moving = <<[number |-> sequence, envelope |-> f]>>
      BY <2>1 DEF InWrite
    <2>3. moving[1].envelope = f
      BY <2>2
    <2> QED
      BY <2>1, <2>3
  <1>5. /\ sequence \notin DOMAIN files
        /\ files' = [k \in DOMAIN files \cup {sequence} |->
                       IF k = sequence THEN e ELSE files[k]]
        /\ pending' = pending \ {sequence}
    BY <1>2 DEF Moved
  <1>6. /\ DOMAIN files' = DOMAIN files \cup {sequence}
        /\ DOMAIN files' \subseteq 1..MaxSequence
        /\ \A k \in DOMAIN files' : files'[k] \in Envelope
        /\ \A k \in DOMAIN files : files'[k] = files[k]
        /\ files'[sequence] = e
        /\ HasLatest'
        /\ Latest' = IF Latest < sequence THEN sequence ELSE Latest
        /\ Latest' # 0
    BY <1>1, <1>2, <1>3, <1>5, FileAdded
  <1>7. Latest' \in DOMAIN files' /\ files'[Latest'].edit >= e.edit
    <2>1. e.edit \in Nat /\ (Latest # 0 => files[Latest].edit \in Nat)
      BY <1>1, <1>2, Envelopes
    <2>2. CASE Latest < sequence
      BY <1>6, <2>1, <2>2
    <2>3. CASE ~(Latest < sequence)
      <3>1. Latest # 0 /\ files[Latest].edit >= e.edit
        BY <2>3 DEF MInv, MoveIsNewest
      <3> QED
        BY <1>1, <1>6, <2>3, <3>1
    <2> QED
      BY <2>2, <2>3
  <1>8. ASSUME ~history.other
        PROVE  /\ Latest' = sequence
               /\ \A m, n \in DOMAIN files' : files'[m].vault = files'[n].vault
    <2>1. Latest' = sequence
      BY <1>6, <1>8 DEF MInv, MoveIsNewest
    <2>2. vaultId \in {NoId, e.vault} /\ published = Latest /\ initialized
          /\ \A m, n \in DOMAIN files : files[m].vault = files[n].vault
      BY <1>2, <1>8
      DEF MInv, MoveIsAllowed, CacheIsLatest, SessionShows, Busy, Writes, JournalFollows,
          OneVault
    <2>3. \A n \in DOMAIN files : files[n].vault = e.vault
      <3>1. CASE published = 0
        BY <1>1, <2>2, <3>1
      <3>2. CASE published # 0
        <4>1. published \in DOMAIN files /\ vaultId = files[published].vault
          BY <2>2, <3>2 DEF MInv, JournalFollows
        <4>2. vaultId # NoId
          BY <1>1, <2>2, <3>2, <4>1, Envelopes
        <4> QED
          BY <2>2, <4>1, <4>2
      <3> QED
        BY <3>1, <3>2
    <2>4. \A n \in DOMAIN files' : files'[n].vault = e.vault
      BY <1>6, <2>3
    <2> QED
      BY <2>1, <2>4
  <1>9. \A n \in DOMAIN files' : files'[n].edit <= edits
    BY <1>1, <1>4, <1>6 DEF Numbered
  <1>10. pending' \subseteq 1..MaxSequence
    BY <1>1, <1>5 DEF JournalTypeOK
  <1> QED
    BY <1>2, <1>3, <1>4, <1>6, <1>7, <1>8, <1>9, <1>10

\* The write under way is published, and its operation ends: with the new vault or
\* the new document open, or behind the lock screen.
LEMMA PublishKeeps == ASSUME MInv, Created \/ Mutated PROVE MInv'
  <1> DEFINE e == moving[1].envelope
  <1>1. /\ moving # <<>> /\ Moved(moving[1])
        /\ published' = moving[1].number /\ vaultId' = e.vault /\ moving' = <<>>
        /\ envelope' = e /\ op' = NoOp /\ Updated
        /\ UNCHANGED <<sequence, initialized, queue>>
        /\ UNCHANGED <<active, ready, sessions, edits>>
    BY DEF Created, Mutated, Publish
  <1>2. /\ e \in Envelope /\ sequence \in 1..MaxSequence /\ sequence \in DOMAIN files'
        /\ files'[sequence] = e
        /\ history.told <= e.edit /\ e.edit <= edits
        /\ op.kind = "mutate" /\ op.doc # 0 => e.edit = op.doc
        /\ HasLatest' /\ DOMAIN files' \subseteq 1..MaxSequence
        /\ \A n \in DOMAIN files' : files'[n] \in Envelope /\ files'[n].edit <= edits
        /\ Latest' # 0 /\ Latest' \in DOMAIN files' /\ files'[Latest'].edit >= e.edit
        /\ ~history.other =>
             /\ Latest' = sequence
             /\ \A m, n \in DOMAIN files' : files'[m].vault = files'[n].vault
        /\ pending' \subseteq 1..MaxSequence
    BY <1>1, MovedFacts
  <1>3. /\ moving[1].number = sequence /\ Writes /\ queue' = <<>>
        /\ ready = "ready" /\ initialized
    BY <1>1, WriteFacts DEF MInv, SessionShows, JournalFollows, Busy, Writes
  <1> HIDE DEF e
  <1>4. /\ edits \in Nat /\ sessions \in 0..MaxSessions /\ e.edit \in 0..edits /\ e.edit # 0
        /\ op \in OpRecord /\ prompt \in PromptRecord
        /\ history \in [told : 0..edits, unseen : 0..MaxEdits, other : BOOLEAN]
        /\ files'[Latest'].edit \in Nat
        /\ owned \subseteq 1..sessions
    BY <1>2, Typed, Envelopes DEF MInv, MobileTypeOK
  <1>5. \/ UNCHANGED <<current, shown, history>> /\ (current = 0 \/ Mutated)
             /\ (current = 0 \/ op.doc = 0 \/ op.revoked \/ ~active)
        \/ /\ active
           /\ shown' = e.edit /\ history' = [history EXCEPT !.told = e.edit]
           /\ \/ Created /\ current' = op.session
              \/ Mutated /\ current' = current
    <2>1. CASE Created
      <3>1. current = 0
        BY <2>1 DEF Created, MInv, SessionShows
      <3> QED
        BY <1>1, <2>1, <3>1 DEF Created, Revoked
    <2>2. CASE Mutated
      <3>1. op.doc # 0 => e.edit = op.doc
        BY <1>2, <2>2 DEF Mutated
      <3> QED
        BY <1>1, <2>2, <3>1 DEF Mutated, Revoked
    <2> QED
      BY <2>1, <2>2
  <1>6. /\ history' \in [told : 0..edits, unseen : 0..MaxEdits, other : BOOLEAN]
        /\ history'.told \in {history.told, e.edit} /\ history'.other = history.other
    BY <1>4, <1>5
  <1>7. op'.kind = "none" /\ op'.revoked = FALSE /\ op' \in OpRecord
    BY <1>1, <1>4, Envelopes DEF NoOp, OpRecord
  <1>8. prompt' \in PromptRecord /\ ~(prompt'.open /\ prompt'.fresh)
    BY <1>1, UpdatedFacts
  <1>9. /\ current' \in 0..sessions /\ shown' \in 0..edits /\ owned' \subseteq 1..sessions
    <2>1. current \in 0..sessions /\ op.session \in 0..sessions /\ shown \in 0..edits
      BY <1>4 DEF OpRecord, MInv, MobileTypeOK
    <2>2. owned' = owned \/ owned' = owned \ {op.session}
      BY DEF Created, Mutated
    <2> QED
      BY <1>4, <1>5, <2>1, <2>2
  <1>10. MobileTypeOK'
    <2>1. JournalTypeOK'
      <3>1. /\ vaultId' \in {NoId} \cup {f.vault : f \in Envelope}
            /\ moving' \in Seq(Move) /\ Len(moving') <= 1 /\ queue' \in Seq(Envelope)
            /\ published' \in 0..MaxSequence /\ sequence' \in 0..MaxSequence
        BY <1>1, <1>2, <1>3, Envelopes
      <3> QED
        BY <1>1, <1>2, <1>3, <3>1 DEF JournalTypeOK
    <2> QED
      BY <1>1, <1>2, <1>3, <1>6, <1>7, <1>8, <1>9, <2>1
      DEF MInv, MobileTypeOK, OpRecord, PromptRecord
  <1>11. JournalFollows' /\ MoveIsNewest' /\ MoveIsAllowed' /\ WriteHasOp'
    <2>1. ~Writes' /\ queue' = <<>> /\ moving' = <<>>
      BY <1>1, <1>3, <1>7 DEF Writes
    <2>2. JournalFollows'
      BY <1>1, <1>2, <1>3, <2>1 DEF JournalFollows
    <2> QED
      BY <2>1, <2>2 DEF MoveIsNewest, MoveIsAllowed, WriteHasOp
  <1>12. Durable' /\ Numbered'
    <2>1. files'[Latest'].edit >= history'.told
      BY <1>2, <1>4, <1>6
    <2> QED
      BY <1>1, <1>2, <1>4, <2>1 DEF Durable, InJournal, Numbered
  <1>13. OneVault' /\ CacheIsLatest'
    BY <1>1, <1>2, <1>3, <1>6 DEF OneVault, CacheIsLatest
  <1>14. SessionShows' /\ PromptIsCurrent'
    <2>1. envelope' # NoEnvelope
      BY <1>1, <1>2, Envelopes
    <2>2. current' # 0 => active' /\ shown' = envelope'.edit
      <3>1. current # 0 => active /\ ~op.revoked /\ (op.kind = "mutate" => op.doc # 0)
        BY DEF MInv, SessionShows
      <3>2. Mutated => op.kind = "mutate"
        BY DEF Mutated
      <3> QED
        BY <1>1, <1>5, <3>1, <3>2
    <2> QED
      BY <1>1, <1>3, <1>7, <1>8, <2>1, <2>2 DEF SessionShows, PromptIsCurrent, Busy
  <1> QED
    BY <1>2, <1>10, <1>11, <1>12, <1>13, <1>14 DEF MInv

\* The write under way fails: the controller goes on with what it cached.
LEMMA FailsKeep == ASSUME MInv, CreateFails \/ MutateFails PROVE MInv'
  <1>1. /\ op.kind \in {"create", "mutate"} /\ WriteFails /\ op' = NoOp /\ Updated
        /\ UNCHANGED <<active, ready, envelope, current, shown, sessions, edits, history>>
        /\ owned' = owned \/ owned' = owned \ {op.session}
    BY DEF CreateFails, MutateFails
  <1>2. UNCHANGED <<files, published, vaultId, initialized>>
    BY <1>1 DEF WriteFails, WriteRefused, PublishFails, directory
  <1>3. /\ sequence \in 0..MaxSequence /\ MaxSequence \in Nat /\ published \in Nat
        /\ published <= sequence /\ JournalTypeOK /\ edits \in Nat
        /\ history \in [told : 0..edits, unseen : 0..MaxEdits, other : BOOLEAN]
    BY Typed, Envelopes DEF MInv, JournalTypeOK, JournalFollows
  <1>4. queue' = <<>> /\ moving' = <<>>
    <2>1. CASE WriteRefused
      <3>1. queue # <<>> /\ moving' = moving /\ queue' = Tail(queue)
        BY <2>1 DEF WriteRefused
      <3>2. moving = <<>> /\ queue = <<Head(queue)>>
        BY <3>1, WriteFacts
      <3>3. \A h : Tail(<<h>>) = <<>>
        OBVIOUS
      <3>4. Tail(queue) = <<>>
        BY ONLY <3>2, <3>3
      <3> QED
        BY <3>1, <3>2, <3>4
    <2>2. CASE PublishFails
      BY <2>2, WriteFacts DEF PublishFails
    <2> QED
      BY <1>1, <2>1, <2>2 DEF WriteFails
  <1>5. /\ sequence <= sequence' /\ sequence' \in 0..MaxSequence
        /\ pending' \subseteq 1..MaxSequence
    <2>1. \/ sequence' = sequence /\ pending' = pending
          \/ /\ sequence < MaxSequence /\ sequence' = sequence + 1
             /\ pending' \subseteq pending \cup {sequence + 1}
      BY <1>1 DEF WriteFails, WriteRefused, MayWrite, PublishFails, directory
    <2>2. pending \subseteq 1..MaxSequence
      BY <1>3 DEF JournalTypeOK
    <2>3. CASE sequence' = sequence /\ pending' = pending
      BY <1>3, <2>2, <2>3
    <2>4. CASE /\ sequence < MaxSequence /\ sequence' = sequence + 1
               /\ pending' \subseteq pending \cup {sequence + 1}
      BY <1>3, <2>2, <2>4
    <2> QED
      BY <2>1, <2>3, <2>4
  <1>6. /\ HasLatest' /\ JournalFollows' /\ Durable' /\ Numbered' /\ OneVault'
        /\ CacheIsLatest'
    <2>1. edits <= edits' /\ edits' \in Nat
      BY <1>1, <1>3
    <2> QED
      BY <1>1, <1>2, <1>4, <1>5, <2>1, QueueKept
  <1>7. op'.kind = "none" /\ op'.revoked = FALSE /\ op' \in OpRecord
    <2>1. 0 \in 0..sessions /\ 0 \in 0..edits
      BY Typed, Envelopes
    <2> QED
      BY <1>1, <2>1 DEF NoOp, OpRecord
  <1>8. prompt' \in PromptRecord /\ ~(prompt'.open /\ prompt'.fresh)
    BY <1>1, UpdatedFacts
  <1>9. MobileTypeOK'
    <2>1. JournalTypeOK'
      <3>1. moving' \in Seq(Move) /\ Len(moving') <= 1 /\ queue' \in Seq(Envelope)
        BY <1>4
      <3> QED
        BY <1>2, <1>3, <1>5, <3>1 DEF JournalTypeOK
    <2> QED
      BY <1>1, <1>7, <1>8, <2>1 DEF MInv, MobileTypeOK, OpRecord, PromptRecord
  <1>10. MoveIsNewest' /\ MoveIsAllowed' /\ WriteHasOp'
    BY <1>4, <1>7 DEF MoveIsNewest, MoveIsAllowed, WriteHasOp, Writes
  <1>11. SessionShows' /\ PromptIsCurrent'
    BY <1>1, <1>7, <1>8 DEF MInv, SessionShows, PromptIsCurrent, Busy
  <1> QED
    BY <1>6, <1>9, <1>10, <1>11 DEF MInv

-----------------------------------------------------------------------------
(* The world around the app *)

\* A new process finds the directory as it was, or with the move under way done.
LEMMA KillKeeps == ASSUME MInv, Kill PROVE MInv'
  <1>1. /\ sequence' = 0 /\ published' = 0 /\ vaultId' = NoId /\ initialized' = FALSE
        /\ queue' = <<>> /\ moving' = <<>>
        /\ UNCHANGED <<files, pending>> \/ (moving # <<>> /\ Moved(moving[1]))
        /\ active' \in BOOLEAN
        /\ ready' = "loading" /\ envelope' = NoEnvelope
        /\ current' = 0 /\ shown' = 0 /\ owned' = {}
        /\ op' = NoOp /\ prompt' = NoPrompt /\ sessions' = 0
        /\ history' = [history EXCEPT !.unseen = 0]
        /\ edits' = edits
    BY DEF Kill, Crash, NewProcess, NewController, directory
  <1>2. /\ edits \in 0..MaxEdits /\ edits \in Nat /\ MaxSequence \in Nat
        /\ 0 \in 0..MaxSessions
        /\ history \in [told : 0..edits, unseen : 0..MaxEdits, other : BOOLEAN]
        /\ JournalTypeOK /\ HasLatest /\ Numbered /\ Durable /\ OneVault
    BY Typed, Envelopes DEF MInv
  <1>3. /\ history' \in [told : 0..edits, unseen : 0..MaxEdits, other : BOOLEAN]
        /\ history'.told = history.told /\ history'.other = history.other
    <2>1. 0 \in 0..MaxEdits
      BY Envelopes
    <2> QED
      BY <1>1, <1>2, <2>1
  <1>4. /\ HasLatest' /\ DOMAIN files' \subseteq 1..MaxSequence
        /\ \A n \in DOMAIN files' : files'[n] \in Envelope /\ files'[n].edit <= edits
        /\ pending' \subseteq 1..MaxSequence
        /\ (InJournal(history.told))'
        /\ OneVault'
    <2>1. CASE UNCHANGED <<files, pending>>
      <3>1. Latest' = Latest
        BY <2>1 DEF Latest
      <3> QED
        BY <1>2, <1>3, <2>1, <3>1
        DEF JournalTypeOK, HasLatest, Numbered, Durable, InJournal, OneVault
    <2>2. CASE moving # <<>> /\ Moved(moving[1])
      <3> DEFINE e == moving[1].envelope
      <3>1. /\ e \in Envelope
            /\ history.told <= e.edit
            /\ HasLatest' /\ DOMAIN files' \subseteq 1..MaxSequence
            /\ \A n \in DOMAIN files' : files'[n] \in Envelope /\ files'[n].edit <= edits
            /\ Latest' # 0 /\ Latest' \in DOMAIN files' /\ files'[Latest'].edit >= e.edit
            /\ ~history.other =>
                 \A m, n \in DOMAIN files' : files'[m].vault = files'[n].vault
            /\ pending' \subseteq 1..MaxSequence
        BY <2>2, MovedFacts
      <3> HIDE DEF e
      <3>2. files'[Latest'].edit \in Nat /\ e.edit \in Nat /\ history.told \in Nat
        BY <1>2, <3>1, Envelopes
      <3>3. (InJournal(history.told))'
        BY <1>3, <3>1, <3>2 DEF InJournal
      <3>4. OneVault'
        BY <1>3, <3>1 DEF OneVault
      <3> QED
        BY <3>1, <3>3, <3>4
    <2> QED
      BY <1>1, <2>1, <2>2
  <1>5. /\ op'.kind = "none" /\ op'.revoked = FALSE /\ op' \in OpRecord'
        /\ prompt' \in PromptRecord' /\ prompt'.open = FALSE
    <2>1. 0 \in 0..sessions' /\ 0 \in 0..edits'
      BY <1>1, <1>2
    <2> QED
      BY <1>1, <2>1 DEF NoOp, NoPrompt, OpRecord, PromptRecord
  <1>6. MobileTypeOK'
    <2>1. JournalTypeOK'
      <3>1. /\ vaultId' \in {NoId} \cup {f.vault : f \in Envelope}
            /\ moving' \in Seq(Move) /\ Len(moving') <= 1 /\ queue' \in Seq(Envelope)
            /\ published' \in 0..MaxSequence /\ sequence' \in 0..MaxSequence
        BY <1>1, <1>2
      <3>2. initialized' \in BOOLEAN
        BY <1>1
      <3> QED
        BY <1>4, <3>1, <3>2 DEF JournalTypeOK
    <2>2. /\ current' \in 0..sessions' /\ shown' \in 0..edits' /\ owned' \subseteq 1..sessions'
      BY <1>1, <1>2
    <2> QED
      BY <1>1, <1>2, <1>3, <1>5, <2>1, <2>2 DEF MobileTypeOK, OpRecord, PromptRecord
  <1>7. JournalFollows' /\ MoveIsNewest' /\ MoveIsAllowed' /\ WriteHasOp'
    BY <1>1, <1>5 DEF JournalFollows, MoveIsNewest, MoveIsAllowed, WriteHasOp, Writes
  <1>8. Durable' /\ Numbered'
    <2>1. envelope'.edit = 0
      BY <1>1, Envelopes
    <2> QED
      BY <1>1, <1>2, <1>4, <2>1 DEF Durable, InJournal, Numbered
  <1>9. CacheIsLatest' /\ SessionShows' /\ PromptIsCurrent'
    BY <1>1, <1>5 DEF CacheIsLatest, SessionShows, PromptIsCurrent, Busy
  <1> QED
    BY <1>4, <1>6, <1>7, <1>8, <1>9 DEF MInv

\* Somebody else's snapshot is the newest one, and carries the newest document.
LEMMA ExternalKeeps ==
  ASSUME MInv, NEW v \in {1, 2}, ExternalWrite(v)
  PROVE  MInv'
  <1> DEFINE n == Latest + 1
             x == [vault |-> v, edit |-> edits + 1]
  <1>1. /\ edits < MaxEdits /\ edits' = edits + 1 /\ Latest < MaxSequence
        /\ files' = [k \in DOMAIN files \cup {n} |-> IF k = n THEN x ELSE files[k]]
        /\ UNCHANGED <<pending, sequence, published, vaultId, initialized, queue, moving>>
        /\ UNCHANGED <<active, ready, envelope, current, shown, owned, op, prompt, sessions>>
    BY DEF ExternalWrite, External, process, controller
  <1>2. /\ edits \in Nat /\ edits \in 0..MaxEdits /\ MaxSequence \in Nat
        /\ Latest \in 0..MaxSequence
        /\ Latest = 0 <=> DOMAIN files = {}
        /\ Latest # 0 => Latest \in DOMAIN files /\ files[Latest] \in Envelope
        /\ \A m \in DOMAIN files : m <= Latest /\ m # 0 /\ m \in 1..MaxSequence
        /\ JournalTypeOK /\ HasLatest
        /\ history \in [told : 0..edits, unseen : 0..MaxEdits, other : BOOLEAN]
    BY Typed, LatestFacts, Envelopes
  <1>3. /\ n \in 1..MaxSequence /\ n \notin DOMAIN files /\ Latest < n
        /\ edits + 1 \in 1..MaxEdits /\ edits + 1 \in Nat /\ edits' \in 0..MaxEdits
    <2>1. n \in 1..MaxSequence /\ Latest < n /\ Latest \in Nat
      BY <1>1, <1>2
    <2>2. n \notin DOMAIN files
      BY <1>2, <2>1
    <2>3. edits + 1 \in 1..MaxEdits /\ edits + 1 \in Nat /\ edits' \in 0..MaxEdits
      <3>1. edits < MaxEdits /\ edits' = edits + 1 /\ edits \in Nat /\ MaxEdits \in Nat
        BY <1>1, <1>2, Envelopes
      <3> QED
        BY <3>1
    <2> QED
      BY <2>1, <2>2, <2>3
  <1>4. x \in Envelope /\ x.edit = edits + 1
    BY <1>3, Envelopes
  <1> HIDE DEF n, x
  <1>5. /\ DOMAIN files' = DOMAIN files \cup {n}
        /\ DOMAIN files' \subseteq 1..MaxSequence
        /\ \A k \in DOMAIN files' : files'[k] \in Envelope
        /\ \A k \in DOMAIN files : files'[k] = files[k]
        /\ files'[n] = x
        /\ HasLatest'
        /\ Latest' = n /\ n # 0
    <2>1. /\ DOMAIN files' = DOMAIN files \cup {n}
          /\ DOMAIN files' \subseteq 1..MaxSequence
          /\ \A k \in DOMAIN files' : files'[k] \in Envelope
          /\ \A k \in DOMAIN files : files'[k] = files[k]
          /\ files'[n] = x
          /\ HasLatest'
          /\ Latest' = IF Latest < n THEN n ELSE Latest
          /\ Latest' # 0
      <3>1. files' = [k \in DOMAIN files \cup {n} |-> IF k = n THEN x ELSE files[k]]
        BY <1>1
      <3>2. JournalTypeOK /\ HasLatest
        BY <1>2
      <3> QED
        BY ONLY <1>3, <1>4, <3>1, <3>2, FileAdded
    <2> QED
      BY <1>3, <2>1
  <1>6. /\ history'.other = TRUE /\ history'.told = history.told
        /\ history' \in [told : 0..edits', unseen : 0..MaxEdits, other : BOOLEAN]
    <2> DEFINE u == IF initialized /\ (moving = <<>> \/ moving[1].number = Latest + 1)
                    THEN edits + 1 ELSE 0
               D == 0..edits
               D1 == 0..edits'
               U == 0..MaxEdits
    <2>1. /\ u \in U /\ D \subseteq D1 /\ TRUE \in BOOLEAN
          /\ history \in [told : D, unseen : U, other : BOOLEAN]
      <3>1. u \in {0, edits + 1} /\ 0 \in U /\ edits + 1 \in U
        BY <1>3, Envelopes
      <3>2. D \subseteq D1
        BY <1>1, <1>2
      <3> QED
        BY <1>2, <3>1, <3>2
    <2>2. history' = [history EXCEPT !.other = TRUE, !.unseen = u]
      BY DEF ExternalWrite
    <2> HIDE DEF u, D, D1, U
    <2>3. /\ history'.other = TRUE /\ history'.told = history.told
          /\ history' \in [told : D1, unseen : U, other : BOOLEAN]
      BY <2>1, <2>2
    <2> QED
      BY <2>3 DEF D1, U
  <1>7. MobileTypeOK'
    <2>1. JournalTypeOK'
      BY <1>1, <1>2, <1>5 DEF JournalTypeOK
    <2> DEFINE D == 0..edits
               D1 == 0..edits'
    <2>2. /\ D \subseteq D1 /\ shown \in D
          /\ op \in [kind : {"none", "yield", "create", "mutate"}, create : BOOLEAN,
                     revoked : BOOLEAN, session : 0..sessions, doc : D]
          /\ prompt \in [open : BOOLEAN, fresh : BOOLEAN, session : 0..sessions, doc : D]
      BY <1>1, <1>2 DEF MInv, MobileTypeOK
    <2> HIDE DEF D, D1
    <2>3. /\ shown' \in D1
          /\ op' \in [kind : {"none", "yield", "create", "mutate"}, create : BOOLEAN,
                      revoked : BOOLEAN, session : 0..sessions, doc : D1]
          /\ prompt' \in [open : BOOLEAN, fresh : BOOLEAN, session : 0..sessions, doc : D1]
      BY <1>1, <2>2
    <2> QED
      BY <1>1, <1>3, <1>6, <2>1, <2>3 DEF MInv, MobileTypeOK, D1
  <1>8. JournalFollows'
    <2>1. published \in DOMAIN files => files'[published] = files[published]
                                          /\ published \in DOMAIN files'
      BY <1>5
    <2> QED
      BY <1>1, <2>1 DEF MInv, JournalFollows
  <1>9. /\ history.told <= edits /\ history.told \in Nat
        /\ envelope.edit <= edits /\ envelope.edit \in Nat
        /\ \A k \in DOMAIN files : files[k].edit <= edits /\ files[k].edit \in Nat
    BY <1>2, Typed, Envelopes DEF MInv, Numbered, JournalTypeOK
  <1>10. Durable' /\ Numbered'
    BY <1>1, <1>2, <1>4, <1>5, <1>6, <1>9 DEF Durable, InJournal, Numbered
  <1>11. WriteHasOp'
    <2>1. CASE ~Writes
      BY <1>1, <2>1 DEF MInv, WriteHasOp, Writes
    <2>2. CASE Writes
      <3>1. PICK e \in Envelope :
              /\ InWrite(e)
              /\ history.told <= e.edit /\ e.edit <= edits
              /\ op.kind = "mutate" /\ op.doc # 0 => e.edit = op.doc
        BY <2>2 DEF MInv, WriteHasOp
      <3>2. InWrite(e)' /\ Writes'
        BY <1>1, <2>2, <3>1 DEF InWrite, Writes
      <3>3. e.edit <= edits'
        BY <1>1, <1>2, <3>1, Envelopes
      <3> QED
        BY <1>1, <1>6, <3>1, <3>2, <3>3 DEF WriteHasOp
    <2> QED
      BY <2>1, <2>2
  <1>12. MoveIsNewest' /\ MoveIsAllowed'
    <2>1. moving # <<>> => moving[1].envelope.edit <= edits /\ moving[1].envelope.edit \in Nat
      <3>1. SUFFICES ASSUME moving # <<>>
                     PROVE  /\ moving[1].envelope.edit <= edits
                            /\ moving[1].envelope.edit \in Nat
        OBVIOUS
      <3>2. PICK e \in Envelope : InWrite(e) /\ e.edit <= edits
        BY <3>1 DEF MInv, WriteHasOp
      <3>3. moving[1].envelope = e
        BY <3>1, <3>2 DEF InWrite
      <3> QED
        BY <3>2, <3>3, Envelopes
    <2>2. Latest' # 0 /\ files'[Latest'].edit = edits + 1
      BY <1>4, <1>5
    <2> QED
      BY <1>1, <1>2, <1>6, <2>1, <2>2 DEF MInv, MoveIsNewest, MoveIsAllowed
  <1>13. OneVault' /\ CacheIsLatest'
    BY <1>6 DEF OneVault, CacheIsLatest
  <1>14. SessionShows' /\ PromptIsCurrent'
    BY <1>1 DEF MInv, SessionShows, PromptIsCurrent, Busy
  <1> QED
    BY <1>5, <1>7, <1>8, <1>10, <1>11, <1>12, <1>13, <1>14 DEF MInv

-----------------------------------------------------------------------------
(* The theorems *)

LEMMA MInvNext == ASSUME MInv, [Next]_vars PROVE MInv'
  <1>1. CASE Initialize \/ InitializeFails
    BY <1>1, LoadKeeps
  <1>2. CASE LockVault \/ Background
    BY <1>2, LocksKeep
  <1>3. CASE \/ Foreground \/ Authenticate \/ AuthenticateReturns \/ MutateRefused
             \/ AskRemoval \/ DropRemoval \/ UNCHANGED vars
    BY <1>3, OperationsKeep
  <1>4. CASE Unlock
    BY <1>4, UnlockKeeps
  <1>5. CASE Create
    BY <1>5, CreateKeeps
  <1>6. CASE Save \/ ConfirmRemoval
    BY <1>6, MutateKeeps
  <1>7. CASE Writing
    BY <1>7, WritingKeeps
  <1>8. CASE Created \/ Mutated
    BY <1>8, PublishKeeps
  <1>9. CASE CreateFails \/ MutateFails
    BY <1>9, FailsKeep
  <1>10. CASE Kill
    BY <1>10, KillKeeps
  <1>11. CASE \E v \in {1, 2} : ExternalWrite(v)
    BY <1>11, ExternalKeeps
  <1> QED
    BY <1>1, <1>2, <1>3, <1>4, <1>5, <1>6, <1>7, <1>8, <1>9, <1>10, <1>11
    DEF Next, Settle

LEMMA Invariance == Spec => []MInv
  BY MInvInit, MInvNext, PTL DEF Spec

\* The controller and its journal have their types.
THEOREM MobileTyped == Spec => []MobileTypeOK
  <1>1. MInv => MobileTypeOK
    BY DEF MInv
  <1> QED
    BY <1>1, Invariance, PTL

\* Whatever "mutate" or "authenticate" reported as stored is in the snapshot that
\* "load" will find, or in a newer one: no refused write, no lock, no kill in
\* the middle of a move and no other writer takes it away.
THEOREM SavesStay == Spec => []SavesDurable
  <1>1. MInv => SavesDurable
    BY DEF MInv, Durable, InJournal, SavesDurable
  <1> QED
    BY <1>1, Invariance, PTL

\* The open session shows the newest snapshot, so the next "seal" starts from it.
THEOREM UnlockedShowsNewest == Spec => []UnlockedIsNewest
  <1>1. ASSUME MInv PROVE UnlockedIsNewest
    <2>1. SUFFICES ASSUME current # 0, ~history.other
                   PROVE  Latest # 0 /\ envelope = files[Latest] /\ shown = envelope.edit
      BY DEF UnlockedIsNewest
    <2>2. ready = "ready" /\ envelope # NoEnvelope /\ shown = envelope.edit
      BY <1>1, <2>1 DEF MInv, SessionShows
    <2>3. envelope = IF Latest = 0 THEN NoEnvelope ELSE files[Latest]
      BY <1>1, <2>1, <2>2 DEF MInv, CacheIsLatest
    <2> QED
      BY <2>2, <2>3
  <1> QED
    BY <1>1, Invariance, PTL

\* "create" is never used over an existing vault.
THEOREM VaultsNotReplaced == Spec => []OneVault
  <1>1. MInv => OneVault
    BY DEF MInv
  <1> QED
    BY <1>1, Invariance, PTL

\* The snapshot of somebody else, as long as this process has not read it.  A move
\* that is under way has taken its number, and will fail.
Foreign ==
  history.unseen # 0 =>
    /\ initialized /\ published < Latest
    /\ files[Latest].edit = history.unseen
    /\ moving # <<>> => moving[1].number = Latest

\* What the keys rest on: the session of an operation, and what a lock leaves of it.
OpOwns ==
  /\ KeysGoAtOnce
  /\ op.kind \in {"none", "yield"} => op.session = 0 /\ op.doc = 0
  /\ op.kind = "none" => ~op.revoked
  /\ op.kind = "mutate" /\ ~op.revoked => op.session = current
  /\ op.kind = "create" => op.session # 0
  /\ Busy /\ ~active => op.revoked

\* The steps that leave the snapshots and what the process knows of them alone.
LEMMA ForeignStays ==
  ASSUME Foreign, UNCHANGED <<files, published, initialized>>,
         history'.unseen = history.unseen, moving' \in {<<>>, moving}
  PROVE  Foreign'
  BY DEF Foreign, Latest

LEMMA ForeignNext ==
  ASSUME MInv, Foreign, [Next]_vars
  PROVE  Foreign'
  <1>1. /\ JournalTypeOK /\ HasLatest
        /\ Latest \in 0..MaxSequence /\ MaxSequence \in Nat
        /\ Latest = 0 <=> DOMAIN files = {}
        /\ Latest # 0 => Latest \in DOMAIN files
        /\ \A m \in DOMAIN files : m <= Latest
        /\ history \in [told : 0..edits, unseen : 0..MaxEdits, other : BOOLEAN]
        /\ published \in Nat /\ (initialized => published <= Latest)
    BY Typed, LatestFacts, Envelopes DEF MInv, JournalFollows, JournalTypeOK
  <1>2. CASE \/ LockVault \/ Background \/ Foreground \/ Authenticate
             \/ AuthenticateReturns \/ MutateRefused \/ AskRemoval \/ DropRemoval
             \/ UNCHANGED vars
    BY <1>2, ForeignStays
    DEF LockVault, Background, Foreground, Authenticate, AuthenticateReturns,
        MutateRefused, AskRemoval, DropRemoval, vars, journal, directory, process
  <1>3. CASE Unlock
    <2>1. history'.unseen = history.unseen
      BY <1>1, <1>3 DEF Unlock
    <2> QED
      BY <1>3, <2>1, ForeignStays DEF Unlock, journal, directory, process
  <1>4. CASE Create \/ Save \/ ConfirmRemoval
    BY <1>4, ForeignStays
    DEF Create, Save, ConfirmRemoval, Mutate, Enqueue, directory
  <1>5. CASE CreateFails \/ MutateFails
    BY <1>5, ForeignStays
    DEF CreateFails, MutateFails, WriteFails, WriteRefused, PublishFails, directory
  <1>6. CASE Initialize \/ Kill
    <2>1. history'.unseen = 0
      BY <1>1, <1>6 DEF Initialize, Kill
    <2> QED
      BY <2>1 DEF Foreign
  <1>7. CASE InitializeFails
    <2>1. ready = "loading" /\ UNCHANGED <<history, initialized>>
      BY <1>7 DEF InitializeFails, LoadFails
    <2> QED
      BY <2>1 DEF Foreign, MInv, JournalFollows
  <1>8. CASE Writing
    <2>1. Latest = published /\ UNCHANGED history
      BY <1>8 DEF Writing, WriteBegins, MayWrite
    <2> QED
      BY <1>1, <2>1 DEF Foreign
  <1>9. CASE Created \/ Mutated
    <2>1. moving # <<>> /\ moving[1].number \notin DOMAIN files
      BY <1>9 DEF Created, Mutated, Publish, Moved
    <2>2. history'.unseen = history.unseen
      BY <1>1, <1>9 DEF Created, Mutated
    <2>3. history.unseen = 0
      BY <1>1, <2>1 DEF Foreign
    <2> QED
      BY <2>2, <2>3 DEF Foreign
  <1>10. CASE \E v \in {1, 2} : ExternalWrite(v)
    <2>1. PICK v \in {1, 2} : ExternalWrite(v)
      BY <1>10
    <2> DEFINE n == Latest + 1
               x == [vault |-> v, edit |-> edits + 1]
    <2>2. /\ edits < MaxEdits /\ Latest < MaxSequence
          /\ files' = [k \in DOMAIN files \cup {n} |-> IF k = n THEN x ELSE files[k]]
          /\ UNCHANGED <<initialized, published, moving>>
          /\ history' = [history EXCEPT !.other = TRUE,
                           !.unseen = IF initialized
                                        /\ (moving = <<>> \/ moving[1].number = n)
                                      THEN edits + 1 ELSE 0]
      BY <2>1 DEF ExternalWrite, External, process
    <2>3. n \in 1..MaxSequence /\ n \notin DOMAIN files /\ x \in Envelope
      <3>1. edits \in Nat /\ edits + 1 \in 1..MaxEdits
        BY <2>2, Typed, Envelopes
      <3>2. n \in 1..MaxSequence /\ n \notin DOMAIN files
        BY <1>1, <2>2
      <3> QED
        BY <3>1, <3>2, Envelopes
    <2>4. x.edit = edits + 1
      OBVIOUS
    <2>5. Latest' = n /\ files'[n] = x
      <3>2. files' = [k \in DOMAIN files \cup {n} |-> IF k = n THEN x ELSE files[k]]
        BY <2>2
      <3> HIDE DEF x, n
      <3>1. /\ Latest' = IF Latest < n THEN n ELSE Latest
            /\ files'[n] = x
        <4>1. JournalTypeOK /\ HasLatest
          BY <1>1
        <4>2. n \in 1..MaxSequence /\ n \notin DOMAIN files
          BY <2>3
        <4>3. x \in Envelope
          BY <2>3
        <4>4. /\ files'[n] = x
              /\ Latest' = IF Latest < n THEN n ELSE Latest
          BY ONLY <3>2, <4>1, <4>2, <4>3, FileAdded
        <4> QED
          BY <4>4
      <3> QED
        BY <1>1, <2>3, <3>1 DEF n
    <2>6. history'.unseen # 0 =>
            /\ initialized /\ (moving = <<>> \/ moving[1].number = n)
            /\ history'.unseen = edits + 1
      BY <1>1, <2>2
    <2> HIDE DEF x
    <2> QED
      BY <1>1, <2>2, <2>4, <2>5, <2>6 DEF Foreign
  <1> QED
    BY <1>2, <1>3, <1>4, <1>5, <1>6, <1>7, <1>8, <1>9, <1>10 DEF Next, Settle

\* "write" compares the newest snapshot with the one its process published or
\* read: somebody else's is neither replaced nor followed by one made without it.
THEOREM ForeignSnapshotsStay == Spec => []ForeignKept
  <1>1. Init => Foreign
    BY DEF Init, Foreign
  <1>2. MInv /\ Foreign => ForeignKept
    <2>1. MInv => published \in Nat /\ Latest \in Nat
      BY Typed, LatestFacts, Envelopes DEF JournalTypeOK
    <2> QED
      BY <2>1 DEF Foreign, ForeignKept
  <1> QED
    BY <1>1, <1>2, ForeignNext, Invariance, PTL DEF Spec

LEMMA OpOwnsNext ==
  ASSUME MInv, OpOwns, [Next]_vars
  PROVE  OpOwns'
  <1>1. /\ op \in OpRecord /\ current \in Nat /\ sessions \in Nat /\ edits \in Nat
        /\ owned \subseteq 1..sessions /\ current \in 0..sessions
        /\ current # 0 =>
             /\ active /\ ~op.revoked /\ op.kind \in {"none", "mutate"}
    BY Typed, Envelopes DEF MInv, MobileTypeOK, SessionShows
  <1>2. CASE UNCHANGED <<active, current, owned, op>>
    BY <1>2 DEF OpOwns, KeysGoAtOnce, Busy
  <1>3. CASE Lock /\ active' \in {active, FALSE}
    <2>1. /\ current' = 0 /\ owned' = {}
          /\ op' = IF Busy THEN [op EXCEPT !.revoked = TRUE, !.doc = 0] ELSE op
      BY <1>3 DEF Lock
    <2>2. CASE Busy
      <3>1. /\ op'.revoked = TRUE /\ op'.doc = 0 /\ op'.kind = op.kind
            /\ op'.session = op.session
        BY <1>1, <2>1, <2>2 DEF OpRecord
      <3> QED
        BY <2>1, <2>2, <3>1 DEF OpOwns, KeysGoAtOnce, Busy
    <2>3. CASE ~Busy
      BY <2>1, <2>3 DEF OpOwns, KeysGoAtOnce, Busy
    <2> QED
      BY <2>2, <2>3
  <1>4. CASE Foreground
    BY <1>4 DEF Foreground, OpOwns, KeysGoAtOnce, Busy
  <1>5. CASE op' = NoOp /\ op.kind = "yield" /\ UNCHANGED <<active, current, owned>>
    BY <1>5 DEF NoOp, OpOwns, KeysGoAtOnce, Busy
  <1>6. CASE Authenticate
    <2>1. /\ op' = [NoOp EXCEPT !.kind = "yield", !.create = ~HasVault]
          /\ active /\ ~Busy /\ UNCHANGED <<active, current, owned>>
      BY <1>6 DEF Authenticate
    <2>2. op'.kind = "yield" /\ op'.session = 0 /\ op'.doc = 0 /\ ~op'.revoked
      BY <2>1 DEF NoOp
    <2> QED
      BY <2>1, <2>2 DEF OpOwns, KeysGoAtOnce, Busy
  <1>7. CASE Unlock
    <2>1. /\ op.kind = "yield" /\ active /\ ~op.revoked /\ active' = active
          /\ owned' = owned \cup {sessions + 1} /\ current' = sessions + 1
          /\ op' = NoOp
      BY <1>7 DEF Unlock, Revoked
    <2> QED
      BY <1>1, <2>1 DEF NoOp, OpOwns, KeysGoAtOnce, Busy
  <1>8. CASE Create
    <2>1. /\ op.kind = "yield" /\ active /\ ~op.revoked
          /\ UNCHANGED <<active, current>>
          /\ owned' = owned \cup {sessions + 1}
          /\ op' = [op EXCEPT !.kind = "create", !.session = sessions + 1]
      BY <1>8 DEF Create, Revoked
    <2>2. /\ op'.kind = "create" /\ op'.session = sessions + 1
          /\ op'.doc = op.doc /\ ~op'.revoked
      BY <1>1, <2>1 DEF OpRecord
    <2> QED
      BY <1>1, <2>1, <2>2 DEF OpOwns, KeysGoAtOnce, Busy
  <1>9. CASE Save \/ ConfirmRemoval
    <2>1. /\ active /\ current # 0 /\ ~Busy
          /\ UNCHANGED <<active, current, owned>>
          /\ op' = [NoOp EXCEPT !.kind = "mutate", !.session = current, !.doc = edits + 1]
      BY <1>9 DEF Save, ConfirmRemoval, Mutate
    <2>2. /\ op'.kind = "mutate" /\ op'.session = current /\ ~op'.revoked
      BY <2>1 DEF NoOp
    <2> QED
      BY <1>1, <2>1, <2>2 DEF OpOwns, KeysGoAtOnce, Busy
  <1>10. CASE Created
    <2>1. /\ op.kind = "create" /\ op' = NoOp /\ active' = active
          /\ IF Revoked
             THEN owned' = owned \ {op.session} /\ current' = current
             ELSE current' = op.session /\ owned' = owned
      BY <1>10 DEF Created
    <2> QED
      BY <1>1, <2>1 DEF NoOp, OpOwns, KeysGoAtOnce, Busy, Revoked
  <1>11. CASE CreateFails
    <2>1. /\ op.kind = "create" /\ op' = NoOp /\ UNCHANGED <<active, current>>
          /\ owned' = owned \ {op.session}
      BY <1>11 DEF CreateFails
    <2> QED
      BY <1>1, <2>1 DEF NoOp, OpOwns, KeysGoAtOnce, Busy
  <1>12. CASE Mutated \/ MutateFails
    <2>1. op.kind = "mutate" /\ op' = NoOp /\ UNCHANGED <<active, current, owned>>
      BY <1>12 DEF Mutated, MutateFails
    <2> QED
      BY <1>1, <2>1 DEF NoOp, OpOwns, KeysGoAtOnce, Busy
  <1>13. CASE Kill
    BY <1>13 DEF Kill, NewController, NoOp, OpOwns, KeysGoAtOnce, Busy
  <1> QED
    BY <1>2, <1>3, <1>4, <1>5, <1>6, <1>7, <1>8, <1>9, <1>10, <1>11, <1>12, <1>13
    DEF Next, Settle, vars, controller, Initialize, InitializeFails, LockVault,
        Background, AuthenticateReturns, MutateRefused, AskRemoval, DropRemoval,
        Writing, ExternalWrite

\* "lock" discards every session that was made, the one of a creation that no
\* screen shows yet included, and with it the draft of a save; whatever ends
\* later finds its session revoked and discards it.
THEOREM KeysAreGone == Spec => []KeysGoAtOnce
  <1>1. Init => OpOwns
    BY DEF Init, OpOwns, KeysGoAtOnce, NoOp, Busy
  <1>2. OpOwns => KeysGoAtOnce
    BY DEF OpOwns
  <1> QED
    BY <1>1, <1>2, OpOwnsNext, Invariance, PTL DEF Spec

\* "prepareRemoval" compares epoch and stateVersion when its callback runs: what it
\* deletes from is the session and the document it was asked about.
THEOREM RemovalsAreCurrent == Spec => RemovalIsCurrent
  <1>1. ASSUME MInv, [Next]_vars
        PROVE  [ConfirmRemoval => current = prompt.session /\ shown = prompt.doc]_vars
    BY <1>1 DEF MInv, PromptIsCurrent, ConfirmRemoval
  <1> QED
    BY <1>1, Invariance, PTL DEF Spec, RemovalIsCurrent
=============================================================================
