-------------------------- MODULE SyncBootstrapProofs --------------------------
(***************************************************************************)
(* Proofs about SyncBootstrap, for any number of devices that create,      *)
(* enable and restore at once, any records and whatever fails.             *)
(*                                                                         *)
(* The invariant of SyncClient holds from the first vault on, with a       *)
(* server that keeps its state.  On top of it: what a restore has read of  *)
(* the feed would be complete metadata at any moment, however the feed     *)
(* moves on meanwhile; and a device uploads to the account the vault it    *)
(* has open, or restores one while it has none open.                       *)
(***************************************************************************)
EXTENDS SyncBootstrap, SyncClientProofs

(* The inductive invariant *)

\* What a restore has read, as metadata.
ReadSoFar(b) == [cursor |-> b.cursor, known |-> b.got, outbox |-> <<>>, conflicts |-> {}]
ReadIsTrue(b) == KnownIsTrue(ReadSoFar(b)) /\ Complete(ReadSoFar(b))

\* A device d whose enabling or restoring stands at b.
BootFits(d, b) ==
  /\ b.stage # "idle" => IsIdle(d)
  /\ b.stage \in {"create", "save", "drain"} => d \in open
  /\ b.stage \in {"save", "drain", "metadata"} => vault[d] = remote
  /\ b.stage = "drain" => meta[d].outbox # <<>> /\ meta[d].conflicts = {}
  /\ b.stage \in {"pages", "persist", "metadata"} => d \notin open /\ remote # NoVault

OpenHasVault == enabled \subseteq open /\ \A d \in open : vault[d] # NoVault

BInv ==
  /\ CInv /\ NeverBack /\ BootTypeOK
  /\ OpenHasVault /\ EnabledIsServed
  /\ \A d \in Device : BootFits(d, boot[d]) /\ ReadIsTrue(boot[d])

-----------------------------------------------------------------------------
(* The parts of the state *)

LEMMA BootPieces ==
  ASSUME BootTypeOK, NEW d \in Device
  PROVE  /\ boot[d] = [stage |-> boot[d].stage, cursor |-> boot[d].cursor, got |-> boot[d].got]
         /\ boot[d] \in Boot /\ boot[d].stage \in BootStage /\ boot[d].cursor \in Nat
         /\ boot[d].got \in [RecordId -> Known] /\ vault[d] \in Vault
  BY DEF BootTypeOK, Boot

LEMMA ReadTyped ==
  ASSUME NEW b \in Boot
  PROVE  /\ ReadSoFar(b) \in Metadata /\ ReadSoFar(b).cursor = b.cursor
         /\ ReadSoFar(b).known = b.got /\ ReadSoFar(b).outbox = <<>>
         /\ ReadSoFar(b).conflicts = {}
  BY DEF Boot, ReadSoFar, Metadata

LEMMA NothingRead ==
  /\ NoBoot \in Boot /\ NoBoot.stage = "idle" /\ NoBoot.cursor = 0
  /\ \A r \in RecordId : NoBoot.got[r].revision = 0 /\ NoBoot.got[r].local = None
  <1> DEFINE got == [r \in RecordId |-> NoRecord]
  <1>1. NoRecord \in Known /\ NoRecord.revision = 0 /\ NoRecord.local = None
    BY Constants DEF NoRecord, Known
  <1>2. NoBoot = [stage |-> "idle", cursor |-> 0, got |-> got]
    BY DEF NoBoot
  <1>3. got \in [RecordId -> Known] /\ \A r \in RecordId : got[r] = NoRecord
    BY <1>1
  <1> HIDE DEF got
  <1>4. "idle" \in BootStage
    BY DEF BootStage
  <1> QED
    BY <1>1, <1>2, <1>3, <1>4 DEF Boot

LEMMA NothingIsTrue == ASSUME UnwrittenAreNone, TypeOK PROVE ReadIsTrue(NoBoot)
  <1> DEFINE M == ReadSoFar(NoBoot)
  <1>1. /\ M.cursor = 0 /\ M.conflicts = {} /\ M.known = NoBoot.got
        /\ \A r \in RecordId : M.known[r].revision = 0 /\ M.known[r].local = None
    BY NothingRead, ReadTyped
  <1> HIDE DEF M
  <1>2. KnownIsTrue(M)
    BY <1>1 DEF KnownIsTrue, UnwrittenAreNone
  <1>3. Complete(M)
    BY <1>1, ServerTyped DEF Complete
  <1> QED
    BY <1>2, <1>3 DEF ReadIsTrue, M

\* What was read stays true under the same server.
LEMMA ReadStays ==
  ASSUME NEW b, ReadIsTrue(b), server' = server
  PROVE  ReadIsTrue(b)'
  <1>1. PICK M : M = ReadSoFar(b)
    OBVIOUS
  <1>2. KnownIsTrue(M) /\ Complete(M)
    BY <1>1 DEF ReadIsTrue
  <1>3. KnownIsTrue(M)' /\ Complete(M)'
    BY <1>2 DEF KnownIsTrue, Complete, OfRow
  <1>4. ReadSoFar(b)' = M
    BY <1>1 DEF ReadSoFar
  <1> QED
    BY <1>3, <1>4 DEF ReadIsTrue

\* And under one that a device pushed to.
LEMMA ReadSurvives ==
  ASSUME CInv, NeverBack, NEW d \in Device, meta[d].outbox # <<>>,
         AlreadyApplied(Pending(d)) \/ Appliable(Pending(d)), ServerApplies(Pending(d)),
         made' = made, NEW b \in Boot, ReadIsTrue(b)
  PROVE  ReadIsTrue(b)'
  <1>1. PICK M, m : M = ReadSoFar(b) /\ m = Pending(d)
    OBVIOUS
  <1>2. M \in Metadata /\ KnownIsTrue(M) /\ Complete(M)
    BY <1>1, ReadTyped DEF ReadIsTrue
  <1>3. AlreadyApplied(m) \/ Appliable(m)
    BY <1>1
  <1>4. ServerApplies(m)
    BY <1>1
  <1>5. KnownIsTrue(M)' /\ Complete(M)'
    BY <1>1, <1>2, <1>3, <1>4, MetadataStay
  <1>6. ReadSoFar(b)' = M
    BY <1>1 DEF ReadSoFar
  <1> QED
    BY <1>5, <1>6 DEF ReadIsTrue

-----------------------------------------------------------------------------
(* A device changes its vault or gets on with it *)

\* The vault, the pages and the boots of others stay, and the account's vault is
\* given once.
Alone(d, b, v) ==
  /\ boot' = [boot EXCEPT ![d] = b] /\ vault' = [vault EXCEPT ![d] = v]
  /\ open' \in {open, open \cup {d}} /\ enabled' \in {enabled, enabled \cup {d}}
  /\ remote' = remote \/ remote = NoVault
  /\ \A e \in Device \ {d} : meta'[e] = meta[e] /\ job'[e] = job[e]

LEMMA OtherBoots ==
  ASSUME BInv, NEW d \in Device, NEW b, NEW v, Alone(d, b, v), NEW e \in Device, e # d
  PROVE  /\ boot'[e] = boot[e] /\ vault'[e] = vault[e] /\ BootFits(e, boot[e])'
         /\ (e \in open' <=> e \in open) /\ (e \in enabled' <=> e \in enabled)
         /\ e \in enabled' => vault'[e] = remote'
  <1>1. /\ boot'[e] = boot[e] /\ vault'[e] = vault[e]
        /\ meta'[e] = meta[e] /\ job'[e] = job[e]
        /\ (e \in open' <=> e \in open) /\ (e \in enabled' <=> e \in enabled)
    BY DEF Alone, BInv, BootTypeOK
  <1>2. BootFits(e, boot[e]) /\ (e \in enabled => e \in open /\ vault[e] = remote)
        /\ (e \in open => vault[e] # NoVault)
    BY DEF BInv, OpenHasVault, EnabledIsServed
  <1>3. PICK c : c = boot[e]
    OBVIOUS
  <1>4. remote' = remote \/ (remote = NoVault /\ vault[e] # remote) \/ e \notin open
    BY <1>2 DEF Alone
  <1>5. BootFits(e, c)'
    <2>1. /\ c.stage # "idle" => IsIdle(e)
          /\ c.stage \in {"create", "save", "drain"} => e \in open
          /\ c.stage \in {"save", "drain", "metadata"} => vault[e] = remote
          /\ c.stage = "drain" => meta[e].outbox # <<>> /\ meta[e].conflicts = {}
          /\ c.stage \in {"pages", "persist", "metadata"} => e \notin open /\ remote # NoVault
      BY <1>2, <1>3 DEF BootFits
    <2>2. c.stage # "idle" => IsIdle(e)'
      BY <1>1, <2>1 DEF IsIdle
    <2>3. remote' = remote \/ remote = NoVault
      BY DEF Alone
    <2>4. c.stage \in {"save", "drain", "metadata"} => vault'[e] = remote'
      BY <1>1, <1>2, <2>1, <2>3
    <2>5. c.stage \in {"pages", "persist", "metadata"} => e \notin open' /\ remote' # NoVault
      BY <1>1, <2>1, <2>3
    <2> QED
      BY <1>1, <2>1, <2>2, <2>4, <2>5 DEF BootFits
  <1>6. e \in enabled' => vault'[e] = remote'
    BY <1>1, <1>2 DEF Alone
  <1>7. BootFits(e, boot[e])'
    BY <1>1, <1>3, <1>5 DEF BootFits
  <1> QED
    BY <1>1, <1>6, <1>7

\* What a device leaves behind after a step of its own.
LEMMA BootStep ==
  ASSUME BInv, CInv', backup' = backup, NEW d \in Device, NEW b \in Boot, NEW v \in Vault,
         Alone(d, b, v), remote' \in Vault,
         BootFits(d, b)', \A e \in Device : ReadIsTrue(boot[e])',
         d \in enabled' => d \in open' /\ v = remote',
         d \in open' => v # NoVault
  PROVE  BInv'
  <1>1. BootTypeOK /\ NeverBack /\ OpenHasVault
    BY DEF BInv
  <1>2. /\ boot' \in [Device -> Boot] /\ boot'[d] = b
        /\ vault' \in [Device -> Vault] /\ vault'[d] = v
        /\ open' \in SUBSET Device /\ enabled' \in SUBSET Device
    BY <1>1 DEF Alone, BootTypeOK
  <1>3. BootTypeOK'
    BY <1>2 DEF BootTypeOK, CInv
  <1>4. ASSUME NEW e \in Device
        PROVE  /\ e \in enabled' => e \in open' /\ vault'[e] = remote'
               /\ e \in open' => vault'[e] # NoVault
               /\ BootFits(e, boot[e])'
    <2>1. CASE e = d
      BY <1>2, <2>1 DEF BootFits
    <2>2. CASE e # d
      BY <1>1, <2>2, OtherBoots DEF OpenHasVault
    <2> QED
      BY <2>1, <2>2
  <1>5. OpenHasVault' /\ EnabledIsServed'
    BY <1>2, <1>4 DEF OpenHasVault, EnabledIsServed
  <1>6. NeverBack'
    BY <1>1 DEF NeverBack
  <1> QED
    BY <1>3, <1>4, <1>5, <1>6 DEF BInv

\* A step after which the server is what it was.
LEMMA QuietStep ==
  ASSUME BInv, CInv', UNCHANGED <<server, backup>>, NEW d \in Device, NEW b \in Boot,
         NEW v \in Vault, Alone(d, b, v), remote' \in Vault,
         BootFits(d, b)', ReadIsTrue(b),
         d \in enabled' => d \in open' /\ v = remote',
         d \in open' => v # NoVault
  PROVE  BInv'
  <1>1. ASSUME NEW e \in Device PROVE ReadIsTrue(boot[e])'
    <2>1. PICK c : c = boot'[e]
      OBVIOUS
    <2>2. ReadIsTrue(c)
      <3>1. CASE e = d
        BY <2>1, <3>1 DEF Alone, BInv, BootTypeOK
      <3>2. CASE e # d
        BY <2>1, <3>2, OtherBoots DEF BInv
      <3> QED
        BY <3>1, <3>2
    <2>3. ReadIsTrue(c)'
      BY <2>2, ReadStays
    <2> QED
      BY <2>1, <2>3 DEF ReadIsTrue, ReadSoFar, KnownIsTrue, Complete, OfRow
  <1> QED
    BY <1>1, BootStep

\* A step that pushes the first mutation of the device.
Pushes(d) ==
  /\ meta[d].outbox # <<>>
  /\ AlreadyApplied(Pending(d)) \/ Appliable(Pending(d))
  /\ ServerApplies(Pending(d))
  /\ made' = made

LEMMA PushStep ==
  ASSUME BInv, CInv', backup' = backup, NEW d \in Device, Pushes(d), NEW b \in Boot,
         NEW v \in Vault, Alone(d, b, v), remote' \in Vault,
         BootFits(d, b)', ReadIsTrue(b),
         d \in enabled' => d \in open' /\ v = remote',
         d \in open' => v # NoVault
  PROVE  BInv'
  <1>1. CInv /\ NeverBack /\ BootTypeOK
    BY DEF BInv
  <1>2. ASSUME NEW e \in Device PROVE ReadIsTrue(boot[e])'
    <2>1. PICK c : c = boot'[e]
      OBVIOUS
    <2>2. c \in Boot /\ ReadIsTrue(c)
      <3>1. CASE e = d
        BY <1>1, <2>1, <3>1 DEF Alone, BootTypeOK
      <3>2. CASE e # d
        BY <1>1, <2>1, <3>2, OtherBoots DEF BInv, BootTypeOK
      <3> QED
        BY <3>1, <3>2
    <2>3. ReadIsTrue(c)'
      BY <1>1, <2>2, ReadSurvives DEF Pushes
    <2> QED
      BY <2>1, <2>3 DEF ReadIsTrue, ReadSoFar, KnownIsTrue, Complete, OfRow
  <1> QED
    BY <1>2, BootStep

\* A device that goes on with its boot, or stops it.
LEMMA GoesOn ==
  ASSUME BInv, NEW d \in Device, NEW s \in BootStage,
         NEW b, b \in {NoBoot, [boot[d] EXCEPT !.stage = s]}
  PROVE  /\ b \in Boot /\ ReadIsTrue(b)
         /\ b.stage \in {"idle", s} /\ (b.stage # "idle" => b.stage = s)
  <1>1. CInv /\ NeverBack /\ UnwrittenAreNone /\ TypeOK /\ BootTypeOK /\ ReadIsTrue(boot[d])
    BY DEF BInv, CInv
  <1>2. CASE b = NoBoot
    BY <1>1, <1>2, NothingRead, NothingIsTrue
  <1>3. CASE b = [boot[d] EXCEPT !.stage = s]
    <2>1. b \in Boot /\ b.stage = s /\ b.cursor = boot[d].cursor /\ b.got = boot[d].got
      BY <1>1, <1>3 DEF BootTypeOK, Boot
    <2>2. ReadSoFar(b) = ReadSoFar(boot[d])
      BY <2>1 DEF ReadSoFar
    <2> QED
      BY <1>1, <2>1, <2>2 DEF ReadIsTrue
  <1> QED
    BY <1>2, <1>3

-----------------------------------------------------------------------------
(* What SyncClient does *)

LEMMA OthersAlone ==
  ASSUME CInv, NEW d \in Device, DeviceStep(d), NEW e \in Device, e # d
  PROVE  meta'[e] = meta[e] /\ job'[e] = job[e]
  <1>1. meta \in [Device -> Metadata] /\ job \in [Device -> Job]
    BY DEF CInv, TypeOK
  <1>2. CASE User(d) \/ Restart(d) \/ StartSync(d)
    BY <1>1, <1>2 DEF User, AddItem, UpdateItem, RemoveItem, Persist, Restart, StartSync
  <1>3. CASE DrainOne(d)
    BY <1>1, <1>3 DEF DrainOne
  <1>4. CASE DrainConflict(d)
    BY <1>1, <1>4 DEF DrainConflict, GiveUp
  <1>5. CASE PullPage(d)
    BY <1>1, <1>5 DEF PullPage, AfterPull
  <1>6. CASE ResetCursor(d) \/ SealPulled(d)
    BY <1>1, <1>6 DEF ResetCursor, SealPulled, AfterPull
  <1>7. CASE Enqueue(d)
    BY <1>1, <1>7 DEF Enqueue
  <1>8. CASE Resolve(d)
    <2>1. CASE \E r \in RecordId : KeepLocal(d, r)
      BY <1>1, <2>1 DEF KeepLocal
    <2>2. CASE \E r \in RecordId : UseRemote(d, r)
      BY <1>1, <2>2 DEF UseRemote
    <2>3. CASE SaveResolved(d)
      BY <1>1, <2>3 DEF SaveResolved
    <2> QED
      BY <1>8, <2>1, <2>2, <2>3 DEF Resolve
  <1>9. CASE Fault(d)
    BY <1>1, <1>9 DEF Fault, SyncFails, AnswerLost, ResolveFails, GiveUp
  <1> QED
    BY <1>2, <1>3, <1>4, <1>5, <1>6, <1>7, <1>8, <1>9 DEF DeviceStep, Sync

LEMMA ServerMoves ==
  ASSUME CInv, NEW d \in Device, DeviceStep(d)
  PROVE  server' = server \/ Pushes(d)
  <1>1. CASE User(d) \/ Restart(d) \/ StartSync(d)
    BY <1>1 DEF User, AddItem, UpdateItem, RemoveItem, Persist, Restart, StartSync
  <1>2. CASE DrainOne(d)
    <2>1. meta[d].outbox # <<>>
      BY <1>2, DrainingFacts DEF DrainOne
    <2> QED
      BY <1>2, <2>1 DEF DrainOne, Pushes
  <1>3. CASE Sync(d) /\ ~DrainOne(d)
    BY <1>3 DEF Sync, DrainConflict, PullPage, ResetCursor, SealPulled, Enqueue
  <1>4. CASE Resolve(d)
    BY <1>4 DEF Resolve, KeepLocal, UseRemote, SaveResolved
  <1>5. CASE AnswerLost(d)
    <2>1. meta[d].outbox # <<>>
      BY <1>5, DrainingFacts DEF AnswerLost
    <2> QED
      BY <1>5, <2>1 DEF AnswerLost, Pushes
  <1>6. CASE Fault(d) /\ ~AnswerLost(d)
    BY <1>6 DEF Fault, SyncFails, ResolveFails
  <1> QED
    BY <1>1, <1>2, <1>3, <1>4, <1>5, <1>6 DEF DeviceStep

LEMMA WorksKeeps == ASSUME BInv, NEW d \in Device, Works(d) PROVE BInv'
  <1>1. /\ DeviceStep(d) /\ d \in open /\ boot[d].stage = "idle"
        /\ UNCHANGED <<remote, vault, open, enabled, boot>>
    BY DEF Works, DeviceStep
  <1>2. CInv /\ BootTypeOK /\ OpenHasVault /\ EnabledIsServed /\ ReadIsTrue(boot[d])
    BY DEF BInv
  <1>3. CInv' /\ backup' = backup /\ (server' = server \/ Pushes(d))
    BY <1>1, <1>2, StepKeeps, BackupStays, ServerMoves
  <1>4. PICK b \in Boot, v \in Vault : b = boot[d] /\ v = vault[d]
    BY <1>2 DEF BootTypeOK
  <1>5. Alone(d, b, v)
    BY <1>1, <1>2, <1>4, OthersAlone DEF Alone, BootTypeOK
  <1>6. BootFits(d, b)'
    BY <1>1, <1>4 DEF BootFits
  <1>7. /\ remote' \in Vault /\ (d \in enabled' => d \in open' /\ v = remote')
        /\ (d \in open' => v # NoVault)
    BY <1>1, <1>2, <1>4 DEF BootTypeOK, OpenHasVault, EnabledIsServed
  <1>8. CASE server' = server
    BY <1>2, <1>3, <1>4, <1>5, <1>6, <1>7, <1>8, QuietStep
  <1>9. CASE Pushes(d)
    BY <1>2, <1>3, <1>4, <1>5, <1>6, <1>7, <1>9, PushStep
  <1> QED
    BY <1>3, <1>8, <1>9

-----------------------------------------------------------------------------
(* Steps that leave SyncClient alone *)

LEMMA WaitingKeeps ==
  ASSUME BInv, NEW d \in Device,
         EnableBegins(d) \/ CreateVault(d) \/ CreateAnswerLost(d) \/ RestoreBegins(d) \/ BootFails(d)
  PROVE  BInv'
  <1>1. UNCHANGED vars /\ UNCHANGED <<vault, open, enabled>>
        /\ remote' \in {remote, Insert(d)}
    BY DEF EnableBegins, CreateVault, CreateAnswerLost, RestoreBegins, BootFails
  <1>2. UNCHANGED <<server, backup, meta, job>>
    BY <1>1 DEF vars, deviceVars
  <1>3. CInv /\ TypeOK /\ BootTypeOK /\ OpenHasVault /\ EnabledIsServed /\ BootFits(d, boot[d])
    BY DEF BInv, CInv
  <1>4. CInv'
    BY <1>1, <1>3, Stutters
  <1>5. PICK s \in BootStage, b \in Boot :
          /\ boot' = [boot EXCEPT ![d] = b] /\ b \in {NoBoot, [boot[d] EXCEPT !.stage = s]}
          /\ \/ b.stage = "idle"
             \/ b.stage = "create" /\ EnableBegins(d)
             \/ b.stage = "save" /\ CreateVault(d) /\ remote' = vault[d]
             \/ b.stage = "pages" /\ RestoreBegins(d)
    <2>1. ASSUME NEW s \in BootStage
          PROVE  \A b \in {NoBoot, [boot[d] EXCEPT !.stage = s]} :
                   b \in Boot /\ b.stage \in {"idle", s} /\ (b.stage # "idle" => b.stage = s)
      BY GoesOn
    <2>2. {"idle", "create", "save", "pages"} \subseteq BootStage
      BY DEF BootStage
    <2>3. CASE Stops(d)
      BY <2>1, <2>2, <2>3, NothingRead DEF Stops
    <2>4. CASE EnableBegins(d)
      <3>1. boot' = [boot EXCEPT ![d] = [boot[d] EXCEPT !.stage = "create"]]
        BY <2>4 DEF EnableBegins, Proceeds
      <3> QED
        BY <2>1, <2>2, <2>4, <3>1
    <2>5. CASE CreateVault(d) /\ remote' = vault[d]
      <3>1. boot' = [boot EXCEPT ![d] = [boot[d] EXCEPT !.stage = "save"]]
        BY <2>5 DEF CreateVault, Proceeds
      <3> QED
        BY <2>1, <2>2, <2>5, <3>1
    <2>6. CASE RestoreBegins(d)
      <3>1. boot' = [boot EXCEPT ![d] = [boot[d] EXCEPT !.stage = "pages"]]
        BY <2>6 DEF RestoreBegins, Proceeds
      <3> QED
        BY <2>1, <2>2, <2>6, <3>1
    <2>7. CASE CreateVault(d) /\ remote' # vault[d]
      BY <2>3, <2>7 DEF CreateVault
    <2> QED
      BY <2>3, <2>4, <2>5, <2>6, <2>7 DEF CreateAnswerLost, BootFails
  <1>6. PICK v \in Vault : v = vault[d]
    BY <1>3 DEF BootTypeOK
  <1>7. b \in Boot /\ ReadIsTrue(b)
    BY <1>5, GoesOn
  <1>8. remote' \in Vault /\ (remote' = remote \/ remote = NoVault)
    BY <1>1, <1>3 DEF Insert, BootTypeOK
  <1>9. Alone(d, b, v)
    BY <1>1, <1>2, <1>3, <1>5, <1>6, <1>8 DEF Alone, BootTypeOK
  <1>10. /\ d \in open' => v # NoVault
         /\ d \in enabled' => d \in open' /\ v = remote'
    BY <1>1, <1>3, <1>6, <1>8 DEF OpenHasVault, EnabledIsServed
  <1>11. BootFits(d, b)'
    <2>1. CASE b.stage = "idle"
      BY <2>1 DEF BootFits
    <2>2. CASE b.stage = "create" /\ EnableBegins(d)
      BY <1>1, <1>2, <2>2 DEF BootFits, EnableBegins, Resting, IsIdle
    <2>3. CASE b.stage = "save" /\ CreateVault(d) /\ remote' = vault[d]
      BY <1>1, <1>2, <1>3, <2>3 DEF BootFits, CreateVault, IsIdle
    <2>4. CASE b.stage = "pages" /\ RestoreBegins(d)
      BY <1>1, <1>2, <2>4 DEF BootFits, RestoreBegins, Resting, IsIdle
    <2> QED
      BY <1>5, <2>1, <2>2, <2>3, <2>4
  <1> QED
    BY <1>2, <1>4, <1>7, <1>8, <1>9, <1>10, <1>11, QuietStep

\* A page of the feed, while other devices push between the pages.
LEMMA RestorePageKeeps == ASSUME BInv, NEW d \in Device, RestorePage(d) PROVE BInv'
  <1> DEFINE after == boot[d].cursor
             got == [r \in RecordId |-> IF r \in Page(after) THEN Got(d, r) ELSE boot[d].got[r]]
             stage == IF HasMore(after) THEN "pages" ELSE "persist"
             b == [stage |-> stage, cursor |-> NextCursor(after), got |-> got]
  <1>1. /\ boot[d].stage = "pages" /\ boot' = [boot EXCEPT ![d] = b]
        /\ UNCHANGED vars /\ UNCHANGED <<remote, vault, open, enabled>>
    BY DEF RestorePage
  <1>2. UNCHANGED <<server, backup, meta, job>>
    BY <1>1 DEF vars, deviceVars
  <1>3. /\ CInv /\ TypeOK /\ Ordered(server) /\ BootTypeOK /\ BootFits(d, boot[d])
        /\ ReadIsTrue(boot[d])
    BY DEF BInv, CInv
  <1>4. after \in Nat /\ server.cursor \in Nat /\ after <= server.cursor
    BY <1>3, BootPieces, ReadTyped, ServerTyped DEF ReadIsTrue, Complete
  <1>5. /\ NextCursor(after) \in Nat /\ NextCursor(after) <= server.cursor
        /\ \A r \in RecordId :
             server.rows[r].cursor > after /\ server.rows[r].cursor <= NextCursor(after)
               => r \in Page(after)
    BY <1>3, <1>4, PageFacts
  <1>6. \A r \in RecordId : /\ boot[d].got[r] \in Known /\ Got(d, r) \in Known
                            /\ Got(d, r).revision = server.rows[r].revision
                            /\ Got(d, r).local = server.rows[r].item
    BY <1>3, BootPieces, ServerTyped DEF Got, Known
  <1>7. got \in [RecordId -> Known]
        /\ \A r \in RecordId : got[r] = IF r \in Page(after) THEN Got(d, r) ELSE boot[d].got[r]
    BY <1>6
  <1>8. stage \in {"pages", "persist"} /\ stage \in BootStage
    BY DEF BootStage
  <1> HIDE DEF got, stage
  <1>9. b \in Boot /\ b.stage = stage /\ b.cursor = NextCursor(after) /\ b.got = got
    BY <1>5, <1>7, <1>8 DEF Boot
  <1> HIDE DEF b
  <1> DEFINE M == ReadSoFar(boot[d])
             N == ReadSoFar(b)
  <1>10. /\ M.cursor = after /\ M.known = boot[d].got /\ M.conflicts = {}
         /\ N.cursor = NextCursor(after) /\ N.known = got /\ N.conflicts = {}
    BY <1>3, <1>9, BootPieces, ReadTyped
  <1>11. KnownIsTrue(M) /\ Complete(M)
    BY <1>3 DEF ReadIsTrue
  <1> HIDE DEF M, N, after
  <1>12. KnownIsTrue(N)
    <2>1. ASSUME NEW r \in RecordId PROVE OfRow(r, got[r].revision, got[r].local)
      <3>1. CASE r \in Page(after)
        <4>1. got[r].revision = server.rows[r].revision /\ got[r].local = server.rows[r].item
          BY <1>6, <1>7, <3>1
        <4>2. server.rows[r].revision \in Nat
          BY <1>3, ServerTyped
        <4> QED
          BY <4>1, <4>2 DEF OfRow
      <3>2. CASE r \notin Page(after)
        BY <1>7, <1>10, <1>11, <3>2 DEF KnownIsTrue
      <3> QED
        BY <3>1, <3>2
    <2> QED
      BY <1>10, <2>1 DEF KnownIsTrue
  <1>13. Complete(N)
    <2>1. ASSUME NEW r \in RecordId, server.rows[r].cursor \in 1..NextCursor(after)
          PROVE  got[r] = [revision |-> server.rows[r].revision, local |-> server.rows[r].item]
      <3>1. CASE server.rows[r].cursor > after
        <4>1. r \in Page(after)
          BY <1>5, <2>1, <3>1
        <4> QED
          BY <1>7, <4>1 DEF Got
      <3>2. CASE ~(server.rows[r].cursor > after)
        <4>1. r \notin Page(after)
          BY <3>2 DEF Page, Fresh
        <4>2. server.rows[r].cursor \in 1..after
          BY <1>3, <1>4, <2>1, <3>2, ServerTyped
        <4> QED
          BY <1>7, <1>10, <1>11, <4>1, <4>2 DEF Complete
      <3> QED
        BY <3>1, <3>2
    <2> QED
      BY <1>5, <1>10, <2>1 DEF Complete
  <1>14. PICK c \in Boot, v \in Vault : c = b /\ v = vault[d]
    BY <1>3, <1>9 DEF BootTypeOK
  <1>15. Alone(d, c, v)
    BY <1>1, <1>2, <1>3, <1>14 DEF Alone, BootTypeOK
  <1>16. d \notin open' /\ d \notin enabled' /\ remote' \in Vault
    BY <1>1, <1>3 DEF BootFits, BInv, OpenHasVault, BootTypeOK
  <1>17. BootFits(d, c)'
    <2>1. IsIdle(d) /\ d \notin open /\ remote # NoVault
      BY <1>1, <1>3 DEF BootFits
    <2>2. c.stage \in {"pages", "persist"}
      BY <1>8, <1>9, <1>14
    <2> QED
      BY <1>1, <1>2, <2>1, <2>2 DEF BootFits, IsIdle
  <1>18. CInv' /\ ReadIsTrue(c)
    BY <1>1, <1>3, <1>12, <1>13, <1>14, Stutters DEF ReadIsTrue, N
  <1> QED
    BY <1>2, <1>15, <1>16, <1>17, <1>18, QuietStep

-----------------------------------------------------------------------------
(* Documents *)

\* A new vault, one that was restored, and what a page loaded again shows.
LEMMA DocumentsKeep ==
  ASSUME BInv, NEW d \in Device, CreateLocal(d) \/ RestorePersist(d) \/ Reload(d)
  PROVE  BInv'
  <1>1. /\ CInv /\ TypeOK /\ BootTypeOK /\ OpenHasVault /\ EnabledIsServed
        /\ BootFits(d, boot[d]) /\ ReadIsTrue(boot[d])
    BY DEF BInv, CInv
  <1>2. /\ IsIdle(d) /\ UNCHANGED <<server, backup, meta, job, made, edits, used, consent, torn>>
        /\ UNCHANGED <<remote, enabled>>
    BY <1>1 DEF CreateLocal, RestorePersist, Reload, Resting, BootFits, historyVars
  <1>3. /\ EmptyDocument \in Document /\ stored[d] \in Document /\ ui[d] \in Document
        /\ job[d] \in Job
    BY <1>1, Constants, Pieces DEF TypeOK
  <1>4. RestoredDocument(d) \in Document
    <2>1. \A r \in RecordId : boot[d].got[r].local \in Item
      BY <1>1, BootPieces DEF Known
    <2> QED
      BY <2>1 DEF RestoredDocument, Document
  <1>5. \E s, u \in Document : /\ stored' \in {stored, [stored EXCEPT ![d] = s]}
                               /\ ui' \in {ui, [ui EXCEPT ![d] = u]}
    BY <1>3, <1>4 DEF CreateLocal, RestorePersist, Reload
  <1>6. CInv'
    <2>1. job' = [job EXCEPT ![d] = job[d]] /\ job[d].stage = "idle"
      BY <1>1, <1>2 DEF TypeOK, IsIdle
    <2>2. /\ edits' \in 0..MaxEdits /\ used' \subseteq RecordId
          /\ consent' \in [RecordId -> SUBSET (Item \X Item)] /\ torn' \subseteq torn \cup {d}
      BY <1>1, <1>2 DEF TypeOK
    <2>3. JobFits(meta[d], job[d].stage) /\ ConflictsStay(meta[d], job[d].stage, job[d].doc)
      BY <2>1, IdleFits
    <2>4. PICK s \in Document, u \in Document : /\ stored' \in {stored, [stored EXCEPT ![d] = s]}
                                                /\ ui' \in {ui, [ui EXCEPT ![d] = u]}
      BY <1>5
    <2> QED
      BY <1>1, <1>2, <1>3, <2>1, <2>2, <2>3, <2>4, LocalStep
  <1>7. PICK b \in Boot, v \in Vault :
          /\ ReadIsTrue(b) /\ b.stage \in {"idle", "metadata"}
          /\ boot' = [boot EXCEPT ![d] = b] /\ vault' = [vault EXCEPT ![d] = v]
          /\ open' \in {open, open \cup {d}}
          /\ d \in open' => v # NoVault
          /\ d \in enabled => d \in open' /\ v = vault[d]
          /\ b.stage = "metadata" => d \notin open' /\ v = remote /\ remote # NoVault
    <2>1. vault[d] \in Vault /\ vault = [vault EXCEPT ![d] = vault[d]]
          /\ boot = [boot EXCEPT ![d] = boot[d]] /\ boot[d] \in Boot
          /\ (d \in enabled => d \in open) /\ (d \in open => vault[d] # NoVault)
      BY <1>1 DEF BootTypeOK, OpenHasVault
    <2>2. CASE CreateLocal(d)
      <3>1. d \in Vault /\ d # NoVault /\ d \notin open /\ boot[d].stage = "idle"
        BY <2>2, BootAssumption DEF Vault, CreateLocal, Resting
      <3> QED
        BY <1>1, <2>1, <2>2, <3>1 DEF CreateLocal
    <2>3. CASE RestorePersist(d)
      <3> DEFINE b == [boot[d] EXCEPT !.stage = "metadata"]
      <3>1. b \in Boot /\ ReadIsTrue(b) /\ b.stage = "metadata"
        <4>1. "metadata" \in BootStage
          BY DEF BootStage
        <4>2. b \in Boot /\ b.stage = "metadata" /\ b.cursor = boot[d].cursor /\ b.got = boot[d].got
          BY <2>1, <4>1 DEF Boot
        <4>3. ReadSoFar(b) = ReadSoFar(boot[d])
          BY <4>2 DEF ReadSoFar
        <4> QED
          BY <1>1, <4>2, <4>3 DEF ReadIsTrue
      <3>2. /\ boot' = [boot EXCEPT ![d] = b] /\ vault' = [vault EXCEPT ![d] = remote]
            /\ open' = open /\ boot[d].stage = "persist"
        BY <2>3 DEF RestorePersist, Proceeds
      <3>3. d \notin open /\ remote # NoVault /\ remote \in Vault
        BY <1>1, <3>2 DEF BootFits, BootTypeOK
      <3> HIDE DEF b
      <3> QED
        BY <2>1, <3>1, <3>2, <3>3
    <2>4. CASE Reload(d)
      <3>1. /\ boot' = [boot EXCEPT ![d] = NoBoot] /\ vault' = vault
            /\ open' = IF vault[d] = NoVault THEN open ELSE open \cup {d}
        BY <2>4 DEF Reload, Stops
      <3>2. NoBoot \in Boot /\ ReadIsTrue(NoBoot) /\ NoBoot.stage = "idle"
        BY <1>1, NothingRead, NothingIsTrue DEF BInv, CInv
      <3> QED
        BY <2>1, <3>1, <3>2
    <2> QED
      BY <2>2, <2>3, <2>4
  <1>8. Alone(d, b, v)
    BY <1>1, <1>2, <1>7 DEF Alone
  <1>9. BootFits(d, b)'
    BY <1>1, <1>2, <1>7 DEF BootFits, IsIdle, BootTypeOK
  <1>10. /\ remote' \in Vault /\ (d \in enabled' => d \in open' /\ v = remote')
         /\ (d \in open' => v # NoVault)
    BY <1>1, <1>2, <1>7 DEF BootTypeOK, EnabledIsServed
  <1> QED
    BY <1>2, <1>6, <1>7, <1>8, <1>9, <1>10, QuietStep

-----------------------------------------------------------------------------
(* Metadata *)

\* Metadata that an idle device saves.
LEMMA SavedKeeps ==
  ASSUME BInv, NEW d \in Device, IsIdle(d), NEW M \in Metadata, NEW n \in made[d]..MaxMutations,
         NumbersOwn(d, M, n), M.conflicts = {}, KnownIsTrue(M), Complete(M),
         \A i \in DOMAIN M.outbox : M.outbox[i].id \notin server.applied,
         meta' = [meta EXCEPT ![d] = M], made' = [made EXCEPT ![d] = n],
         UNCHANGED <<server, backup, stored, job, edits, used, consent, torn>>,
         NEW u \in Document, ui' \in {ui, [ui EXCEPT ![d] = u]}
  PROVE  CInv'
  <1>1. CInv /\ TypeOK /\ job[d].stage = "idle"
    BY DEF BInv, CInv, IsIdle
  <1>2. /\ job[d] \in Job /\ job' = [job EXCEPT ![d] = job[d]]
        /\ stored[d] \in Document /\ stored' \in {stored, [stored EXCEPT ![d] = stored[d]]}
        /\ edits' \in 0..MaxEdits /\ used' \subseteq RecordId
        /\ consent' \in [RecordId -> SUBSET (Item \X Item)] /\ torn' \subseteq torn \cup {d}
    BY <1>1, Pieces DEF TypeOK
  <1>3. JobFits(M, job[d].stage) /\ ConflictsStay(M, job[d].stage, job[d].doc)
    BY <1>1 DEF JobFits, ConflictsStay
  <1>4. AppliedIsAhead(M, job[d].stage)
    BY DEF AppliedIsAhead
  <1>5. DeviceInv(d, M, job[d], n)
    BY <1>3, <1>4 DEF DeviceInv
  <1> QED
    BY <1>1, <1>2, <1>3, <1>5, MetadataStep

LEMMA RestoreMetadataKeeps == ASSUME BInv, NEW d \in Device, RestoreMetadata(d) PROVE BInv'
  <1>1. /\ CInv /\ TypeOK /\ BootTypeOK /\ OpenHasVault
        /\ BootFits(d, boot[d]) /\ ReadIsTrue(boot[d])
    BY DEF BInv, CInv
  <1>2. /\ boot[d].stage = "metadata" /\ boot' = [boot EXCEPT ![d] = NoBoot]
        /\ meta' = [meta EXCEPT ![d] = RestoredMetadata(d)] /\ ui' = [ui EXCEPT ![d] = stored[d]]
        /\ enabled' = enabled \cup {d} /\ open' = open \cup {d}
        /\ UNCHANGED <<server, backup, stored, job, made, edits, used, consent, torn>>
        /\ UNCHANGED <<remote, vault>>
    BY DEF RestoreMetadata, Stops, historyVars
  <1>3. PICK M : M = ReadSoFar(boot[d])
    OBVIOUS
  <1>4. M \in Metadata /\ M.outbox = <<>> /\ M.conflicts = {} /\ KnownIsTrue(M) /\ Complete(M)
    BY <1>1, <1>3, BootPieces, ReadTyped DEF ReadIsTrue
  <1>5. meta' = [meta EXCEPT ![d] = M]
    BY <1>2, <1>3 DEF RestoredMetadata, ReadSoFar
  <1>6. /\ IsIdle(d) /\ d \notin open /\ vault[d] = remote /\ remote # NoVault
        /\ vault[d] \in Vault
    BY <1>1, <1>2 DEF BootFits, BootTypeOK
  <1>7. DOMAIN M.outbox = {}
    BY <1>4
  <1>8. CInv'
    <2>1. made[d] \in made[d]..MaxMutations /\ made' = [made EXCEPT ![d] = made[d]]
          /\ ui[d] \in Document /\ stored[d] \in Document
      BY <1>1, <1>2, Pieces, Constants DEF TypeOK
    <2>2. NumbersOwn(d, M, made[d])
      BY <1>7 DEF NumbersOwn
    <2>3. \A i \in DOMAIN M.outbox : M.outbox[i].id \notin server.applied
      BY <1>7
    <2> QED
      BY <1>2, <1>4, <1>5, <1>6, <2>1, <2>2, <2>3, SavedKeeps
  <1>9. PICK b \in Boot, v \in Vault : b = NoBoot /\ v = vault[d]
    BY <1>6, NothingRead
  <1>10. b.stage = "idle" /\ ReadIsTrue(b)
    BY <1>1, <1>9, NothingRead, NothingIsTrue DEF BInv, CInv
  <1>11. Alone(d, b, v)
    BY <1>1, <1>2, <1>9 DEF Alone, BootTypeOK, TypeOK
  <1>12. BootFits(d, b)'
    BY <1>10 DEF BootFits
  <1>13. remote' \in Vault /\ v = remote' /\ v # NoVault /\ d \in open'
    BY <1>1, <1>2, <1>6, <1>9 DEF BootTypeOK
  <1> QED
    BY <1>2, <1>8, <1>9, <1>10, <1>11, <1>12, <1>13, QuietStep

LEMMA SaveInitialKeeps == ASSUME BInv, NEW d \in Device, SaveInitial(d) PROVE BInv'
  <1> DEFINE S == InitialItems(d)
             c == Cardinality(S)
             n == made[d] + c
  <1>1. /\ CInv /\ TypeOK /\ BootTypeOK /\ OpenHasVault /\ BootFits(d, boot[d])
        /\ AppliedWereMade /\ UnwrittenAreNone
    BY DEF BInv, CInv
  <1>2. IsFiniteSet(S) /\ S \subseteq RecordId /\ c \in Nat
    <2>1. S \subseteq RecordId
      BY DEF InitialItems
    <2> QED
      BY <2>1, Constants, FS_Subset, FS_CardinalityType
  <1>3. PICK order \in Orders(S) :
          meta' = [meta EXCEPT ![d] =
            [cursor |-> 0, conflicts |-> {}, known |-> [r \in RecordId |-> NoRecord],
             outbox |-> [i \in DOMAIN order |->
               [id |-> <<d, made[d] + i>>, record |-> order[i], base |-> 0,
                item |-> ui[d][order[i]]]]]]
    BY DEF SaveInitial
  <1> DEFINE Queued(i) == [id |-> <<d, made[d] + i>>, record |-> order[i], base |-> 0,
                           item |-> ui[d][order[i]]]
             outbox == [i \in DOMAIN order |-> Queued(i)]
             known == [r \in RecordId |-> NoRecord]
             N == [cursor |-> 0, conflicts |-> {}, known |-> known, outbox |-> outbox]
  <1>4. /\ boot[d].stage = "save" /\ n <= MaxMutations
        /\ meta' = [meta EXCEPT ![d] = N] /\ made' = [made EXCEPT ![d] = n]
        /\ enabled' = enabled \cup {d}
        /\ IF S = {} THEN Stops(d) ELSE Proceeds(d, "drain")
        /\ UNCHANGED <<server, backup, stored, ui, job, edits, used, consent, torn>>
        /\ UNCHANGED <<remote, vault, open>>
    BY <1>3 DEF SaveInitial, historyVars
  <1>5. order \in [1..c -> S] /\ (S = {} <=> c = 0)
    BY <1>2, OrderFacts, FS_EmptySet
  <1>6. made[d] \in Nat /\ n \in made[d]..MaxMutations
    <2>1. made[d] \in Nat /\ n <= MaxMutations /\ MaxMutations \in Nat
      BY <1>1, <1>4, Pieces, Constants
    <2> HIDE DEF c
    <2> QED
      BY <1>2, <2>1
  <1>7. \A i \in 1..c : made[d] + i \in Nat /\ made[d] + i \in 1..n
    BY <1>2, <1>6
  <1>8. ASSUME NEW i \in 1..c PROVE Queued(i) \in Mutation
    <2>1. order[i] \in RecordId
      BY <1>2, <1>5
    <2>2. ui[d][order[i]] \in Item
      BY <1>1, <2>1, Elements
    <2>3. <<d, made[d] + i>> \in MutationId
      BY <1>7 DEF MutationId
    <2> QED
      BY <2>1, <2>2, <2>3 DEF Mutation
  <1>9. /\ DOMAIN outbox = 1..c /\ outbox \in Seq(Mutation) /\ Len(outbox) = c
        /\ \A i \in 1..c : outbox[i].id = <<d, made[d] + i>>
    <2>1. outbox \in [1..c -> Mutation] /\ \A i \in 1..c : outbox[i] = Queued(i)
      BY <1>5, <1>8
    <2>2. \A i \in 1..c : Queued(i).id = <<d, made[d] + i>>
      OBVIOUS
    <2> HIDE DEF outbox, Queued, c
    <2>3. outbox \in Seq(Mutation) /\ DOMAIN outbox = 1..c
      BY <1>2, <2>1 DEF c
    <2>4. Len(outbox) = c
      BY <1>2, <2>1, <2>3, LenProperties DEF c
    <2> QED
      BY <2>1, <2>2, <2>3, <2>4
  <1>10. known \in [RecordId -> Known]
         /\ \A r \in RecordId : known[r].revision = 0 /\ known[r].local = None
    BY Constants DEF NoRecord, Known
  <1> HIDE DEF outbox, Queued, known
  <1>11. PICK M \in Metadata : M = N
    BY <1>9, <1>10 DEF Metadata
  <1>12. M.cursor = 0 /\ M.conflicts = {} /\ M.known = known /\ M.outbox = outbox
    BY <1>11
  <1> HIDE DEF N
  <1>13. KnownIsTrue(M)
    BY <1>1, <1>10, <1>12 DEF KnownIsTrue, UnwrittenAreNone
  <1>14. Complete(M)
    BY <1>1, <1>12, ServerTyped DEF Complete
  <1>15. NumbersOwn(d, M, n)
    <2>1. \A i \in 1..c : outbox[i].id[1] = d /\ outbox[i].id[2] = made[d] + i
      BY <1>9
    <2>2. \A i, j \in 1..c : made[d] + i = made[d] + j => i = j
      BY <1>2, <1>6
    <2> HIDE DEF n, c
    <2>3. \A i \in DOMAIN M.outbox : M.outbox[i].id[1] = d /\ M.outbox[i].id[2] \in 1..n
      BY <1>7, <1>9, <1>12, <2>1
    <2>4. \A i, j \in DOMAIN M.outbox : M.outbox[i].id = M.outbox[j].id => i = j
      BY <1>9, <1>12, <2>1, <2>2
    <2> QED
      BY <2>3, <2>4 DEF NumbersOwn
  <1>16. \A i \in DOMAIN M.outbox : M.outbox[i].id \notin server.applied
    <2>1. ASSUME NEW i \in 1..c PROVE outbox[i].id \notin server.applied
      <3>1. made[d] + i > made[d]
        BY <1>6
      <3> QED
        BY <1>1, <1>6, <1>9, <3>1 DEF AppliedWereMade
    <2> QED
      BY <1>9, <1>12, <2>1
  <1>17. IsIdle(d) /\ d \in open /\ vault[d] = remote /\ vault[d] # NoVault
    BY <1>1, <1>4 DEF BootFits, OpenHasVault
  <1>18. CInv'
    <2>1. ui[d] \in Document /\ ui' \in {ui, [ui EXCEPT ![d] = ui[d]]}
      BY <1>1, <1>4, Pieces
    <2> HIDE DEF n
    <2> QED
      BY <1>4, <1>6, <1>11, <1>12, <1>13, <1>14, <1>15, <1>16, <1>17, <2>1, SavedKeeps
  <1>19. "drain" \in BootStage
    BY DEF BootStage
  <1>20. PICK b : /\ b \in {NoBoot, [boot[d] EXCEPT !.stage = "drain"]}
                  /\ boot' = [boot EXCEPT ![d] = b] /\ (S = {} => b = NoBoot)
    BY <1>4 DEF Stops, Proceeds
  <1>21. b \in Boot /\ ReadIsTrue(b) /\ b.stage \in {"idle", "drain"}
    BY <1>19, <1>20, GoesOn
  <1>22. PICK v \in Vault : v = vault[d]
    BY <1>1 DEF BootTypeOK
  <1>23. Alone(d, b, v)
    BY <1>1, <1>4, <1>20, <1>22 DEF Alone, BootTypeOK, TypeOK
  <1>24. BootFits(d, b)'
    <2>1. meta'[d].conflicts = {} /\ meta'[d].outbox = outbox
      BY <1>1, <1>4, <1>11, <1>12 DEF TypeOK
    <2>2. b.stage = "drain" => outbox # <<>>
      <3>1. S # {} => outbox # <<>>
        BY <1>5, <1>9, EmptySeq
      <3> QED
        BY <1>20, <3>1, NothingRead
    <2> QED
      BY <1>4, <1>17, <1>21, <2>1, <2>2 DEF BootFits, IsIdle
  <1>25. remote' \in Vault /\ v = remote' /\ v # NoVault /\ d \in open'
    BY <1>1, <1>4, <1>17, <1>22 DEF BootTypeOK
  <1> QED
    BY <1>4, <1>18, <1>21, <1>23, <1>24, <1>25, QuietStep

-----------------------------------------------------------------------------
(* The first upload *)

\* A turn of the upload, whether the device learns of the answer or not.
LEMMA UploadKeeps ==
  ASSUME BInv, NEW d \in Device, DrainInitial(d) \/ DrainAnswerLost(d)
  PROVE  BInv'
  <1>1. CInv /\ TypeOK /\ BootTypeOK /\ OpenHasVault /\ BootFits(d, boot[d])
    BY DEF BInv, CInv
  <1>2. PICK m, rest : m = Pending(d) /\ rest = Tail(meta[d].outbox)
    OBVIOUS
  <1>3. /\ boot[d].stage = "drain" /\ UNCHANGED <<backup, stored, ui, job, made>>
        /\ UNCHANGED <<edits, used, consent, torn, remote, vault, open, enabled>>
        /\ AlreadyApplied(m) \/ Appliable(m)
        /\ ServerApplies(m)
    BY <1>2 DEF DrainInitial, DrainAnswerLost, historyVars, deviceVars
  <1>4. /\ IsIdle(d) /\ d \in open /\ vault[d] = remote /\ vault[d] # NoVault
        /\ meta[d].outbox # <<>> /\ meta[d].conflicts = {}
    BY <1>1, <1>3 DEF BootFits, OpenHasVault
  <1>5. Pushes(d)
    BY <1>2, <1>3, <1>4 DEF Pushes
  <1>6. /\ job[d] \in Job /\ job[d].stage = "idle" /\ job' = [job EXCEPT ![d] = job[d]]
        /\ torn' \subseteq torn \cup {d} /\ "drain" \in BootStage
    BY <1>1, <1>3, <1>4 DEF TypeOK, IsIdle, BootStage
  <1>7. /\ CInv'
        /\ \A e \in Device \ {d} : meta'[e] = meta[e]
        /\ \E b \in {NoBoot, [boot[d] EXCEPT !.stage = "drain"]} :
             /\ boot' = [boot EXCEPT ![d] = b]
             /\ b = NoBoot \/ (meta'[d].outbox # <<>> /\ meta'[d].conflicts = {})
    <2>1. CASE DrainAnswerLost(d)
      <3>1. UNCHANGED meta /\ Appliable(Pending(d)) /\ ServerApplies(Pending(d)) /\ Stops(d)
        BY <2>1 DEF DrainAnswerLost, deviceVars
      <3>2. CInv'
        BY <1>1, <1>3, <1>4, <1>6, <3>1, LostKeeps
      <3> QED
        BY <3>1, <3>2 DEF Stops
    <2>2. CASE DrainInitial(d)
      <3>1. Drained(d, m, rest) /\ IF rest = <<>> THEN Stops(d) ELSE Proceeds(d, "drain")
        BY <1>2, <2>2 DEF DrainInitial, Drained
      <3>2. CInv'
        BY <1>1, <1>3, <1>4, <1>6, <3>1, DrainedKeeps
      <3>3. /\ \A e \in Device \ {d} : meta'[e] = meta[e]
            /\ meta'[d].outbox = rest /\ meta'[d].conflicts = {}
        <4>1. meta \in [Device -> Metadata] /\ meta[d] \in Metadata
          BY <1>1 DEF TypeOK
        <4>2. PICK known : known = [revision |-> m.base + 1, local |-> m.item]
          OBVIOUS
        <4>3. meta' = [meta EXCEPT ![d] = [meta[d] EXCEPT !.known[m.record] = known,
                                                         !.outbox = rest]]
          BY <3>1, <4>2 DEF Drained
        <4>4. PICK M : M = [meta[d] EXCEPT !.known[m.record] = known, !.outbox = rest]
          OBVIOUS
        <4>5. M.outbox = rest /\ M.conflicts = {}
          BY <1>4, <4>1, <4>4 DEF Metadata
        <4> QED
          BY <4>1, <4>3, <4>4, <4>5
      <3> QED
        BY <3>1, <3>2, <3>3 DEF Stops, Proceeds
    <2> QED
      BY <2>1, <2>2
  <1>8. PICK b \in {NoBoot, [boot[d] EXCEPT !.stage = "drain"]} :
          /\ boot' = [boot EXCEPT ![d] = b]
          /\ b = NoBoot \/ (meta'[d].outbox # <<>> /\ meta'[d].conflicts = {})
    BY <1>7
  <1>9. b \in Boot /\ ReadIsTrue(b) /\ b.stage \in {"idle", "drain"}
    BY <1>6, <1>8, GoesOn
  <1>10. PICK v \in Vault : v = vault[d]
    BY <1>1 DEF BootTypeOK
  <1>11. Alone(d, b, v)
    BY <1>1, <1>3, <1>7, <1>8, <1>10 DEF Alone, BootTypeOK
  <1>12. BootFits(d, b)'
    BY <1>3, <1>4, <1>8, <1>9, NothingRead DEF BootFits, IsIdle
  <1>13. remote' \in Vault /\ v = remote' /\ v # NoVault /\ d \in open'
    BY <1>1, <1>3, <1>4, <1>10 DEF BootTypeOK
  <1> QED
    BY <1>3, <1>5, <1>7, <1>9, <1>11, <1>12, <1>13, PushStep

-----------------------------------------------------------------------------
(* The theorems *)

LEMMA AtFirst == BootInit => BInv
  <1> SUFFICES ASSUME BootInit PROVE BInv
    OBVIOUS
  <1>1. CInv /\ TypeOK /\ NeverBack
    BY Initially DEF BootInit, Init, NeverBack, CInv
  <1>2. /\ remote = NoVault /\ vault = [d \in Device |-> NoVault]
        /\ open = {} /\ enabled = {} /\ boot = [d \in Device |-> NoBoot]
    BY DEF BootInit
  <1>3. BootTypeOK
    BY <1>1, <1>2, NothingRead DEF BootTypeOK, Vault
  <1>4. ReadIsTrue(NoBoot)
    BY <1>1, NothingIsTrue DEF CInv
  <1>5. ASSUME NEW d \in Device PROVE BootFits(d, boot[d]) /\ ReadIsTrue(boot[d])
    <2>1. boot[d] = NoBoot /\ boot[d].stage = "idle"
      BY <1>2, NothingRead
    <2> QED
      BY <1>4, <2>1 DEF BootFits
  <1> QED
    BY <1>1, <1>2, <1>3, <1>5 DEF BInv, OpenHasVault, EnabledIsServed

LEMMA Idles == ASSUME BInv, UNCHANGED bootVars PROVE BInv'
  <1>1. UNCHANGED vars /\ UNCHANGED <<remote, vault, open, enabled, boot>>
        /\ UNCHANGED <<server, backup, meta, job>>
    BY DEF bootVars, vars, deviceVars
  <1>2. CInv'
    BY <1>1, Stutters DEF BInv
  <1>3. NeverBack' /\ OpenHasVault' /\ EnabledIsServed' /\ BootTypeOK'
    BY <1>1, <1>2 DEF BInv, NeverBack, OpenHasVault, EnabledIsServed, BootTypeOK, CInv
  <1>4. ASSUME NEW d \in Device PROVE BootFits(d, boot[d])' /\ ReadIsTrue(boot[d])'
    BY <1>1 DEF BInv, BootFits, IsIdle, ReadIsTrue, ReadSoFar, KnownIsTrue, Complete, OfRow
  <1> QED
    BY <1>2, <1>3, <1>4 DEF BInv

LEMMA BootInvariance == BootSpec => []BInv
  <1>1. ASSUME BInv, [BootNext]_bootVars PROVE BInv'
    <2>1. ASSUME NEW d \in Device,
                 CreateLocal(d) \/ Enable(d) \/ RestoreVault(d) \/ BootFault(d) \/ Works(d)
          PROVE  BInv'
      <3>1. CASE EnableBegins(d) \/ CreateVault(d) \/ CreateAnswerLost(d) \/ RestoreBegins(d)
                 \/ BootFails(d)
        BY <1>1, <3>1, WaitingKeeps
      <3>2. CASE RestorePage(d)
        BY <1>1, <3>2, RestorePageKeeps
      <3>3. CASE CreateLocal(d) \/ RestorePersist(d) \/ Reload(d)
        BY <1>1, <3>3, DocumentsKeep
      <3>4. CASE SaveInitial(d)
        BY <1>1, <3>4, SaveInitialKeeps
      <3>5. CASE RestoreMetadata(d)
        BY <1>1, <3>5, RestoreMetadataKeeps
      <3>6. CASE DrainInitial(d) \/ DrainAnswerLost(d)
        BY <1>1, <3>6, UploadKeeps
      <3>7. CASE Works(d)
        BY <1>1, <3>7, WorksKeeps
      <3> QED
        BY <2>1, <3>1, <3>2, <3>3, <3>4, <3>5, <3>6, <3>7 DEF Enable, RestoreVault, BootFault
    <2>2. CASE UNCHANGED bootVars
      BY <1>1, <2>2, Idles
    <2> QED
      BY <1>1, <2>1, <2>2 DEF BootNext
  <1> QED
    BY <1>1, AtFirst, PTL DEF BootSpec

\* Whatever is enabled and restored at once, and whatever fails, the parts of
\* the state are what the code stores: in particular a boot's records and cursor
\* can become metadata.
THEOREM BootTyped == BootSpec => []BootTypeOK
  <1>1. BInv => BootTypeOK
    BY DEF BInv
  <1> QED
    BY <1>1, BootInvariance, PTL

\* enableEncryptedSync and restoreFromSync give metadata only to a device whose
\* vault is that of the account, in every order of any number of devices: the
\* page that shows a vault restores none, so the vault under the metadata of a
\* device never changes, and the server gives an account one vault, once.
THEOREM EnabledAreServed == BootSpec => []EnabledIsServed
  <1>1. BInv => EnabledIsServed
    BY DEF BInv
  <1> QED
    BY <1>1, BootInvariance, PTL

\* MetadataIsComplete from the first local vault on: neither the metadata that
\* enableEncryptedSync starts with nor those that restoreFromSync makes from
\* pages read while others pushed claim a row they do not know.
THEOREM BootMetadataComplete == BootSpec => []MetadataComplete
  <1>1. ASSUME BInv PROVE MetadataComplete
    <2>1. \A d \in Device : Complete(meta[d])
      BY <1>1 DEF BInv, CInv, DeviceInv
    <2> QED
      BY <2>1 DEF Complete, MetadataComplete
  <1> QED
    BY <1>1, BootInvariance, PTL
=============================================================================
