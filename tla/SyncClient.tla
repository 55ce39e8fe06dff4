------------------------------ MODULE SyncClient ------------------------------
(***************************************************************************)
(* Devices that synchronize one vault: syncNow, pullRemote,                *)
(* enqueueLocalChanges, drainOutbox and resolveSyncConflict, with the user *)
(* who edits between syncs and the app that holds the open document.       *)
(*                                                                         *)
(* A device keeps two durable stores that have no common transaction: the  *)
(* sealed document in localStorage (stored) and the sync metadata in       *)
(* IndexedDB (meta).  The app works on a third copy in memory (ui).  A     *)
(* sync is a job of several awaited steps; each of them may fail, the page *)
(* may be closed between any two, and the other devices run meanwhile.     *)
(* The metadata a job works on equals the saved metadata between steps,    *)
(* because every change of it is saved before the next request.            *)
(*                                                                         *)
(* The server is the log SyncStore implements: a request takes effect at   *)
(* once, and its answer may be lost.                                       *)
(*                                                                         *)
(* An item is the number of the edit that made it, which stands for its    *)
(* content and its updatedAt: edits are assumed to differ in updatedAt.    *)
(***************************************************************************)
EXTENDS Integers, Sequences, FiniteSets

CONSTANTS
  Device,
  RecordId,
  PageLimit,      \* changes per page
  MaxEdits,       \* bound: edits and deletions by all users
  MaxMutations,   \* bound: mutations a device creates
  Faults          \* what may go wrong: "network", "storage", "crash", "restore"

None == 0             \* no item in a document, a tombstone on the server
Item == 0..MaxEdits   \* None, or the edit that wrote the item

ASSUME ConstantsAssumption ==
  /\ IsFiniteSet(RecordId)
  /\ PageLimit \in Nat \ {0}
  /\ MaxEdits \in Nat
  /\ MaxMutations \in Nat
  /\ Faults \subseteq {"network", "storage", "crash", "restore"}

VARIABLES
  server,    \* the vault: its cursor, its rows, the ids of applied mutations
  backup,    \* the state of the server an operator may restore
  stored,    \* per device, the sealed document
  meta,      \* per device, the saved sync metadata
  ui,        \* per device, the document the app shows and edits
  job,       \* per device, the running sync or conflict resolution
  made,      \* per device, mutations created: the next mutation id
  edits,     \* edits made by all users
  used,      \* record ids that have been given to an item
  consent,   \* history: per record, the pairs <<old, new>> a user replaced
  torn       \* history: devices whose documents fell behind their metadata

deviceVars == <<stored, meta, ui, job, made>>
historyVars == <<edits, used, consent>>
vars == <<server, backup, deviceVars, historyVars, torn>>

-----------------------------------------------------------------------------
Document == [RecordId -> Item]
MutationId == Device \X Nat

\* baseRevision and record of a pending mutation; its revision is base + 1.
Mutation == [id : MutationId, record : RecordId, base : Nat, item : Item]

\* What metadata.records says of a record: revision 0 is no state, and a state
\* is tombstoned exactly when its localUpdatedAt is null.
Known == [revision : Nat, local : Item]
Conflict == [record : RecordId, revision : Nat, item : Item]

Server ==
  [cursor : Nat, applied : SUBSET MutationId,
   rows : [RecordId -> [revision : Nat, cursor : Nat, item : Item]]]

Metadata ==
  [cursor : Nat, known : [RecordId -> Known], outbox : Seq(Mutation),
   conflicts : SUBSET Conflict]

Stage == {"idle", "replay", "conflict", "first", "enqueue", "push", "second",
          "resolve"}

\* doc is the document of the job, changed whether the pull under way changed
\* it, sealing whether that document is about to be sealed.
Job == [stage : Stage, doc : Document, changed : BOOLEAN, sealing : BOOLEAN,
        record : RecordId \cup {None}]

EmptyDocument == [r \in RecordId |-> None]
Idle == [stage |-> "idle", doc |-> EmptyDocument, changed |-> FALSE,
         sealing |-> FALSE, record |-> None]

TypeOK ==
  /\ server \in Server /\ backup \in Server
  /\ stored \in [Device -> Document]
  /\ meta \in [Device -> Metadata]
  /\ ui \in [Device -> Document]
  /\ job \in [Device -> Job]
  /\ made \in [Device -> 0..MaxMutations]
  /\ edits \in 0..MaxEdits
  /\ used \in SUBSET RecordId
  /\ consent \in [RecordId -> SUBSET (Item \X Item)]
  /\ torn \in SUBSET Device

NewServer ==
  [cursor |-> 0, applied |-> {},
   rows |-> [r \in RecordId |-> [revision |-> 0, cursor |-> 0, item |-> None]]]

\* Sync was enabled for an empty vault on one device and restored on the others.
Init ==
  /\ server = NewServer /\ backup = NewServer
  /\ stored = [d \in Device |-> EmptyDocument]
  /\ meta = [d \in Device |->
       [cursor |-> 0, outbox |-> <<>>, conflicts |-> {},
        known |-> [r \in RecordId |-> [revision |-> 0, local |-> None]]]]
  /\ ui = [d \in Device |-> EmptyDocument]
  /\ job = [d \in Device |-> Idle]
  /\ made = [d \in Device |-> 0]
  /\ edits = 0 /\ used = {}
  /\ consent = [r \in RecordId |-> {}]
  /\ torn = {}

IsIdle(d) == job[d].stage = "idle"
Broken(fault) == Faults \cap fault # {}

-----------------------------------------------------------------------------
(* The user and the app.  The app refuses edits, resolutions and a second    *)
(* sync while a job runs.                                                    *)

\* new replaces old, and whatever old had replaced, knowingly.
Replaces(r, old, new) ==
  [consent EXCEPT ![r] = @ \cup {<<old, new>>} \cup
     {<<w[1], new>> : w \in {w \in @ : w[2] = old}}]

\* persist: the new document is sealed, then shown; a failing save changes
\* nothing.
Persist(d, doc) ==
  /\ IsIdle(d)
  /\ edits < MaxEdits
  /\ edits' = edits + 1
  /\ stored' = [stored EXCEPT ![d] = doc]
  /\ ui' = [ui EXCEPT ![d] = doc]
  /\ UNCHANGED <<server, backup, meta, job, made, torn>>

\* addVaultItem: a new item has a new random id.
AddItem(d, r) ==
  /\ r \notin used
  /\ used' = used \cup {r}
  /\ Persist(d, [ui[d] EXCEPT ![r] = edits + 1])
  /\ consent' = Replaces(r, None, edits + 1)

UpdateItem(d, r) ==
  /\ ui[d][r] # None
  /\ Persist(d, [ui[d] EXCEPT ![r] = edits + 1])
  /\ consent' = Replaces(r, ui[d][r], edits + 1)
  /\ UNCHANGED used

RemoveItem(d, r) ==
  /\ ui[d][r] # None
  /\ Persist(d, [ui[d] EXCEPT ![r] = None])
  /\ consent' = Replaces(r, ui[d][r], None)
  /\ UNCHANGED used

\* The vault is locked and unlocked, or the page is closed in the middle of a
\* job and opened again: the app shows the sealed document.
Restart(d) ==
  /\ IsIdle(d) => ui[d] # stored[d]
  /\ ~IsIdle(d) => Broken({"crash"})
  /\ ui' = [ui EXCEPT ![d] = stored[d]]
  /\ job' = [job EXCEPT ![d] = Idle]
  /\ torn' = IF job[d].stage \notin {"idle", "resolve"} /\ job[d].doc # stored[d]
             THEN torn \cup {d} ELSE torn
  /\ UNCHANGED <<server, backup, stored, meta, made, historyVars>>

-----------------------------------------------------------------------------
(* syncNow *)

\* With conflicts recorded the sync returns at once, which changes nothing.
StartSync(d) ==
  /\ IsIdle(d)
  /\ meta[d].conflicts = {}
  /\ job' = [job EXCEPT ![d] =
       [Idle EXCEPT !.stage = IF meta[d].outbox = <<>> THEN "first" ELSE "replay",
                    !.doc = ui[d]]]
  /\ UNCHANGED <<server, backup, stored, meta, ui, made, historyVars, torn>>

\* The error reaches the caller, which keeps the document it had.
GiveUp(d) ==
  /\ job' = [job EXCEPT ![d] = Idle]
  /\ torn' = IF job[d].doc \in {ui[d], stored[d]} /\ ui[d] = stored[d] THEN torn
             ELSE torn \cup {d}

\* Variant: the head of the outbox is dropped before it is pushed.
SyncFailsAfterShift(d) ==
  /\ job[d].stage \in {"replay", "push"}
  /\ Broken({"network"})
  /\ GiveUp(d)
  /\ meta' = [meta EXCEPT ![d].outbox = Tail(@)]
  /\ UNCHANGED <<server, backup, stored, ui, made, historyVars>>

\* A request or a save fails before it changes anything.
SyncFails(d) ==
  /\ job[d].stage \notin {"idle", "resolve"}
  /\ Broken({"storage"}) \/ (Broken({"network"}) /\ ~job[d].sealing
                             /\ job[d].stage # "enqueue")
  /\ GiveUp(d)
  /\ UNCHANGED <<server, backup, stored, meta, ui, made, historyVars>>

Draining(d) == job[d].stage \in {"replay", "push"}
Pending(d) == Head(meta[d].outbox)

\* The server's answer to one mutation: it applies it, it knows it already, or
\* the base revision is stale.
AlreadyApplied(m) == m.id \in server.applied
Appliable(m) == ~AlreadyApplied(m) /\ server.rows[m.record].revision = m.base

ServerApplies(m) ==
  server' =
    IF AlreadyApplied(m) THEN server
    ELSE [cursor |-> server.cursor + 1,
          applied |-> server.applied \cup {m.id},
          rows |-> [server.rows EXCEPT ![m.record] =
                      [revision |-> m.base + 1, cursor |-> server.cursor + 1,
                       item |-> m.item]]]

\* drainOutbox, one turn: push the head, note its revision, shift, save.  An
\* empty outbox is followed by the first or the second pull.
DrainOne(d) ==
  LET m == Pending(d)
      rest == Tail(meta[d].outbox) IN
  /\ Draining(d)
  /\ AlreadyApplied(m) \/ Appliable(m)
  /\ ServerApplies(m)
  /\ meta' = [meta EXCEPT
       ![d].known[m.record] = [revision |-> m.base + 1, local |-> m.item],
       ![d].outbox = rest]
  /\ job' = [job EXCEPT ![d].stage =
       IF rest # <<>> THEN @ ELSE IF @ = "replay" THEN "first" ELSE "second"]
  /\ UNCHANGED <<backup, stored, ui, made, historyVars, torn>>

\* The server takes the mutation, the device does not learn of it.
AnswerLost(d) ==
  /\ Draining(d)
  /\ Broken({"network", "storage", "crash"})
  /\ Appliable(Pending(d))
  /\ ServerApplies(Pending(d))
  /\ GiveUp(d)
  /\ UNCHANGED <<backup, stored, meta, ui, made, historyVars>>

\* revision_conflict: while old mutations are replayed it leads to a pull, later
\* it is an error.
DrainConflict(d) ==
  /\ Draining(d)
  /\ ~AlreadyApplied(Pending(d)) /\ ~Appliable(Pending(d))
  /\ \/ /\ job[d].stage = "replay"
        /\ job' = [job EXCEPT ![d].stage = "conflict"]
        /\ UNCHANGED torn
     \/ /\ job[d].stage = "push"
        /\ GiveUp(d)
  /\ UNCHANGED <<server, backup, stored, meta, ui, made, historyVars>>

-----------------------------------------------------------------------------
(* pullRemote *)

Pulling(d) == job[d].stage \in {"first", "second", "conflict"} /\ ~job[d].sealing

Fresh(after) == {r \in RecordId : server.rows[r].cursor > after}
Page(after) ==
  {r \in Fresh(after) :
     Cardinality({q \in Fresh(after) :
       server.rows[q].cursor <= server.rows[r].cursor}) <= PageLimit}
HasMore(after) == Page(after) # Fresh(after)

\* Variant: the client jumps to the end of the feed with the first page.
LastCursor(after) == server.cursor

NextCursor(after) ==
  IF HasMore(after)
  THEN CHOOSE n \in {server.rows[r].cursor : r \in Page(after)} :
         \A r \in Page(after) : server.rows[r].cursor <= n
  ELSE server.cursor

\* pendingForRecord or hasLocalChange
PendingFor(m, r) == \E i \in DOMAIN m.outbox : m.outbox[i].record = r
HasLocalChange(doc, m, r) == doc[r] # m.known[r].local

\* Variant: only queued changes count as local.
OnlyPending(doc, m, r) == PendingFor(m, r)

Conflicting(doc, m, r) == PendingFor(m, r) \/ HasLocalChange(doc, m, r)

\* The records of a page that are taken over; the others become conflicts,
\* unless that revision is recorded as one already.
Taken(d) ==
  {r \in Page(meta[d].cursor) : ~Conflicting(job[d].doc, meta[d], r)}

\* Variant: a record with a queued mutation needs no conflict.
ConflictsUnlessPending(d) ==
  {[record |-> r, revision |-> server.rows[r].revision,
    item |-> server.rows[r].item] :
     r \in {r \in Page(meta[d].cursor) \ Taken(d) : ~PendingFor(meta[d], r)}}

NewConflicts(d) ==
  {[record |-> r, revision |-> server.rows[r].revision,
    item |-> server.rows[r].item] :
     r \in {r \in Page(meta[d].cursor) \ Taken(d) :
              ~\E c \in meta[d].conflicts :
                 c.record = r /\ c.revision = server.rows[r].revision}}

\* What follows a finished pull: the job ends and hands over its document, or
\* the local changes are queued.
AfterPull(d, doc, conflicts) ==
  IF job[d].stage = "first" /\ conflicts = {}
  THEN /\ job' = [job EXCEPT ![d] = [Idle EXCEPT !.stage = "enqueue", !.doc = doc]]
       /\ UNCHANGED ui
  ELSE /\ job' = [job EXCEPT ![d] = Idle]
       /\ ui' = [ui EXCEPT ![d] = doc]

\* One page: apply or record each change, move the cursor, save the metadata.
\* After the last page a changed document is still to be sealed.
PullPage(d) ==
  LET after == meta[d].cursor
      doc == [r \in RecordId |->
                IF r \in Taken(d) THEN server.rows[r].item ELSE job[d].doc[r]]
      conflicts == meta[d].conflicts \cup NewConflicts(d)
      changed == job[d].changed \/ Taken(d) # {} IN
  /\ Pulling(d)
  /\ after <= server.cursor
  /\ meta' = [meta EXCEPT
       ![d].cursor = NextCursor(after),
       ![d].conflicts = conflicts,
       ![d].known = [r \in RecordId |->
          IF r \in Taken(d)
          THEN [revision |-> server.rows[r].revision, local |-> server.rows[r].item]
          ELSE meta[d].known[r]]]
  /\ IF HasMore(after) \/ changed
     THEN /\ job' = [job EXCEPT ![d].doc = doc, ![d].changed = changed,
                                ![d].sealing = ~HasMore(after)]
          /\ UNCHANGED ui
     ELSE AfterPull(d, doc, conflicts)
  /\ UNCHANGED <<server, backup, stored, made, historyVars, torn>>

\* Variant: the refusal is an error like any other.
ResetCursorRefused(d) ==
  /\ Pulling(d)
  /\ meta[d].cursor > server.cursor
  /\ GiveUp(d)
  /\ UNCHANGED <<server, backup, stored, meta, ui, made, historyVars>>

\* cursor_reset_required: start again from 0.
ResetCursor(d) ==
  /\ Pulling(d)
  /\ meta[d].cursor > server.cursor
  /\ meta' = [meta EXCEPT ![d].cursor = 0]
  /\ UNCHANGED <<server, backup, stored, ui, job, made, historyVars, torn>>

\* vault.seal(nextDocument), then on.
SealPulled(d) ==
  /\ job[d].sealing
  /\ stored' = [stored EXCEPT ![d] = job[d].doc]
  /\ AfterPull(d, job[d].doc, meta[d].conflicts)
  /\ UNCHANGED <<server, backup, meta, made, historyVars, torn>>

-----------------------------------------------------------------------------
(* enqueueLocalChanges: a mutation for every item that differs from what the *)
(* metadata says was synced and a tombstone for every item that is gone.     *)

Changed(d) == {r \in RecordId : HasLocalChange(job[d].doc, meta[d], r)}

Base(d, r) == meta[d].known[r].revision

Orders(S) ==
  {s \in [1..Cardinality(S) -> S] : \A i, j \in DOMAIN s : s[i] = s[j] => i = j}

Enqueue(d) ==
  /\ job[d].stage = "enqueue"
  /\ made[d] + Cardinality(Changed(d)) <= MaxMutations
  /\ made' = [made EXCEPT ![d] = @ + Cardinality(Changed(d))]
  /\ \E order \in Orders(Changed(d)) :
       meta' = [meta EXCEPT ![d].outbox = [i \in DOMAIN order |->
         [id |-> <<d, made[d] + i>>, record |-> order[i],
          base |-> Base(d, order[i]),
          item |-> job[d].doc[order[i]]]]]
  /\ job' = [job EXCEPT ![d].stage =
       IF Changed(d) = {} THEN "second" ELSE "push"]
  /\ UNCHANGED <<server, backup, stored, ui, historyVars, torn>>

-----------------------------------------------------------------------------
(* resolveSyncConflict *)

\* The newest recorded conflict of a record.
Selected(d, r) ==
  {c \in meta[d].conflicts :
     /\ c.record = r
     /\ \A b \in meta[d].conflicts : b.record = r => b.revision <= c.revision}

\* outbox.filter: the mutations of other records, in their order.  There is one
\* such sequence.
Ascending(S) == {o \in Orders(S) : \A i, j \in DOMAIN o : i < j => o[i] < o[j]}

Without(outbox, r) ==
  {[i \in DOMAIN o |-> outbox[o[i]]] :
     o \in Ascending({i \in DOMAIN outbox : outbox[i].record # r})}

\* The metadata once conflict c is settled, with what is queued then.
Settled(d, c, outbox) ==
  [meta[d] EXCEPT
     !.conflicts = {b \in @ : b.record # c.record},
     !.outbox = outbox,
     !.known[c.record] = [revision |-> c.revision, local |-> c.item]]

\* keep-local: queue the document's version on top of the remote revision.
KeepLocal(d, r) ==
  /\ IsIdle(d)
  /\ made[d] < MaxMutations
  /\ made' = [made EXCEPT ![d] = @ + 1]
  /\ \E c \in Selected(d, r), rest \in Without(meta[d].outbox, r) :
       /\ meta' = [meta EXCEPT ![d] = Settled(d, c, Append(rest,
            [id |-> <<d, made[d] + 1>>, record |-> r, base |-> c.revision,
             item |-> ui[d][r]]))]
       /\ consent' = Replaces(r, c.item, ui[d][r])
  /\ UNCHANGED <<server, backup, stored, ui, job, edits, used, torn>>

\* use-remote: the document with the remote version is sealed first ...
UseRemote(d, r) ==
  /\ IsIdle(d)
  /\ \E c \in Selected(d, r) :
       LET doc == [ui[d] EXCEPT ![r] = c.item] IN
       /\ stored' = [stored EXCEPT ![d] = doc]
       /\ job' = [job EXCEPT ![d] =
            [Idle EXCEPT !.stage = "resolve", !.doc = doc, !.record = r]]
       /\ consent' = Replaces(r, ui[d][r], c.item)
  /\ UNCHANGED <<server, backup, meta, ui, made, edits, used, torn>>

\* ... then the metadata is saved and the document shown ...
SaveResolved(d) ==
  /\ job[d].stage = "resolve"
  /\ \E c \in Selected(d, job[d].record),
        rest \in Without(meta[d].outbox, job[d].record) :
       meta' = [meta EXCEPT ![d] = Settled(d, c, rest)]
  /\ ui' = [ui EXCEPT ![d] = job[d].doc]
  /\ job' = [job EXCEPT ![d] = Idle]
  /\ UNCHANGED <<server, backup, stored, made, historyVars, torn>>

\* ... or the save fails and the old document is sealed again, if that works.
ResolveFails(d) ==
  /\ job[d].stage = "resolve"
  /\ Broken({"storage"})
  /\ \/ /\ stored' = [stored EXCEPT ![d] = ui[d]]
        /\ UNCHANGED torn
     \/ /\ torn' = torn \cup {d}
        /\ UNCHANGED stored
  /\ job' = [job EXCEPT ![d] = Idle]
  /\ UNCHANGED <<server, backup, meta, ui, made, historyVars>>

-----------------------------------------------------------------------------
(* The operator of the server *)

Backup ==
  /\ Broken({"restore"})
  /\ backup = NewServer /\ server # NewServer
  /\ backup' = server
  /\ UNCHANGED <<server, deviceVars, historyVars, torn>>

Restore ==
  /\ Broken({"restore"})
  /\ backup # NewServer /\ server # backup
  /\ server' = backup
  /\ UNCHANGED <<backup, deviceVars, historyVars, torn>>

-----------------------------------------------------------------------------
User(d) ==
  \E r \in RecordId : AddItem(d, r) \/ UpdateItem(d, r) \/ RemoveItem(d, r)

Resolve(d) ==
  \/ \E r \in RecordId : KeepLocal(d, r) \/ UseRemote(d, r)
  \/ SaveResolved(d)

Sync(d) ==
  \/ DrainOne(d)
  \/ DrainConflict(d)
  \/ PullPage(d)
  \/ ResetCursor(d)
  \/ SealPulled(d)
  \/ Enqueue(d)

Fault(d) == SyncFails(d) \/ AnswerLost(d) \/ ResolveFails(d)

Next ==
  \/ \E d \in Device :
       \/ User(d) \/ Restart(d) \/ StartSync(d) \/ Sync(d) \/ Resolve(d) \/ Fault(d)
  \/ Backup
  \/ Restore

Spec == Init /\ [][Next]_vars

\* Users keep starting syncs and settle conflicts, requests are answered.
FairSpec ==
  Spec /\ \A d \in Device : WF_vars(StartSync(d)) /\ WF_vars(Sync(d)) /\ WF_vars(Resolve(d))

-----------------------------------------------------------------------------
(* Properties *)

\* The cursor of a device's metadata is never ahead of what the metadata says:
\* of every row the cursor has passed, the metadata knows the current revision
\* and item or holds that revision as a conflict.
MetadataComplete ==
  \A d \in Device, r \in RecordId :
    LET row == server.rows[r] IN
      row.cursor \in 1..meta[d].cursor =>
        \/ meta[d].known[r] = [revision |-> row.revision, local |-> row.item]
        \/ \E c \in meta[d].conflicts :
             c = [record |-> r, revision |-> row.revision, item |-> row.item]

\* Neither the vault nor the document of a device ever loses a version of an
\* item unless a user replaced it knowingly, by editing it or by resolving a
\* conflict, as long as no device's documents fell behind its metadata.
VersionsKept ==
  \A r \in RecordId :
    LET Lost(old, new) == old # new /\ <<old, new>> \notin consent'[r]
    IN  /\ ~Lost(server.rows[r].item, server'.rows[r].item)
        /\ \A d \in Device : ~Lost(ui[d][r], ui'[d][r])
NoSilentOverwrite == [][torn' = {} => VersionsKept]_vars

\* A queued mutation leaves the outbox only when the server has applied it or
\* its user settled a conflict about its record, whatever fails.
PendingKept ==
  [][\A d \in Device : \A i \in DOMAIN meta[d].outbox :
       LET m == meta[d].outbox[i] IN
         \/ \E j \in DOMAIN meta'[d].outbox : meta'[d].outbox[j] = m
         \/ m.id \in server'.applied
         \/ /\ \E c \in meta[d].conflicts : c.record = m.record
            /\ ~\E c \in meta'[d].conflicts : c.record = m.record]_vars

\* A tombstone in the vault means that a user removed the item.
TombstoneMeansRemoval ==
  \A r \in RecordId :
    (server.rows[r].revision > 0 /\ server.rows[r].item = None)
      => \E old \in Item : <<old, None>> \in consent[r]

\* A device whose cursor is ahead of a restored server rewinds it and does not
\* keep echoing it.
AheadCursorRewinds ==
  \A d \in Device :
    meta[d].cursor > server.cursor ~> meta[d].cursor <= server.cursor

\* Once the users stop editing, every device ends up with the document of the
\* vault and an empty outbox.
Converges ==
  <>[](\A d \in Device :
         /\ meta[d].outbox = <<>>
         /\ \A r \in RecordId : ui[d][r] = server.rows[r].item)
=============================================================================
