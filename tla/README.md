# Verification of Sovereignty

Sovereignty is an end-to-end encrypted password manager: a web vault with an
optional sync server, a desktop shell around the same page, a mobile app with
storage of its own and a browser extension. This directory holds TLA+ models of
its state machines, the TLC configurations that check them and machine-checked
proofs of the theorems that matter most. Everything was translated from the
source in `src/`; `PROJECT.json` maps every definition to the lines it stands for.

    tlc -workers 2 -config MCSyncStore_store.cfg MCSyncStore      # one run
    tlapm SyncStoreProofs.tla                                     # one module of proofs

## 1. Inventory

Paths are relative to `src/`; `web` is `apps/web/src`.

| Component | State it keeps | Operations | What makes it hard |
|---|---|---|---|
| Sync server store (`web/lib/sync-store.server.ts`, `apps/web/migrations/002_sync_foundation.sql`) | per vault: `next_cursor`, one row per record, one row per mutation | `createVault`, `getVault`, `pullChanges`, `pushMutations` | statements of concurrent transactions; replays; rollback in the middle of a batch; a change feed read while it grows |
| Sync client (`web/lib/sync-client.ts`, `sync-metadata.ts`, `components/sync-controls.tsx`) | sealed document (localStorage), metadata (IndexedDB: cursor, known revisions, outbox, conflicts), the document in memory | `syncNow` (drain, pull, enqueue, drain, pull), `resolveSyncConflict`, `enableEncryptedSync`, restore | two stores without a common transaction; every await can fail; other devices push between any two steps; lost answers; restored server |
| Web vault page and session (`web/components/vault-app.tsx`, `lib/vault-adapter.ts`, `components/backup-controls.tsx`, `auth-screen.tsx`) | stored envelope, open session with its key and write chain, shown document, the refs of pending work, the lock queue | authenticate, create, persist (from the editor, the delete dialog, the favourite button, a CSV import, a review), lock, auto-lock, import and export a backup, restore | one thread but many continuations: a lock or an import can meet an unlock, a save or a sync at any await |
| Desktop shell (`apps/desktop/src-tauri/src/lib.rs`, `backup.rs`, `web/lib/desktop-lifecycle.ts`) | `CloseState`, `BackupState`, `completingClose`, the window | close request, focus loss, `desktop_close_ready`, export and import dialogs | two processes that talk by events and commands; the window must not go during a save |
| Clipboard (`web/lib/clipboard-session.ts`, `vault-app.tsx`) | the entry last registered and its timer | copy, clear after a timeout, clear on lock | asynchronous writes that end after the lock or out of order |
| Mobile controller and journal (`apps/mobile/src/controller.ts`, `storage.ts`) | epoch, session, pending documents; numbered files and a write queue | initialize, authenticate, save, remove, lock; load, write | the app goes to the background during an await; crash between `create` and `publish` |
| Extension worker (`apps/extension/src/background.ts`, `content.ts`, `packages/extension-protocol`) | pairing, session, pending requests, registered documents, grants, armed watch, captured login | pair, list, fill, watch, review, lock | every handler awaits several times; ports that disconnect, tabs that navigate, content scripts injected again, late answers, deadlines |
| Extension companion of the page (`web/lib/extension-companion.ts`, `submitted-login-review.ts`) | connection, expiry, the login under review | connect, answer, review, save | a review that outlives the vault session |
| Migration runner (`apps/web/scripts/migrate.mjs`) | the `svrgn_migration` table, an advisory lock | apply the pending migrations | concurrent runners, failure in the middle |
| CSV import (`web/lib/chrome-csv-import.ts`) | none | preview, merge | limits and duplicates (pure) |
| Protocol validation and HTTP (`packages/sync-protocol`, `web/lib/sync-http.server.ts`) | none | parse, validate, map errors | pure |
| Cryptography (`packages/vault-core`) | none; a session holds its key | create, unlock, seal, restore a vault | what it makes of documents and envelopes is in the modules of its callers; the rest: section 7 |
| Authentication, sign-up policy, form detection, UI | – | – | see section 7 |

How they interact: the page opens a session of the vault adapter and hands it to
the sync client; the sync client seals what it pulled through the session's write
chain and calls the store over HTTP; the store is shared by all devices of an
account; the desktop shell sends the page events and the page answers with
commands; the companion connects the page with the extension worker.

What makes each component correct:

* store: cursors are dense, no update is lost, answers stay true, a reader that
  pages through the feed misses nothing and catches up;
* client: what the cursor has passed is known, no version vanishes without a
  user's decision, queued mutations survive, tombstones come from removals,
  devices converge; who has sync on has the account's vault, however sync was
  enabled or restored;
* page: no sealing without a key, no key left once it is locked, what is shown is
  what is stored, a lock that succeeds lost nothing; a change is stored over the
  very document it was made from; a dialog, a preview or a review is good for one
  change, in its session, and an approved update overwrites no version its user
  was not shown (an editor or a delete dialog may: section 7); what was copied
  goes with the session it was copied in;
* desktop: the window goes only when all that is done, and every close request
  is answered;
* mobile: a committed write survives a crash, what another writer published is
  neither replaced nor buried, a lock is final for everything begun before it and
  leaves no key and no draft;
* extension: a permission to fill is used once, for the document and the session it
  was given for, and only while that session is open; a worker without a session
  holds nothing; a captured login belongs to a document that is registered still;
  a request ends once, and does end once its page was reached; a session ends when
  its vault is locked, and its companion when the worker closes it;
* migrations: each is applied once and in order.

## 2. Plan

Done: `SyncLog`, `SyncStore`, `SyncStoreProofs`, `SyncClient`, `SyncBootstrap`,
`VaultSession`, `VaultChanges`, `VaultClipboard`, `DesktopClose`, `JournalStore`,
`MobileVault`, `FillCapability`, `Extension`. What composes with what:

    SyncLog  <- implemented by - SyncStore        SyncClient <- SyncBootstrap
    VaultSession <- VaultChanges                  VaultSession <- VaultClipboard <- DesktopClose
    JournalStore <- MobileVault                   FillCapability <- implemented by - Extension

The proofs are in a module of their own per component, built on each other as the
components are:

    SyncStoreProofs                               SyncClientProofs <- SyncBootstrapProofs
    VaultSessionProofs <- VaultChangesProofs      VaultSessionProofs <- DesktopCloseProofs
    MobileVaultProofs                             ExtensionProofs

Left, in this order:

1. Proofs: `NoSilentOverwrite` of `SyncClient`, and `BootNoOverwrite` with it.
2. The abstract store that `JournalStore` implements (a vault that changes as a
   whole or not at all), as a refinement of `MobileVault`.
3. The sequence operators of the outbox as pure operators checked against a
   reference definition over bounded inputs.

## 3. Modules and their correspondence with the code

### SyncLog: what the server promises
An append-only log of mutations in which a mutation id occurs once and every
mutation names the revision it replaces, and readers that never move past a
version of a record without taking its latest one. No tables, locks, cursors of
rows or transactions.

### SyncStore: `pushMutations` and `pullChanges`
`nextCursor`, `records` and `mutations` are the committed tables; `tx` holds per
connection what its transaction wrote and where it stands. A push is `Begin`,
`LockVault` (`select ... for update`), then per mutation `Replay`, or `Accept`
(the check of the base revision) followed by `Write` (upsert, insert into
`sync_mutation`, update of the cursor), then `Commit`. `Reject` is every thrown
error with its rollback (an id reused for another request, a conflict, the last
cursor), `Abort` a failure of the statement, the connection or the server.
Statements of other connections run between any two steps; a statement sees
committed rows and the transaction's own (READ COMMITTED). `Commit` may lose its
answer. `Pull` is one statement and therefore atomic; the reader applies the page
and keeps the returned cursor.

### SyncClient: the devices
`stored`, `meta` and `ui` are the sealed document, the saved metadata and the
document in memory; `job` is the running `syncNow` or `resolveSyncConflict` with
its stage, one stage per awaited step. `DrainOne` and `DrainConflict` are
`drainOutbox` with the conflict branch of `syncNow`; `PullPage`, `ResetCursor` and
`SealPulled` are `pullRemote`; `Enqueue` is `enqueueLocalChanges` (the order of the
mutations of one enqueue is free, as that of the rows is); `KeepLocal`,
`UseRemote` and `SaveResolved` are the resolution, with `Without` and `Settled` for what
it makes of the outbox. `AnswerLost`, `SyncFails`,
`ResolveFails` and `Restart` are the failures of a request, of a save and of the
page. The server is the log that `SyncStore` implements, so a request takes
effect in one step. `Backup` and `Restore` stand for the operator (external).

### SyncBootstrap: how the devices come to share a vault
Extends `SyncClient`, which starts with sync enabled everywhere, with the time
before. `CreateLocal` is `createLocalVault`; `EnableBegins`, `CreateVault`, `SaveInitial`,
`DrainInitial` are `enableEncryptedSync` from one await to the next, with the server's
`createVault` as `Insert`; `RestoreBegins`, `RestorePage`, `RestorePersist`,
`RestoreMetadata` are `restoreFromSync` with `fetchRemoteVaultForRestore`,
`restoreLocalVaultFromSync` and `metadataForRestoredVault`. `CreateAnswerLost`,
`DrainAnswerLost`, `BootFails` and `Reload` are the failures. A vault is named by the
device that created it, at most one each. `Works` is everything `SyncClient` does
once the vault is open. A vault that was left half enabled or half restored stays
without sync: the next attempt to enable it is answered with
`remote_vault_exists` (`EnableBegins` has no second way in), which is what the code
does and no property calls wrong.

### VaultSession: the page
Each action is a handler of `vault-app.tsx` up to its next await, or the
continuation that a settled promise starts. `Authenticate`, `AuthenticateDone`
and `AuthenticateFails` are `authenticate` with the epoch ticket of
`VaultLockQueue`; `Persist`, `SealDone`, `SealFails` are `persist` and the write
chain of `makeUnlockedVault`; `RequestLock` and `LockDone` are `lock` (joined
requests included); `ChooseBackup` … `ImportDone` are the backup controls with
`finishBackupImport`; `StartSync` … `SyncFails` are a sync as far as the page sees
it. The constant `Desktop` is `IS_DESKTOP`: no sync, and a lock that does not
refuse during a save. `history` holds the save the user was promised, the vault
last imported and whether a failed sync left an old document on the page (the
subject of `SyncClient`).

### VaultChanges: what changes the items
Extends `VaultSession`, whose documents are numbers, with the items of each
document and the views that change them: `OpenForm`, `OpenDelete`, `SubmitForm`,
`ConfirmDelete` and `Favourite` (item-form.tsx, item-detail.tsx, `updateVaultItem`,
`removeVaultItem`), `ChooseCsv` … `ImportCsv` (chrome-csv-import), `Offer` …
`ApproveUpdate` (submitted-login-review.ts, extension-companion.tsx), and `Pull` for
what a sync brings. Each looks at the items at one moment and calls `persist`
(`Change`) at a later one. An item is an object: `made` tells apart an item and its
replacement with the same id. A view is numbered; `born`, `saved` and `by` are history
variables that say in which session it was opened, which views were stored and
what made each document. All items are of one site, a login is a user name there,
and only the duplicate test of the CSV preview looks at it. The rows of a preview are
a set of records, each with the position of its line and whether it is a duplicate.

### VaultClipboard: what the page copies
Extends `VaultSession` with `copyForLiveSession` and `clearClipboardEntry`: a copy is
written, and then registered or, if it came too late, read and erased; the timer
or a lock clears the registered entry in the same two accesses. Accesses end in
any order, and each may be denied: a value that cannot be erased is given up
("best-effort"). Copies hold different values, other programs are left out. An
import in the browser leaves the entry to its timer, as the code does.

### DesktopClose: the window around the page
Extends `VaultClipboard` with the native flags, the close events on their way,
`completingClose` and the open dialog. `RequestClose` is `CloseRequested` (and
Quit), `HandleClose` the page's listener, `LockEnded` the end of the lock with the
continuation of `attachDesktopLifecycle`, `CloseRefused`, `DestroyFails` and
`Destroy` are `desktop_close_ready`; `BeginExport` … `EndImport` are the two backup
commands with `begin` and their second look at the close flag.

### JournalStore and MobileVault: the mobile app
`JournalStore` is the journal: `files` and `pending` are the directory (published
snapshots and pending files), the rest is the state of `storage.ts` in the
process. `Load`, `LoadFails` are `load`; a write is `Enqueue`, then `WriteBegins`
(the checks of `write` and the pending file) or `WriteRefused`, then `Publish` or
`PublishFails` when the move ends. `Crash` kills the process, with a move under way
done or not; `External` is another writer of the directory (both external).

`MobileVault` extends it with `controller.ts`. `active`, `envelope`, `current`, `shown`,
`owned` and `op` are its fields; `op` is the operation that holds `busy`, from its
start to its `finally`. `Authenticate`, then (after the yield) `AuthenticateReturns`,
`Unlock` or `Create`, then `Created` or `CreateFails` are `authenticate`; `Save` and
`ConfirmRemoval` begin a `mutate`, which `Mutated` or `MutateFails` ends; `Background`,
`Foreground` and `LockVault` are `setActive` and `lock`. `epoch` and `stateVersion` are
only ever compared with an earlier value, so they are two flags: `op.revoked` and
`prompt.fresh`. The key derivation is synchronous native code and has no steps.
The public methods are called in any order their guards allow, also those the
modal dialog would keep the user from.

### FillCapability and Extension
`FillCapability` is what the extension promises about the matches it lists: each
list comes with one permission for one document and one session, which the first
request that names it uses up (`Use`), for which a credential is sent at most once
(`Send`) and given at most once, in that document (`Give`). Issuing, using and sending
need the session to be open; a session that was closed or replaced never opens
again for a permission that names it. What was sent in time may arrive after the
session ended: nobody can call it back. The module has no messages, ports or tabs.
`Extension` implements it (`ImplementsCapability`).

`Extension` is the background worker, the content scripts of one tab and the
companions of the vault pages it is paired with. Each runs on a thread of its own;
ports are FIFO queues (`up`, `down`), and a handler of the popup is split at its
awaits: `req[r].pc` says where request `r` stands. `StartList`, `Target` (`activeTarget`),
`Inject` (`executeScript`), `Register` (`assertTarget` and `registeredDocument`), `AskMatches`
(`requestVault`), `Check` (`assertTarget`), `IssueGrant` are `list`; `StartUse`, `Check`, `AskCredential`, `Check`,
`SendCredential`, `Acknowledged` are `fill`, with `ArmCapture` in the middle for
`watch`; `StartReview`, `Check`, `ActivateVault`, `VaultActivated`, `Propose` are
`review`. `SessionMissing` is `requireSession` when there is none, at every place that
calls it. `Connected`, `ScriptGone`, `TabUpdated`, `Submitted` are the listeners of
content ports and tabs; `StartPair` … `PageGone` the pairing and the vault's port;
`Connect`, `Stop`, `Receive` … the companion; `ContentMessage`, `Submit`, `ScriptCut`,
`FormGone` the content script; `Navigate` the browser (external). `Lock` is `lock()`
with every caller's own part as parameters.

A deadline is in force and then lapsed, and its timer fires some time after, so a
look at the clock and a timer are separate steps. Abstractions: one tab with
logins, which shows a document at most once, and one vault tab per pairing (another
tab in front is a `Check` that fails); the wait, capture, candidate and grant
deadlines lapse together with what they bound, only that of the session
lapses before its timer fires; a content script that leaves before the worker saw
its port is left out. A registration's own timer (`RegistrationTimer`) fires once the
session it may have been made in is over; which one that was is not kept, so it may
fire for any session that is not the open one, which is more than the code allows.
The session of an earlier pairing that a later one replaced keeps its port, and a
late message on it locks the worker, as in the code; so does a proposal's late
"expired" answer.

### MC modules and variants
`MCSyncStore`, `MCSyncClient`, `MCSyncBootstrap`, `MCVaultSession`, `MCVaultChanges`,
`MCDesktopClose`, `MCMobileVault` and `MCExtension` give the constants their values. Definitions introduced by "Variant:" are not used
by any specification: each is a plausible mistake in the definition that follows
it, and the "mutants" of `PROJECT.json` name the run and the property that notice it.

## 4. Runs

| Run | Question | Bounds and why they are enough |
|---|---|---|
| `sync_store` | Do two concurrent pushes and a paging reader keep every promise of the store and of `SyncLog`, and does a reader catch up? | 2 connections, 1 reader, 2 records, 4 mutation ids in 4 batches of 1 and 2, page limit 1, `MaxCursor` 3. A batch conflicts in its middle, an id is reused for another request, a batch is retried, the last cursor is reached with a mutation left over; a page limit of 1 makes every read take several pages. 17,145 states, no symmetry |
| `sync_client_faults` | Is anything lost when requests, saves and pages fail at any await? | 2 devices, 1 record, 3 edits, 2 mutations per device, page limit 1: create, edit and remove meet on both devices, with a queued and an in-flight mutation each; 2.2 million states |
| `sync_client_steady` | Do devices converge when users stop? | 2 devices, 2 records, 3 edits, 4 mutations per device, no faults: two pages per pull, so another device can push between them |
| `sync_client_restore` | Does a cursor ahead of a restored server rewind? | 2 devices, 1 record, one backup and restore |
| `sync_bootstrap` | Can two devices that start with nothing come to share a vault with every request, save or page failing, and lose nothing? | 2 devices, 2 records, 4 edits, 3 mutations per device, page limit 1: both enable at once, one restores in two pages while the other pushes, a lost answer or a closed page at every await; the later syncs are without faults of their own (those are in `sync_client_faults`). 1,278,045 states up to symmetry |
| `vault_page` | What may the views of a web page do to the items, and what may overlap? | 2 sessions, 2 edits, 2 views, 1 lock request, one backup import, one CSV file with a login twice and an invalid row: any two views, saves or pulls in any order, with an unlock after the lock. 2,086,276 states |
| `desktop_close` | What can a lock lose or admit at any moment, when may the window go, what stays on the clipboard, and is every close answered? | 1 close request, 2 lock requests, 2 sessions, 1 edit, 2 copies, one import, any number of dialogs. 698,771 states |
| `mobile_vault` | Does the mobile app keep what it reported and what others published, hold no key and no draft after a lock (`KeysGoAtOnce`) and never stay busy, whatever is killed, fails or is published by somebody else? | 4 documents, 2 sessions per process, any number of kills, one foreign snapshot, at most 3 files and number 3 in the directory: leftovers of a kill meet the next write, and both limits of the journal are reached. 33,024 states |
| `extension_requests` | Does every interleaving of two requests respect the permissions of one session, and is what the worker holds live? | 3 documents of 2 sites, a list and then three more requests (fill or watch; review or list; review or fill), two at a time, 1 pairing, 1 event of a user, page or session clock (beyond requests, pairing, injections and timers). 1,060,245 states |
| `extension_ends` | Does a request end once, and for certain after its injection? Does a session end with its vault, and its companion with it? Is nothing used or sent in a session that replaced another? | 1 document, list then fill, 2 pairings that race, 1 event: a hello replaces the session at every step of the fill, between the vault's answer and the second look included. 170,143 states |

The bounds `MaxEdits`, `MaxMutations`, `MaxSessions`, `MaxLocks`, `MaxCloses`, `MaxCopies`,
`MaxViews`, `MaxActive`, `MaxPairings`, `MaxEvents`, the length of `Plan` and the
single import are guards of the actions that count; `MaxCursor`, `MaxEntries` and
`MaxSequence` are the code's own limits (`MAX_WIRE_BIGINT`, 2000 files, 999,999,999,999)
made small. `MaxMutations` bounds `Enqueue`, `KeepLocal` and `SaveInitial`; in the runs
with liveness it is large enough for every edit. The runs of the bootstrap, the
page, the window, the app and the extension turn the deadlock check off: at its
bounds, and when the window is destroyed, nothing is left to do.

Runs that show a disagreement between the code and what it says:

| Run | Shows |
|---|---|
| `sync_client_stale_document` | A request that fails after a pull leaves the old document in the app; the retry deletes the pulled items everywhere. (With `Faults = {"crash"}` the same property fails for a page closed between the metadata save and the sealing.) |
| `vault_import_overwritten` | A backup imported while a vault is being created is overwritten by it. |

`TombstoneMeansRemoval` is checked by its violation run only. It also fails without
any fault when another device pushes between a page and the push of the same
sync: that push meets a conflict, and the page keeps the document from before the
pull.

`NoSilentOverwrite` and `BootNoOverwrite` are checked while no device's documents
fell behind its metadata (`torn`); `sync_client_stale_document` is what happens when
they did. `ShownIsStored` and `NoChangeReverted` set a page apart behind which a
backup was imported, or a sync failed after sealing: a sync begun before an import
and ended after it puts the old document on the page of the imported vault, and
the next save stores it.

## 5. Fairness

* `SyncStore`: weak fairness of every step of a transaction that has begun, and
  strong fairness of `LockVault`: PostgreSQL queues waiters for a row lock. Weak
  fairness of a reader's `Pull` for `ReadersCatchUp` (a device that keeps syncing).
* `SyncClient`: weak fairness of `StartSync`, `Sync` and `Resolve` of each device: a
  user goes on pressing "Sync now" and answers conflicts. None of edits or
  faults; `Converges` is claimed without faults only.
* `SyncBootstrap` and `VaultChanges`: safety only.
* `DesktopClose`: promises settle (key derivation, sealing, requests, clipboard
  accesses), events and commands arrive, and a user leaves a native dialog in the
  end. No fairness of anything a user starts.
* `Extension`: handlers resume, messages on a port arrive, the companion stops when
  it is due, deadlines that bound a request or a candidate lapse and the session's
  timer fires: the browser's event loops run. Nothing is assumed of the user, the
  tab, the page's scripts or whether a page answers, nor that `executeScript` ends
  (`Inject` has no fairness): nothing bounds it in the code, so `RequestsEnd` promises
  an end from the moment it has returned. Every later wait has its deadline.
* `MobileVault`: timers fire and file operations end (`Settle`); a user does nothing
  in particular.

## 6. Proofs

Every theorem is about the specification without fairness and holds for all
values of the constants that satisfy the named assumptions of the module: any
number of devices, connections, records, sessions, edits, locks, copies, close
requests or popup requests. The bounds of section 4 are constants there
(`MaxEdits`, `MaxSessions`, …), so a theorem says nothing less than the code's
unbounded runs do: any finite number of them.

| Module | Theorem | States |
|---|---|---|
| `SyncStoreProofs` | `TypeCorrect` | `TypeOK` |
| | `CursorsAlwaysDense`, `UpdatesNeverLost`, `AcksAlwaysDurable` | `CursorsDense`, `NoLostUpdate`, `AcksDurable` |
| | `ReadersAlwaysComplete` | `ReaderComplete`, with `CursorNotAhead` |
| | `StoreImplementsLog` | `ImplementsLog`: the tables, locks and transactions implement `SyncLog` |
| `SyncClientProofs` | `MetadataIsComplete` | `MetadataComplete`, for a server that is never restored |
| | `QueuedAreKept` | `PendingKept` (an action property) |
| | `StateTyped` | `TypeOK` |
| `SyncBootstrapProofs` | `EnabledAreServed`, `BootMetadataComplete` | `EnabledIsServed`, `MetadataComplete` |
| | `BootTyped` | `BootTypeOK` |
| `VaultSessionProofs` | `KeyOutlivesSeals`, `PageShowsStored` | `SealsHaveKey`, `ShownIsStored` |
| | `NoKeyLeft` | `LockedHasNoKey` |
| | `LocksKeepSaves` | `LockKeepsSave` (an action property) |
| `VaultChangesProofs` | `ChangesRefine` | `ChangesSpec => Spec`: the views only do what the page allows |
| | `UpdatesAreOfWhatWasSeen`, `OneChangeOfAView` | `UpdatesWhatWasSeen` (an action property), `ViewsAreGoodOnce` |
| | `StoredChangesStay` | `NoChangeReverted` (an action property) |
| | `ChangesKeepPage`, `ChangesTyped` | `SealsHaveKey` and `ShownIsStored`; `ChangesTypeOK` |
| `DesktopCloseProofs` | `WindowRefines` | `DesktopSpec => Spec` of `VaultSession` |
| | `ClosesSafely`, `CopiesRevoked` | `ClosedSafely`, `ClipboardRevoked` |
| | `WindowLocks`, `DesktopTyped` | `LockedHasNoKey` and `LockKeepsSave`; `DesktopTypeOK` |
| `MobileVaultProofs` | `SavesStay`, `UnlockedShowsNewest`, `VaultsNotReplaced` | `SavesDurable`, `UnlockedIsNewest`, `OneVault` |
| | `ForeignSnapshotsStay`, `KeysAreGone` | `ForeignKept`, `KeysGoAtOnce` |
| | `RemovalsAreCurrent` | `RemovalIsCurrent` (an action property) |
| | `MobileTyped` | `MobileTypeOK` |
| `ExtensionProofs` | `HeldStaysLive` | `HeldIsLive` |
| | `ExtensionImplementsCapability` | `ImplementsCapability`: the worker implements `FillCapability` |
| | `ExtensionTyped` | `TypeOK` |

Assumptions on the constants. `ConstantsAssumption` of each module types them:
finitely many records and a positive page limit for the sync modules, what
validation guarantees about the batches of `SyncStore`. `BootAssumption` has the
faults of a bootstrap without a restore of the server (no restore is modelled
before sync is on). `ChangesAssumption` is the browser (`~Desktop`), `CloseAssumption`
the desktop, as `IS_DESKTOP` decides at build time. `MobileAssumption` says what an
envelope is. `MetadataIsComplete` alone has a hypothesis of its own,
`"restore" \notin Faults`: after a restore the property is false, and
`AheadCursorRewinds` is what the code then promises.

### The arguments

**Store.** A committed table is right because of what the transaction that commits
it wrote, and that depends on nobody else holding the lock. `IInv` adds mutual
exclusion (at most one transaction is past `LockVault`) and, per transaction, that
its view of the tables (`RowSeen`, `EntriesSeen`, its cursor) has the properties of
committed tables (`TxInv`). The steps of the lock holder preserve its own `TxInv` and
leave the tables alone; `Commit` turns it into the properties of the new tables. For
the reader, `PageHasNoGap` says that a page passes over no row below the cursor it
returns, whatever the limit. The refinement needs `LInv` on top: mutation ids and
revisions are used once, an entry keeps the request it answers (`Logged`), and what
a transaction wrote is of its batch, of which everything before its position is
answered (`Handled`). Then `LogIsLegal` and `LogGrows` make a commit an `Apply` of the
batch, or a stutter when it was a replay only; `LatestIsRow` and `PageHasNoGap` make a
pull a `Read`; all other steps stutter.

**Client.** `CInv` says for each stage of a job what the metadata hold that it
expects, and that a device's metadata would be complete at whatever moment the
pull stops. It rests on two orders: a row that is written moves behind every
cursor, and a mutation that the server has applied is pushed again before the
device pulls. Wherever the outbox is walked (`Settled`, `Without`, `Ascending`) there
is a lemma about the sequence. `BInv` extends it to the time before sync is on: what
a restore has read so far would be complete metadata at any moment, and a device
uploads to the account the vault it has open.

**Page.** `IInv` of `VaultSessionProofs`: there is one session with a key and one
sealing under way, the newest; only an unlocked page has a session; a lock takes
the one there is; and no document that is still around is newer than the stored
one of its vault. `VaultChanges` and `DesktopClose` are shown to take only steps of
`VaultSession` (`ChangesRefine`, `WindowRefines`), so this invariant holds there too.
`CInv` of `VaultChangesProofs` adds that an open view is of the session of the page
and has stored nothing yet, that a document is made from the very one that was
stored then and replaces in it only what its view may replace, that no view makes an
item twice, and that an approved update replaces only what its review showed;
`DInv` that a close is acknowledged only while all sessions of its time are
destroyed, and that a lock does not end before the clipboard's entry is forgotten.

**Mobile.** `MInv`: a write takes a number above all its process has seen, so what
it publishes is the newest snapshot or somebody else's is, who wrote later; the
controller caches the newest snapshot, and a lock drops the session together with
the document an operation was going to show. `Foreign` and `OpOwns` are preserved on top
of it: what `ForeignKept` needs of the writes that are still under way (that a published
file is not overwritten says nothing of a newer one that buries it), and which key
the operation under way holds.

**Extension.** `XInv` says where the handler of each request may be and what it has by
then (`Fits`), that a request which fills or watches names a list that was shown,
and which handlers the worker will resume. A shown list never changes (`Steady`), so
a captured login stays of its document as long as the registry keeps the entry,
and everything that removes an entry drops the capture (`CaptureGoesWith`).
The refinement needs `PInv` on top. A pairing that ended never becomes the session
again (`Links`), so a request that finds the session of its list open has been in
it all the time (`Sessions`), and a session that opens has no permission yet; a
permission is named by one active request at most (`OneUse`); and a credential, on
its way or filled, is of the document and the session of that list (`Credentials`,
`Filled`). Nearly every step is `Quiet`: it moves handlers and at most revokes
permissions or closes the session, which `FillCapability` allows at any time. Those
that do more are proved by hand: `Hello` opens a session, `IssueGrant` issues,
`StartUse` consumes, `SendCredential` sends, `ContentMessage` gives. That the session is
open where the credential is sent comes from `MaySend`, what is looked at after the
vault's answer; without it the theorem is false, as a variant shows.

The inductive invariants were checked by TLC on the configurations of section 4
before they were proved.

### Not proved

* `NoSilentOverwrite` and `BootNoOverwrite`: the invariant they need follows every
  version of a record through the documents, outboxes and conflicts of all
  devices. Model-checked, next in the plan.
* `AheadCursorRewinds`, `PushesEnd`, `ReadersCatchUp`, `Converges`, `CloseAnswered`,
  `BusyEnds`, `RequestsEnd` and `SessionsEndTogether` are liveness properties under
  fairness, for which the prover has no rule (nor for ENABLED). They stay with TLC.

## 7. What is not modelled, and why

* Cryptography: that libsodium encrypts and authenticates is assumed; an envelope
  is the document it contains. Key destruction is modelled, as a session's state.
* HTTP, validation and rate limits: sequential and pure. What they guarantee is
  built into `Request` and `Batches`.
* `parseCsv`, form detection, password generation, search and layout: sequential
  functions of one input without state.
* The migration runner: a sequential script behind an advisory lock.
* Authentication, sign-up, environment: configuration of a library.
* A backup imported while sync is on: `VaultSession` has the import and `SyncClient` the
  metadata, and no module has both.
* The editor and the delete dialog overwrite or remove their item in whatever version
  it has when they are confirmed, also one that a pull or a review put there while
  they were open. The code compares nothing there and promises nothing, and no
  property forbids it: `NoChangeReverted` names it as allowed (`MayReplace`).
* A restart of the extension's service worker, which drops its variables with its
  ports: what the worker holds is gone with it, and what a page still holds then
  is not modelled. An `executeScript` that never returns leaves its request
  unanswered; the code has no deadline for it.
* A hello that replaces a session leaves the older companion connected until its own
  five minutes are over or its vault is locked; the code does not close its port, and
  `SessionsEndTogether` speaks of ports the worker closed.
* Several tabs with logins, validation of message shapes, and the restore from
  sync overlapping a lock of the same page.
* After a restore of the server's database the vault may grow past a device's
  cursor with other mutations. Nothing tells the device, which then skips them.
  This is a limit of the reset protocol; the model has the state and no property
  claims otherwise.
* The mobile journal's `load` is one step: nothing else of the app runs before it
  has ended, and a file it reads is never replaced. A move that fails is taken not
  to have happened, and another writer that publishes during a move is not
  detected; the code calls the journal "single writer".
* Two tabs of one browser share the document and the metadata without coordination,
  and the later save wins; a second tab per device would square the state of
  `SyncClient`.
* Data that no property tells apart: contents of items (an item is the number of the
  edit that made it, and distinct edits are assumed to have distinct `updatedAt`),
  messages, timers' durations, file contents and names.
