----------------------------- MODULE SyncBootstrap -----------------------------
(***************************************************************************)
(* How the devices of SyncClient come to share a vault: a device creates a *)
(* local vault and enables encrypted sync for it, or restores the vault of *)
(* its account, and synchronizes from then on.  (SyncClient starts with    *)
(* sync enabled everywhere.)                                               *)
(*                                                                         *)
(* Enabling makes the vault on the server, saves metadata with every item  *)
(* in its outbox, and drains it.  Restoring reads the feed page by page    *)
(* while other devices push, stores the vault, and saves metadata.  Each   *)
(* request or save may fail, an answer may be lost, and the page may be    *)
(* closed between any two steps: then a vault without sync is left behind  *)
(* on the server or on the device.                                         *)
(*                                                                         *)
(* A vault has the name of the device that created it, at most one each.   *)
(***************************************************************************)
EXTENDS SyncClient

CONSTANTS
  NoVault,      \* not a device
  BootFaults    \* what may go wrong meanwhile: "network", "storage", "crash"

ASSUME BootAssumption ==
  NoVault \notin Device /\ BootFaults \subseteq {"network", "storage", "crash"}

VARIABLES
  remote,    \* the vault of the account on the server
  vault,     \* per device, the vault in its local storage
  open,      \* devices whose page shows the vault; the others offer to set one up
  enabled,   \* devices that have sync metadata
  boot       \* per device, the enabling or restoring under way

bootVars == <<vars, remote, vault, open, enabled, boot>>

-----------------------------------------------------------------------------
Vault == Device \cup {NoVault}
BootStage == {"idle", "create", "save", "drain", "pages", "persist", "metadata"}

\* got holds what the feed said last of each record, up to a cursor.
NoRecord == [revision |-> 0, local |-> None]
NoBoot == [stage |-> "idle", cursor |-> 0, got |-> [r \in RecordId |-> NoRecord]]
Boot == [stage : BootStage, cursor : Nat, got : [RecordId -> Known]]

BootTypeOK ==
  /\ TypeOK
  /\ remote \in Vault
  /\ vault \in [Device -> Vault]
  /\ open \in SUBSET Device /\ enabled \in SUBSET Device
  /\ boot \in [Device -> Boot]

BootInit ==
  /\ Init
  /\ remote = NoVault
  /\ vault = [d \in Device |-> NoVault]
  /\ open = {} /\ enabled = {}
  /\ boot = [d \in Device |-> NoBoot]

Resting(d) == IsIdle(d) /\ boot[d].stage = "idle"
BootBroken(fault) == BootFaults \cap fault # {}
Proceeds(d, stage) == boot' = [boot EXCEPT ![d].stage = stage]
Stops(d) == boot' = [boot EXCEPT ![d] = NoBoot]

\* createLocalVault stores the new vault without looking for another one, which
\* a restore that failed may have left.
CreateLocal(d) ==
  /\ d \notin open /\ Resting(d)
  /\ vault[d] # d
  /\ vault' = [vault EXCEPT ![d] = d]
  /\ open' = open \cup {d}
  /\ stored' = [stored EXCEPT ![d] = EmptyDocument]
  /\ ui' = [ui EXCEPT ![d] = EmptyDocument]
  /\ UNCHANGED <<server, backup, meta, job, made, historyVars, torn, remote,
                 enabled, boot>>

-----------------------------------------------------------------------------
(* enableEncryptedSync *)

\* No metadata, and the account has no vault: its key envelope is prepared.
EnableBegins(d) ==
  /\ d \in open \ enabled /\ Resting(d)
  /\ remote = NoVault
  /\ Proceeds(d, "create")
  /\ UNCHANGED <<vars, remote, vault, open, enabled>>

\* Variant: the later vault wins.
InsertAnyway(d) == vault[d]

\* insert ... on conflict do nothing
Insert(d) == IF remote = NoVault THEN vault[d] ELSE remote

\* The server answers with the vault of the account; another one is an error.
CreateVault(d) ==
  /\ boot[d].stage = "create"
  /\ remote' = Insert(d)
  /\ IF remote' = vault[d] THEN Proceeds(d, "save") ELSE Stops(d)
  /\ UNCHANGED <<vars, vault, open, enabled>>

CreateAnswerLost(d) ==
  /\ boot[d].stage = "create"
  /\ BootBroken({"network", "crash"})
  /\ remote' = Insert(d)
  /\ Stops(d)
  /\ UNCHANGED <<vars, vault, open, enabled>>

\* Every item is queued as revision 1, and the metadata saved.
InitialItems(d) == {r \in RecordId : ui[d][r] # None}

SaveInitial(d) ==
  /\ boot[d].stage = "save"
  /\ made[d] + Cardinality(InitialItems(d)) <= MaxMutations
  /\ made' = [made EXCEPT ![d] = @ + Cardinality(InitialItems(d))]
  /\ \E order \in Orders(InitialItems(d)) :
       meta' = [meta EXCEPT ![d] =
         [cursor |-> 0, conflicts |-> {},
          known |-> [r \in RecordId |-> NoRecord],
          outbox |-> [i \in DOMAIN order |->
            [id |-> <<d, made[d] + i>>, record |-> order[i], base |-> 0,
             item |-> ui[d][order[i]]]]]]
  /\ enabled' = enabled \cup {d}
  /\ IF InitialItems(d) = {} THEN Stops(d) ELSE Proceeds(d, "drain")
  /\ UNCHANGED <<server, backup, stored, ui, job, historyVars, torn, remote, vault,
                 open>>

\* drainOutbox, one turn.
DrainInitial(d) ==
  LET m == Pending(d) IN
  /\ boot[d].stage = "drain"
  /\ AlreadyApplied(m) \/ Appliable(m)
  /\ ServerApplies(m)
  /\ meta' = [meta EXCEPT
       ![d].known[m.record] = [revision |-> m.base + 1, local |-> m.item],
       ![d].outbox = Tail(@)]
  /\ IF Tail(meta[d].outbox) = <<>> THEN Stops(d) ELSE Proceeds(d, "drain")
  /\ UNCHANGED <<backup, stored, ui, job, made, historyVars, torn, remote, vault,
                 open, enabled>>

DrainAnswerLost(d) ==
  /\ boot[d].stage = "drain"
  /\ BootBroken({"network", "storage", "crash"})
  /\ Appliable(Pending(d))
  /\ ServerApplies(Pending(d))
  /\ Stops(d)
  /\ UNCHANGED <<backup, deviceVars, historyVars, torn, remote, vault, open, enabled>>

-----------------------------------------------------------------------------
(* restoreFromSync *)

\* The page has found no local vault, the account has one.
RestoreBegins(d) ==
  /\ d \notin open /\ Resting(d)
  /\ remote # NoVault
  /\ Proceeds(d, "pages")
  /\ UNCHANGED <<vars, remote, vault, open, enabled>>

\* Variant: of a record that comes twice the first revision is kept.
FirstGot(d, r) ==
  IF boot[d].got[r].revision > 0 THEN boot[d].got[r]
  ELSE [revision |-> server.rows[r].revision, local |-> server.rows[r].item]

\* A record that moved while the pages were read comes twice, the later one wins.
Got(d, r) == [revision |-> server.rows[r].revision, local |-> server.rows[r].item]

RestorePage(d) ==
  LET after == boot[d].cursor IN
  /\ boot[d].stage = "pages"
  /\ boot' = [boot EXCEPT ![d] =
       [stage |-> IF HasMore(after) THEN "pages" ELSE "persist",
        cursor |-> NextCursor(after),
        got |-> [r \in RecordId |->
                   IF r \in Page(after) THEN Got(d, r) ELSE boot[d].got[r]]]]
  /\ UNCHANGED <<vars, remote, vault, open, enabled>>

\* sealNewVaultSession: the document of the records, in a new envelope.
RestoredDocument(d) == [r \in RecordId |-> boot[d].got[r].local]

\* The vault is sealed and stored, whatever the storage holds ...
RestorePersist(d) ==
  /\ boot[d].stage = "persist"
  /\ vault' = [vault EXCEPT ![d] = remote]
  /\ stored' = [stored EXCEPT ![d] = RestoredDocument(d)]
  /\ Proceeds(d, "metadata")
  /\ UNCHANGED <<server, backup, meta, ui, job, made, historyVars, torn, remote,
                 open, enabled>>

\* Variant: the metadata is that of the feed as it is now.
FetchedAgain(d) ==
  [cursor |-> server.cursor, known |-> [r \in RecordId |-> Got(d, r)],
   outbox |-> <<>>, conflicts |-> {}]

\* metadataForRestoredVault describes the records the document was made from.
RestoredMetadata(d) ==
  [cursor |-> boot[d].cursor, known |-> boot[d].got,
   outbox |-> <<>>, conflicts |-> {}]

\* ... then its metadata is saved, and the page shows it.
RestoreMetadata(d) ==
  /\ boot[d].stage = "metadata"
  /\ meta' = [meta EXCEPT ![d] = RestoredMetadata(d)]
  /\ ui' = [ui EXCEPT ![d] = stored[d]]
  /\ enabled' = enabled \cup {d} /\ open' = open \cup {d}
  /\ Stops(d)
  /\ UNCHANGED <<server, backup, stored, job, made, historyVars, torn, remote, vault>>

-----------------------------------------------------------------------------
\* A request or a save fails before it changes anything; the page stays what it
\* was.
BootFails(d) ==
  /\ boot[d].stage # "idle"
  /\ BootBroken({"network", "storage"})
  /\ Stops(d)
  /\ UNCHANGED <<vars, remote, vault, open, enabled>>

\* The page is loaded again and the vault it finds unlocked, if there is one.
Reload(d) ==
  /\ IsIdle(d)
  /\ boot[d].stage # "idle" => BootBroken({"crash"})
  /\ boot[d].stage # "idle" \/ (d \notin open /\ vault[d] # NoVault)
  /\ open' = IF vault[d] = NoVault THEN open ELSE open \cup {d}
  /\ ui' = [ui EXCEPT ![d] = stored[d]]
  /\ Stops(d)
  /\ UNCHANGED <<server, backup, stored, meta, job, made, historyVars, torn, remote,
                 vault, enabled>>

Enable(d) == EnableBegins(d) \/ CreateVault(d) \/ SaveInitial(d) \/ DrainInitial(d)
RestoreVault(d) ==
  RestoreBegins(d) \/ RestorePage(d) \/ RestorePersist(d) \/ RestoreMetadata(d)
BootFault(d) == CreateAnswerLost(d) \/ DrainAnswerLost(d) \/ BootFails(d) \/ Reload(d)

\* What SyncClient does, once the vault is open and, for a sync, enabled.
Works(d) ==
  /\ d \in open /\ boot[d].stage = "idle"
  /\ \/ User(d) \/ Restart(d) \/ Sync(d) \/ Resolve(d) \/ Fault(d)
     \/ d \in enabled /\ StartSync(d)
  /\ UNCHANGED <<remote, vault, open, enabled, boot>>

BootNext ==
  \E d \in Device :
    CreateLocal(d) \/ Enable(d) \/ RestoreVault(d) \/ BootFault(d) \/ Works(d)

BootSpec == BootInit /\ [][BootNext]_bootVars

-----------------------------------------------------------------------------
(* Properties *)

\* Metadata and vault belong together: a device with sync enabled holds the
\* vault the server has for the account, however two devices enable at once and
\* whatever was lost or stopped in the middle (syncNow would answer
\* "vault_mismatch", or write one vault's items into another).
EnabledIsServed == \A d \in enabled : vault[d] = remote

\* NoSilentOverwrite of SyncClient, from the first local vault on: a vault that
\* was uploaded or restored while others push loses no version either.
BootNoOverwrite == [][torn' = {} => VersionsKept]_bootVars
=============================================================================
