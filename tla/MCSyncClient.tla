----------------------------- MODULE MCSyncClient -----------------------------
(***************************************************************************)
(* Small instances of SyncClient: two devices, one or two records.  Three  *)
(* edits are the least in which one user overwrites what another changed:  *)
(* the item is added, then changed on both devices.                        *)
(***************************************************************************)
EXTENDS SyncClient, TLC

CONSTANTS d1, d2, r1, r2

Symmetry == Permutations(Device) \cup Permutations(RecordId)
=============================================================================
