---------------------------- MODULE MCSyncBootstrap ----------------------------
(***************************************************************************)
(* A small instance of SyncBootstrap: two devices, two records, one record *)
(* per page, so that a record can move while the pages are read.           *)
(***************************************************************************)
EXTENDS SyncBootstrap, TLC

CONSTANTS d1, d2, r1, r2

Symmetry == Permutations(Device) \cup Permutations(RecordId)
=============================================================================
