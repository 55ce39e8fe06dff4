---------------------------- MODULE MCVaultSession ----------------------------
(***************************************************************************)
(* Small instances of VaultSession.                                        *)
(***************************************************************************)
EXTENDS VaultSession
=============================================================================
