---------------------------- MODULE MCVaultChanges ----------------------------
(***************************************************************************)
(* Small instances of VaultChanges.                                        *)
(***************************************************************************)
EXTENDS VaultChanges, TLC

\* A file with a login twice and a row without one.
OneFile == {<<"ann", "none", "ann">>}
=============================================================================
