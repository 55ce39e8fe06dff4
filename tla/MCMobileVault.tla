----------------------------- MODULE MCMobileVault -----------------------------
(***************************************************************************)
(* A small instance of MobileVault.                                        *)
(***************************************************************************)
EXTENDS MobileVault

CONSTANT Edits   \* bound on the edits and on the vaults in an envelope

MCEnvelope == [vault : 1..Edits, edit : 1..Edits]
=============================================================================
