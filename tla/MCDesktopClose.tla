---------------------------- MODULE MCDesktopClose ----------------------------
(***************************************************************************)
(* Small instances of DesktopClose.                                        *)
(***************************************************************************)
EXTENDS DesktopClose
=============================================================================
