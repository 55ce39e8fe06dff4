----------------------------- MODULE MCExtension -----------------------------
(***************************************************************************)
(* Small instances of Extension: many documents, or many pairings.          *)
(***************************************************************************)
EXTENDS Extension, TLC

\* Two documents of one site, and one of another.
TwoSites == [d \in Doc |-> IF d = "d3" THEN "other site" ELSE "site"]

MixedPlan == <<{"list"}, {"watch", "fill"}, {"review", "list"}, {"review", "fill"}>>
FillPlan == <<{"list"}, {"fill"}>>
=============================================================================
