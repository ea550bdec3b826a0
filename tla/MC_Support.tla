----------------------------- MODULE MC_Support -----------------------------
(* Instances of the support level for TLC.                                 *)
EXTENDS SupportProperties
=============================================================================
