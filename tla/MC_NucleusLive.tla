--------------------------- MODULE MC_NucleusLive ---------------------------
(* Small instances of the Nucleus for TLC, under fairness. *)
EXTENDS NucleusLiveness
=============================================================================
