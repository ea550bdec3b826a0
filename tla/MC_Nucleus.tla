------------------------------ MODULE MC_Nucleus ------------------------------
(* Small instances of the Nucleus for TLC. *)
EXTENDS NucleusRefinement, TLC

PcbSymmetry == Permutations(Pcb)
=============================================================================
