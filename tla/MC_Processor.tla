---------------------------- MODULE MC_Processor ----------------------------
(* Small instances of the Nucleus with processor states for TLC. *)
EXTENDS ProcessorState, NucleusProperties, TLC

PcbSymmetry == Permutations(Pcb)
=============================================================================
