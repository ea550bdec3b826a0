------------------------------ MODULE MC_Phase1 -------------------------------
EXTENDS Phase1Properties, TLC
Symmetry == Permutations(Pcb) \cup Permutations(Semd) \cup Permutations(Sem)
=============================================================================
