------------------------------ MODULE MC_P2Test ------------------------------
(* The test program of phase 2 on the Nucleus, for TLC. *)
EXTENDS P2Test
=============================================================================
