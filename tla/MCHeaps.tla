------------------------------ MODULE MCHeaps -------------------------------
(* Instances of HeapMachine for TLC. *)
EXTENDS HeapMachine

ThreeRanks == 0..2

\* Entries differ in their rank only.
KeySymmetry == Permutations(Keys)
=============================================================================
