-------------------------- MODULE MCQwenScheduler ---------------------------
(* Instances of QwenScheduler for TLC. *)
EXTENDS QwenScheduler, TLC

\* Nothing in QwenScheduler orders ids: the heaps are a set.
IdSymmetry == Permutations(Ids)
=============================================================================
