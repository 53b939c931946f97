-------------------------- MODULE MCAgnesScheduler --------------------------
(* Instances of AgnesScheduler for TLC. *)
EXTENDS AgnesScheduler, TLC

\* Nothing in AgnesScheduler orders ids: the heap is a set.
IdSymmetry == Permutations(Ids)
=============================================================================
