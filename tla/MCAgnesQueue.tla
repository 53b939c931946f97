---------------------------- MODULE MCAgnesQueue ----------------------------
(* Instances of AgnesQueue for TLC: ordinary operations o1.. and a dispose. *)
EXTENDS AgnesQueue

CONSTANTS o1, o2, o3, d1

FourOps == {o1, o2, o3, d1}
OneDisposal == {d1}

AwaitedOrNot == {"sequential", "detached"}
OnlyParallel == {"parallel"}
OnlySequential == {"sequential"}
=============================================================================
