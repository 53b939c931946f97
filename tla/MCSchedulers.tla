---------------------------- MODULE MCSchedulers ----------------------------
(* Instances of Schedulers for TLC. *)
EXTENDS Schedulers, TLC

TwoValues  == 0..1
LaterTimes == 1..2
OneTime    == {0}

\* AgnesDispatch has ids of its own, which it orders; the other modules order none.
IdSymmetry == Permutations(Ids)
=============================================================================
