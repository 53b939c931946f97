---------------------------- MODULE Reachability ----------------------------
(***************************************************************************)
(* Reachability in a finite graph given by its successor function.  The    *)
(* schedulers walk their graphs breadth first with a visited set; what     *)
(* such a walk visits is the least set that holds its start and is closed  *)
(* under successors, which is how it is defined here: no recursion, so     *)
(* that TLC can evaluate it and proofs can use it.                         *)
(***************************************************************************)

\* S holds the successors of each of its members.
ClosedUnder(succ, S) == \A n \in S : succ[n] \subseteq S

\* Everything a walk from the set "from" visits, over DOMAIN succ.
ReachableFrom(succ, from) ==
    {n \in DOMAIN succ : \A S \in SUBSET DOMAIN succ :
                            from \subseteq S /\ ClosedUnder(succ, S) => n \in S}

\* No non-empty set of nodes in which every node has a successor: in a
\* finite graph, no cycle.
IsAcyclic(succ) ==
    \A S \in SUBSET DOMAIN succ :
        S # {} => \E n \in S : succ[n] \cap S = {}
=============================================================================
