----------------------------- MODULE AgnesGraph -----------------------------
(***************************************************************************)
(* What the "agnes flash" scheduler (src/scheduler.ts) computes from a     *)
(* task graph: functions of the statuses st (st[i] is "NONE" when the      *)
(* tasks map lacks i), of a dependency set D and of the reverse index rev. *)
(***************************************************************************)
EXTENDS Reachability

CONSTANT Ids   \* the task ids callers use

Terminal == {"COMPLETED", "FAILED", "CANCELLED"}
Live     == {"PENDING", "READY", "RUNNING"}
Statuses == Live \cup Terminal

\* Register id as a dependent of each of D (_addDependent), and unregister it.
Register(rev, id, D)   == [d \in Ids |-> IF d \in D THEN rev[d] \cup {id} ELSE rev[d]]

\* Mutation: the reverse edges stay.
UnregisterForgotten(rev, id, D) == rev

Unregister(rev, id, D) == [d \in Ids |-> IF d \in D THEN rev[d] \ {id} ELSE rev[d]]

\* Every dependency exists and is COMPLETED, under the statuses st.
DepsSatisfied(st, D) == \A d \in D : st[d] = "COMPLETED"

HasFailedDep(st, D) == \E d \in D : st[d] \in {"FAILED", "CANCELLED"}

\* The walk of _propagateFailure through the reverse index rev stops at COMPLETED
\* tasks and at ids the map lacks.
Onward(st, rev) ==
    [n \in Ids |-> IF st[n] \in {"NONE", "COMPLETED"} THEN {} ELSE rev[n]]

\* Mutations: the walk ends at the direct dependents; it marks terminal tasks too.
VictimsDirect(st, rev, origin) == {n \in rev[origin] \ {origin} : st[n] \in Live}
VictimsTerminalToo(st, rev, origin) ==
    {n \in ReachableFrom(Onward(st, rev), rev[origin]) \ {origin} : st[n] # "NONE"}

\* What _propagateFailure marks: the live tasks that the walk reaches.
Victims(st, rev, origin) ==
    {n \in ReachableFrom(Onward(st, rev), rev[origin]) \ {origin} : st[n] \in Live}

Fail(st, victims) == [i \in Ids |-> IF i \in victims THEN "FAILED" ELSE st[i]]

Promote(st, promoted) == [i \in Ids |-> IF i \in promoted THEN "READY" ELSE st[i]]

\* The status _reconcileStatus gives a live task whose status is s.
Reconciled(st, s, D) ==
    IF HasFailedDep(st, D) THEN "FAILED"
    ELSE IF DepsSatisfied(st, D) THEN IF s = "PENDING" THEN "READY" ELSE s
    ELSE IF s = "READY" THEN "PENDING" ELSE s
=============================================================================
