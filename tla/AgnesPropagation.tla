-------------------------- MODULE AgnesPropagation --------------------------
(***************************************************************************)
(* The breadth-first walk of _propagateFailure and _expandDependents in    *)
(* the "agnes flash" scheduler (src/scheduler.ts), one dequeued node at a  *)
(* time.  It decides where to go on by statuses that it is changing        *)
(* itself; AgnesScheduler takes the result to be the set Victims of the    *)
(* statuses as they were, and this module shows that it is.  The order in  *)
(* which a set of dependents is iterated is left open.                     *)
(***************************************************************************)
EXTENDS Naturals, Sequences, SequencesExt, AgnesGraph

VARIABLES
    before,     \* the statuses when the walk starts
    dependents, \* the reverse index
    origin,
    status,
    visited,
    queue,      \* the part of the queue from head on
    marked      \* the tasks marked so far

vars == <<before, dependents, origin, status, visited, queue, marked>>

Init ==
    /\ before \in [Ids -> {"NONE", "PENDING", "READY", "COMPLETED", "CANCELLED"}]
    /\ dependents \in [Ids -> SUBSET Ids]
    /\ origin \in Ids /\ before[origin] # "NONE"
    /\ status = before
    /\ visited = {origin} \cup dependents[origin]
    /\ queue \in SetToSeqs(dependents[origin] \ {origin})
    /\ marked = {}

Node == Head(queue)

\* Mutation: the walk goes on behind COMPLETED tasks.
ExpandsAll == status[Node] # "NONE"

\* A node is expanded when it is marked, or was FAILED or CANCELLED before.
Expands == status[Node] \notin {"NONE", "COMPLETED"}

\* Mutation: dependents that were visited are queued again.
FreshAgain == dependents[Node]

Fresh == dependents[Node] \ visited

Marks == status[Node] \in Live

\* Mutation: the head pointer stays.
RestStuck == queue

Rest == Tail(queue)

Visit ==
    /\ queue # <<>>
    /\ \E order \in SetToSeqs(IF Expands THEN Fresh ELSE {}) : queue' = Rest \o order
    /\ visited' = IF Expands THEN visited \cup Fresh ELSE visited
    /\ status' = IF Marks THEN [status EXCEPT ![Node] = "FAILED"] ELSE status
    /\ marked' = IF Marks THEN marked \cup {Node} ELSE marked
    /\ UNCHANGED <<before, dependents, origin>>

\* The walk is one synchronous loop.
Spec == Init /\ [][Visit]_vars /\ WF_vars(Visit)
-----------------------------------------------------------------------------
(* Properties *)

TypeOK ==
    /\ before \in [Ids -> Statuses \cup {"NONE"}]
    /\ dependents \in [Ids -> SUBSET Ids]
    /\ origin \in Ids
    /\ status \in [Ids -> Statuses \cup {"NONE"}]
    /\ visited \subseteq Ids
    /\ queue \in Seq(Ids)
    /\ marked \subseteq visited
    /\ \A k \in DOMAIN queue : queue[k] \in visited \ marked

\* When the walk has ended it has failed exactly the victims that AgnesScheduler
\* computes from the statuses of before, and it has counted each of them once.
MarksTheVictims ==
    queue = <<>> => /\ marked = Victims(before, dependents, origin)
                    /\ status = Fail(before, marked)
=============================================================================
