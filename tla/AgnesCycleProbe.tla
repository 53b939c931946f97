-------------------------- MODULE AgnesCycleProbe ---------------------------
(***************************************************************************)
(* The breadth-first search of _wouldCreateCycle in the "agnes flash"      *)
(* scheduler (src/scheduler.ts), together with that of _witnessPath, which *)
(* is the same search with parents: would the edge task -> dep close a     *)
(* loop, and along which path?  AgnesScheduler takes the answer to be      *)
(* reachability; this module shows that the loop computes that.  The order *)
(* in which a set of dependencies is iterated is left open.                *)
(***************************************************************************)
EXTENDS Naturals, Sequences, SequencesExt, Reachability

CONSTANTS
    Ids,
    NoId   \* no parent

VARIABLES
    deps,    \* the dependencies of each id, {} for an id the map lacks
    task,    \* taskId
    dep,     \* depId
    visited,
    queue,   \* the part of the queue from head on
    parent,
    answer   \* <<>> while searching, then <<wouldCreateCycle, witnessPath>>

vars == <<deps, task, dep, visited, queue, parent, answer>>

Init ==
    /\ deps \in [Ids -> SUBSET Ids]
    /\ task \in Ids /\ dep \in Ids
    /\ visited = {dep}
    /\ queue = <<dep>>
    /\ parent = [i \in Ids |-> NoId]
    /\ answer = <<>>

\* The parents from n up to dep, reversed; without dep when a parent is missing.
PathTo[n \in Ids] ==
    IF n = dep THEN <<n>>
    ELSE IF parent[n] = NoId THEN <<>> ELSE Append(PathTo[parent[n]], n)

\* Mutation: the witness is not closed by depId.
WitnessOpen == PathTo[task]

\* The path to the task, and dep again; <<dep, task>> if dep is not found.
Witness ==
    IF PathTo[task] # <<>> /\ Head(PathTo[task]) = dep THEN Append(PathTo[task], dep)
    ELSE <<dep, task>>

FindTask ==
    /\ answer = <<>> /\ queue # <<>>
    /\ Head(queue) = task
    /\ answer' = <<TRUE, Witness>>
    /\ UNCHANGED <<deps, task, dep, visited, queue, parent>>

\* Mutation: only the dependencies of dep itself are followed.
FreshDirect(node) == IF node = dep THEN deps[node] \ visited ELSE {}

Fresh(node) == deps[node] \ visited

\* Mutation: what is queued is not remembered.
SeenForgotten(node) == visited

Seen(node) == visited \cup Fresh(node)

\* Mutation: the head pointer stays.
RestStuck == queue

Rest == Tail(queue)

Expand ==
    /\ answer = <<>> /\ queue # <<>>
    /\ Head(queue) # task
    /\ \E order \in SetToSeqs(Fresh(Head(queue))) : queue' = Rest \o order
    /\ visited' = Seen(Head(queue))
    /\ parent' = [i \in Ids |-> IF i \in Fresh(Head(queue)) THEN Head(queue) ELSE parent[i]]
    /\ UNCHANGED <<deps, task, dep, answer>>

Exhaust ==
    /\ answer = <<>> /\ queue = <<>>
    /\ answer' = <<FALSE, <<>>>>
    /\ UNCHANGED <<deps, task, dep, visited, queue, parent>>

Next == FindTask \/ Expand \/ Exhaust

\* The search is one synchronous loop.
Spec == Init /\ [][Next]_vars /\ WF_vars(Next)
-----------------------------------------------------------------------------
(* Properties *)

TypeOK ==
    /\ deps \in [Ids -> SUBSET Ids]
    /\ task \in Ids /\ dep \in Ids
    /\ visited \subseteq Ids
    /\ queue \in Seq(Ids)
    /\ parent \in [Ids -> Ids \cup {NoId}]
    /\ \A k \in DOMAIN queue : queue[k] \in visited

\* The search answers whether dep reaches the task, which is what AgnesScheduler
\* takes _wouldCreateCycle to be, and whether adding the edge to an acyclic graph
\* closes a loop.
AnswerIsReachability ==
    answer # <<>> =>
        /\ answer[1] <=> task \in ReachableFrom(deps, {dep})
        /\ IsAcyclic(deps) =>
              (answer[1] <=> ~IsAcyclic([deps EXCEPT ![task] = @ \cup {dep}]))

\* The witness of a refusal is the loop that the new edge task -> dep would close:
\* from dep along existing dependencies to the task, and back to dep.
WitnessClosesLoop ==
    answer # <<>> /\ answer[1] =>
        LET path == answer[2]
            n    == Len(path)
        IN  /\ n > 1 /\ path[1] = dep /\ path[n] = dep /\ path[n - 1] = task
            /\ \A k \in 1..(n - 2) : path[k + 1] \in deps[path[k]]
=============================================================================
