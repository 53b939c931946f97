---------------------------- MODULE KatScheduler ----------------------------
(***************************************************************************)
(* The "kat" scheduler (src/scheduler.ts): a heap with one node for each   *)
(* task, completed ones too, and a dependency entry per task with edges in *)
(* both directions.  The methods are synchronous: each is one step.        *)
(* getNextExecutableTask changes nothing and is the operator Answer.       *)
(*                                                                         *)
(* The heap is a record of AgnesHeap: its sifts are the same; "index"      *)
(* stands for the search through the array in remove.  A node has a copy   *)
(* of the keys of its task, which the two update methods replace together: *)
(* the order is read from the tasks.  No method sets the status "failed".  *)
(***************************************************************************)
EXTENDS Naturals, Sequences, FiniteSets, Reachability

H == INSTANCE AgnesHeap

CONSTANTS
    Ids,
    TaskKeys,  \* bound: the priority, executeAt and createdAt that tasks may have
    MaxEdges   \* bound: dependencies of all tasks together

VARIABLES
    status,      \* "NONE", "pending" or "completed"
    task,        \* the keys of each id
    deps,        \* depEntry.dependencies
    dependents,  \* depEntry.dependents
    heap

vars == <<status, task, deps, dependents, heap>>

Unset == [priority |-> 0, executeAt |-> 0, createdAt |-> 0]

Existing == {i \in Ids : status[i] # "NONE"}

Init ==
    /\ status = [i \in Ids |-> "NONE"]
    /\ task = [i \in Ids |-> Unset]
    /\ deps = [i \in Ids |-> {}]
    /\ dependents = [i \in Ids |-> {}]
    /\ heap = H!Empty(Ids)
-----------------------------------------------------------------------------
(* The heap *)

\* MaxHeap.compare > 0: later executeAt and later createdAt are nearer the root.
Above(t) ==
    {p \in Ids \X Ids :
        LET x == t[p[1]]
            y == t[p[2]]
        IN  \/ x.priority > y.priority
            \/ x.priority = y.priority
               /\ \/ x.executeAt > y.executeAt
                  \/ x.executeAt = y.executeAt /\ x.createdAt > y.createdAt}

\* MaxHeap.add of a node that is not there.
HeapAdd(h, id, t) == H!Push(h, id, Above(t))

\* MaxHeap.remove: the node that takes the place may sink and never rises.
HeapRemove(h, id, t) ==
    LET rest == H!Vacate(h, id)
        at   == h.index[id]
    IN  IF at > H!Size(rest) THEN rest ELSE H!SiftDown(rest, at, Above(t))[1]
-----------------------------------------------------------------------------
(* The methods *)

AddTask(id, k, D) ==
    /\ status[id] = "NONE"
    /\ D \subseteq Existing
    /\ status' = [status EXCEPT ![id] = "pending"]
    /\ task' = [task EXCEPT ![id] = k]
    /\ deps' = [deps EXCEPT ![id] = D]
    /\ dependents' = [d \in Ids |-> IF d \in D THEN dependents[d] \cup {id} ELSE dependents[d]]
    /\ heap' = HeapAdd(heap, id, task')

CompleteTask(id) ==
    /\ status[id] # "NONE"
    /\ status' = [status EXCEPT ![id] = "completed"]
    /\ UNCHANGED <<task, deps, dependents, heap>>

\* updateTaskPriority and updateTaskTimestamp, of tasks in any status.
Rekey(id, k) ==
    /\ status[id] # "NONE"
    /\ task' = [task EXCEPT ![id] = k]
    /\ heap' = HeapAdd(HeapRemove(heap, id, task), id, task')
    /\ UNCHANGED <<status, deps, dependents>>

UpdateTaskPriority(id, k) == k = [task[id] EXCEPT !.priority = k.priority] /\ Rekey(id, k)
UpdateTaskTimestamp(id, k) == k = [task[id] EXCEPT !.executeAt = k.executeAt] /\ Rekey(id, k)

\* Mutation: the direct dependencies are looked at.
WouldCreateCycleDirect(id, d) == id = d \/ id \in deps[d]

\* The walk from d along dependencies meets id.
WouldCreateCycle(id, d) == id \in ReachableFrom(deps, {d})

AddDependency(id, d) ==
    /\ id \in Existing /\ d \in Existing
    /\ ~WouldCreateCycle(id, d)
    /\ deps' = [deps EXCEPT ![id] = @ \cup {d}]
    /\ dependents' = [dependents EXCEPT ![d] = @ \cup {id}]
    /\ UNCHANGED <<status, task, heap>>

RemoveDependency(id, d) ==
    /\ id \in Existing
    /\ deps' = [deps EXCEPT ![id] = @ \ {d}]
    /\ dependents' = IF d \in Existing THEN [dependents EXCEPT ![d] = @ \ {id}] ELSE dependents
    /\ UNCHANGED <<status, task, heap>>

\* Mutation: only pending dependents are released.
ReleasedPending(id) == {i \in dependents[id] : status[i] = "pending"}

\* The dependents that removeTask goes through: those that exist.
Released(id) == {i \in dependents[id] : status[i] # "NONE"}

\* The dependents lose the edge, whether the task was completed or not; it stays
\* among the dependents of what it depended on.
RemoveTask(id) ==
    /\ status[id] # "NONE"
    /\ heap' = HeapRemove(heap, id, task)
    /\ deps' = [i \in Ids |-> IF i = id THEN {}
                              ELSE IF i \in Released(id) THEN deps[i] \ {id} ELSE deps[i]]
    /\ dependents' = [dependents EXCEPT ![id] = {}]
    /\ status' = [status EXCEPT ![id] = "NONE"]
    /\ task' = [task EXCEPT ![id] = Unset]
-----------------------------------------------------------------------------
(* getNextExecutableTask *)

\* A node whose task is pending, due and free of dependencies that are not completed.
Executable(id, now) ==
    /\ status[id] = "pending"
    /\ task[id].executeAt <= now
    /\ \A d \in deps[id] : status[d] = "completed"

\* The order of the scan: priority, earlier executeAt, earlier createdAt.
ScanBefore(a, b) ==
    LET x == task[a]
        y == task[b]
    IN  \/ x.priority > y.priority
        \/ x.priority = y.priority
           /\ \/ x.executeAt < y.executeAt
              \/ x.executeAt = y.executeAt /\ x.createdAt < y.createdAt

\* Mutation: without the scan.
AnswerAtRoot(now) ==
    IF heap.items # <<>> /\ Executable(heap.items[1], now) THEN <<heap.items[1]>> ELSE <<>>

\* The root if it is executable, else the first in the order of the scan, ties going to
\* the position in the array; as a sequence of at most one id.
Answer(now) ==
    LET nodes == {n \in DOMAIN heap.items : Executable(heap.items[n], now)}
        first == CHOOSE n \in nodes : \A m \in nodes \ {n} :
                    \/ ScanBefore(heap.items[n], heap.items[m])
                    \/ ~ScanBefore(heap.items[m], heap.items[n]) /\ n < m
    IN  IF nodes = {} THEN <<>>
        ELSE IF 1 \in nodes THEN <<heap.items[1]>> ELSE <<heap.items[first]>>
-----------------------------------------------------------------------------
FewEdges == Cardinality({e \in Ids \X Ids : e[2] \in deps'[e[1]]}) <= MaxEdges

Next ==
    \/ \E id \in Ids, k \in TaskKeys, D \in SUBSET Ids : AddTask(id, k, D) /\ FewEdges
    \/ \E id \in Ids : CompleteTask(id) \/ RemoveTask(id)
    \/ \E id \in Ids, k \in TaskKeys : UpdateTaskPriority(id, k) \/ UpdateTaskTimestamp(id, k)
    \/ \E id, d \in Ids : RemoveDependency(id, d) \/ (AddDependency(id, d) /\ FewEdges)

Spec == Init /\ [][Next]_vars
-----------------------------------------------------------------------------
(* Properties *)

\* Besides the types: the heap holds every task that exists, once, and no other.
TypeOK ==
    /\ status \in [Ids -> {"NONE", "pending", "completed"}]
    /\ \A i \in Ids : IF status[i] = "NONE" THEN task[i] = Unset ELSE task[i] \in TaskKeys
    /\ deps \in [Ids -> SUBSET Ids]
    /\ dependents \in [Ids -> SUBSET Ids]
    /\ H!Coherent(heap)
    /\ {i \in Ids : H!HeapContains(heap, i)} = Existing

\* Tasks depend on tasks that exist and that know it, and never in a circle: through
\* removals, which leave the removed id among the dependents of others, and additions of
\* the same id again.  A task blocked for ever is thus one whose dependency nobody completes.
GraphSound ==
    /\ \A i, d \in Ids : d \in deps[i] => d \in Existing /\ i \in dependents[d]
    /\ IsAcyclic(deps)

\* Once every executeAt has come, getNextExecutableTask has an answer as long as a task is
\* pending, so that a host that completes what it is given gets through all of them.  No
\* history of additions, updates and removals leaves the pending tasks waiting for each
\* other, for a task that is gone, or for a node that the heap has lost.
NeverStuck(now) ==
    LET pending == {i \in Ids : status[i] = "pending"}
    IN  pending # {} /\ (\A i \in pending : task[i].executeAt <= now) => Answer(now) # <<>>
=============================================================================
