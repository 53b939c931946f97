-------------------------- MODULE BigbangScheduler --------------------------
(***************************************************************************)
(* The task graph of the "bigbang" scheduler (src/scheduler.ts): statuses, *)
(* dependency sets and the adjacency that unblocking walks.  The methods   *)
(* are synchronous, but executeNextTask calls onTaskExecute before it      *)
(* marks the task COMPLETED and onTaskComplete before it unblocks the      *)
(* dependents; both may call any method, or throw.  frames is the stack of *)
(* the executions whose hook is running.                                   *)
(*                                                                         *)
(* Abstracted: the heap and the times.  Which READY task executeNextTask   *)
(* finds, if it finds one, is left open: the heap keeps duplicates and     *)
(* entries of tasks that are gone, and the search stops half-way.  The     *)
(* limit on the number of tasks is left out: it only refuses additions.    *)
(***************************************************************************)
EXTENDS Naturals, Sequences, FiniteSets

CONSTANTS
    Ids,        \* the task ids callers use
    MaxFrames,  \* bound: executions whose hook is running
    MaxEdges    \* bound: dependencies of all tasks together

VARIABLES
    status,      \* "NONE" for an id that the tasks map lacks; FAILED is CANCELLED as well
    deps,        \* depSet and task.dependencies; the ids need not exist
    adjacency,   \* the reverse graph
    frames,      \* the executions whose hook is running, the innermost last
    interrupted  \* history: COMPLETED tasks whose onTaskComplete threw

vars == <<status, deps, adjacency, frames, interrupted>>

\* An execution: its task, the hook that runs, and whether the task was deleted since.
Frame == [found : Ids, hook : {"onTaskExecute", "onTaskComplete"}, gone : BOOLEAN]

Init ==
    /\ status = [i \in Ids |-> "NONE"]
    /\ deps = [i \in Ids |-> {}]
    /\ adjacency = [i \in Ids |-> {}]
    /\ frames = <<>>
    /\ interrupted = {}

\* _dependenciesMet under the statuses st, for the dependencies D.
Met(st, D) == \A d \in D : st[d] = "COMPLETED"

\* _unblockDependents(id) under the statuses st.
Unblocked(st, id) ==
    [c \in Ids |-> IF c \in adjacency[id] /\ st[c] = "PENDING" /\ Met(st, deps[c])
                   THEN "READY" ELSE st[c]]

\* _registerDeps and _unregisterDeps go through the dependencies D of id alone.
Register(adj, id, D)   == [d \in Ids |-> IF d \in D THEN adj[d] \cup {id} ELSE adj[d]]
Unregister(adj, id, D) == [d \in Ids |-> IF d \in D THEN adj[d] \ {id} ELSE adj[d]]

\* _cleanupAdjacency goes through everything.
CleanedUp(adj, id) == [d \in Ids |-> adj[d] \ {id}]

AddTask(id, D) ==
    LET added == [status EXCEPT ![id] = "PENDING"]
    IN  /\ status[id] = "NONE"
        /\ deps' = [deps EXCEPT ![id] = D]
        /\ adjacency' = Register(adjacency, id, D)
        /\ status' = IF Met(added, D) THEN [added EXCEPT ![id] = "READY"] ELSE added
        /\ UNCHANGED <<frames, interrupted>>

\* Mutation: the task is not looked at again.
UpdatedStatusKept(id, D) == status[id]

\* A PENDING task may become READY; a READY one is not demoted.
UpdatedStatus(id, D) == IF status[id] = "PENDING" /\ Met(status, D) THEN "READY" ELSE status[id]

\* updateTask of a task in any status, with and without new dependencies.
UpdateDeps(id, D) ==
    /\ status[id] # "NONE"
    /\ deps' = [deps EXCEPT ![id] = D]
    /\ adjacency' = Register(Unregister(adjacency, id, deps[id]), id, D)
    /\ status' = [status EXCEPT ![id] = UpdatedStatus(id, D)]
    /\ UNCHANGED <<frames, interrupted>>

UpdateFields(id) ==
    /\ status[id] # "NONE"
    /\ status' = [status EXCEPT ![id] = UpdatedStatus(id, deps[id])]
    /\ UNCHANGED <<deps, adjacency, frames, interrupted>>

Orphaned(ids) == [n \in DOMAIN frames |-> [frames[n] EXCEPT !.gone = @ \/ frames[n].found \in ids]]

\* The dependents of id keep their edges and stay in its adjacency.
DeleteTask(id) ==
    /\ status[id] # "NONE"
    /\ status' = [status EXCEPT ![id] = "NONE"]
    /\ deps' = [deps EXCEPT ![id] = {}]
    /\ adjacency' = CleanedUp(Unregister(adjacency, id, deps[id]), id)
    /\ frames' = Orphaned({id})
    /\ interrupted' = interrupted \ {id}

Clear ==
    /\ status' = [i \in Ids |-> "NONE"]
    /\ deps' = [i \in Ids |-> {}]
    /\ adjacency' = [i \in Ids |-> {}]
    /\ frames' = Orphaned(Ids)
    /\ interrupted' = {}

\* completeTask, forced if the task is in a terminal status.
CompleteTask(id) ==
    /\ status[id] # "NONE"
    /\ status' = Unblocked([status EXCEPT ![id] = "COMPLETED"], id)
    /\ UNCHANGED <<deps, adjacency, frames, interrupted>>

\* failTask, and cancelTask of a task that is not COMPLETED.
FailTask(id) ==
    /\ status[id] # "NONE"
    /\ status' = [status EXCEPT ![id] = "FAILED"]
    /\ UNCHANGED <<deps, adjacency, frames, interrupted>>
-----------------------------------------------------------------------------
(* executeNextTask *)

Top == frames[Len(frames)]

PopFrame == frames' = SubSeq(frames, 1, Len(frames) - 1)

\* Up to onTaskExecute.
ExecuteNextTask(id) ==
    /\ status[id] = "READY" /\ Met(status, deps[id])
    /\ Len(frames) < MaxFrames
    /\ frames' = Append(frames, [found |-> id, hook |-> "onTaskExecute", gone |-> FALSE])
    /\ UNCHANGED <<status, deps, adjacency, interrupted>>

\* COMPLETED, whatever the hook made of the task.
OnTaskExecuteReturns ==
    /\ frames # <<>> /\ Top.hook = "onTaskExecute"
    /\ status' = IF Top.gone THEN status ELSE [status EXCEPT ![Top.found] = "COMPLETED"]
    /\ frames' = [frames EXCEPT ![Len(frames)].hook = "onTaskComplete"]
    /\ UNCHANGED <<deps, adjacency, interrupted>>

OnTaskCompleteReturns ==
    /\ frames # <<>> /\ Top.hook = "onTaskComplete"
    /\ status' = Unblocked(status, Top.found)
    /\ PopFrame
    /\ UNCHANGED <<deps, adjacency, interrupted>>

\* The task stays as it is, and so do its dependents.
HookThrows ==
    /\ frames # <<>>
    /\ interrupted' = IF Top.hook = "onTaskComplete" /\ ~Top.gone
                      THEN interrupted \cup {Top.found} ELSE interrupted
    /\ PopFrame
    /\ UNCHANGED <<status, deps, adjacency>>
-----------------------------------------------------------------------------
FewEdges == Cardinality({e \in Ids \X Ids : e[2] \in deps'[e[1]]}) <= MaxEdges

Next ==
    \/ \E id \in Ids, D \in SUBSET Ids : (AddTask(id, D) \/ UpdateDeps(id, D)) /\ FewEdges
    \/ \E id \in Ids : \/ UpdateFields(id) \/ DeleteTask(id) \/ CompleteTask(id) \/ FailTask(id)
                       \/ ExecuteNextTask(id)
    \/ OnTaskExecuteReturns
    \/ OnTaskCompleteReturns
    \/ HookThrows
    \/ Clear

Spec == Init /\ [][Next]_vars
-----------------------------------------------------------------------------
(* Properties *)

TypeOK ==
    /\ status \in [Ids -> {"NONE", "PENDING", "READY", "COMPLETED", "FAILED"}]
    /\ deps \in [Ids -> SUBSET Ids]
    /\ adjacency \in [Ids -> SUBSET Ids]
    /\ frames \in Seq(Frame)
    /\ interrupted \in SUBSET Ids

\* The reverse graph is the graph reversed, through deletions of tasks that others
\* depend on and additions of the same id.
AdjacencyExact == \A i, d \in Ids : i \in adjacency[d] <=> d \in deps[i]

\* A completion that onTaskComplete is being told, so that unblocking is still to come.
Announcing(d) ==
    \E n \in DOMAIN frames : frames[n].found = d /\ frames[n].hook = "onTaskComplete" /\ ~frames[n].gone

\* "PENDING -> READY when all dependencies are COMPLETED": a task that waits has a
\* dependency that is not COMPLETED, or whose dependents are yet to be unblocked, or whose
\* hook threw; through nested executions, and whatever the hooks update, fail or delete.
PendingIsBlocked ==
    \A i \in Ids : status[i] = "PENDING" =>
        \E d \in deps[i] : status[d] # "COMPLETED" \/ d \in interrupted \/ Announcing(d)
=============================================================================
