--------------------------- MODULE AgnesScheduler ---------------------------
(***************************************************************************)
(* The task graph of the "agnes flash" scheduler (src/scheduler.ts): task  *)
(* statuses, dependency edges and their reverse index, the set of heap     *)
(* entries and the incremental counters, with one action per mutating      *)
(* method.                                                                 *)
(*                                                                         *)
(* Public methods run one at a time through _serialized (AgnesQueue models *)
(* that queue), so a method is one step, except executeNextTask with a     *)
(* runner.  That one awaits user code in the middle and is two actions,    *)
(* ClaimNext and then RunSucceeds or RunFails.  Every method called in     *)
(* between is a nested call that the runner makes and awaits: nested calls *)
(* bypass the queue.  frames is the stack of executions awaiting a runner. *)
(*                                                                         *)
(* Abstracted: the order of the heap and executeTime (AgnesDispatch and    *)
(* AgnesHeap model them; here any READY task with satisfied dependencies   *)
(* may be the one that is best and due), names, payloads, timestamps,      *)
(* attempts, the monotone metrics, and hooks, which are advisory and taken *)
(* not to call the scheduler back.  A rejected call changes nothing that   *)
(* is modelled here, so rejection is the absence of a step.                *)
(***************************************************************************)
EXTENDS Integers, Sequences, FiniteSets, Reachability, AgnesGraph

CONSTANTS
    MaxTasks,         \* SchedulerOptions.maxTasks
    AllowForwardRefs, \* SchedulerOptions.allowForwardRefs
    HasRunner,        \* whether SchedulerOptions.runner is set
    MaxDepth,         \* bound: executions awaiting a runner at a time
    MaxEdges,         \* bound: highest edge counter from which a task is added
    MaxDrift          \* bound: how far below the truth a status counter may be then

ASSUME AgnesAssumption ==
    /\ IsFiniteSet(Ids)
    /\ MaxTasks \in Nat /\ MaxDepth \in Nat /\ MaxEdges \in Nat /\ MaxDrift \in Nat
    /\ AllowForwardRefs \in BOOLEAN /\ HasRunner \in BOOLEAN

VARIABLES
    status,     \* status of each id; "NONE" when the tasks map lacks it
    deps,       \* task.dependencies, {} when the tasks map lacks the id
    dependents, \* the reverse index
    heap,       \* the ids in the heap
    byStatus,   \* counters.byStatus
    edges,      \* counters.edges
    frames,     \* executions awaiting their runner, the innermost last
    disposed

vars == <<status, deps, dependents, heap, byStatus, edges, frames, disposed>>

\* A frame names the task its execution chose.  obj identifies the Task object:
\* the position of the first frame that chose it.  orphan is "NONE" as long as
\* the tasks map holds that object, and the object's own status afterwards.
Frame == [id : Ids, obj : Nat, orphan : Statuses \cup {"NONE"}]

WithOrphan(f, s) == [id |-> f.id, obj |-> f.obj, orphan |-> s]

Existing == {i \in Ids : status[i] # "NONE"}

Init ==
    /\ status = [i \in Ids |-> "NONE"]
    /\ deps = [i \in Ids |-> {}]
    /\ dependents = [i \in Ids |-> {}]
    /\ heap = {}
    /\ byStatus = [s \in Statuses |-> 0]
    /\ edges = 0
    /\ frames = <<>>
    /\ disposed = FALSE
-----------------------------------------------------------------------------
(* Graph mechanics *)

\* heap.remove, which ignores an id that is not there.
DequeueForgotten(h, id) == h   \* mutation: the entry stays
Dequeue(h, id) == h \ {id}

\* Mutation: only d's own dependencies are looked at.
WouldCloseDirectly(id, d) == d = id \/ id \in deps[d]

\* Adding the edge id -> d closes a loop: d already reaches id.
WouldCreateCycle(id, d) == d = id \/ id \in ReachableFrom(deps, {d})

ValidDeps(id, D) ==
    \A d \in D :
        /\ d # id
        /\ IF status[d] = "NONE" THEN AllowForwardRefs ELSE ~WouldCreateCycle(id, d)

\* Mutation: looks at the statuses from before id completed.
UnblockedTooEarly(st, id) ==
    {j \in dependents[id] : st[j] = "PENDING" /\ DepsSatisfied(status, deps[j])}

\* The PENDING dependents of id that _unblockDependents promotes.
Unblocked(st, id) ==
    {j \in dependents[id] : st[j] = "PENDING" /\ DepsSatisfied(st, deps[j])}

\* _countStatusChange, on the counts c; "NONE" stands for undefined.
CountStatusChange(c, prev, next) ==
    [s \in Statuses |-> c[s] - (IF s = prev THEN 1 ELSE 0) + (IF s = next THEN 1 ELSE 0)]

\* Mutation: a task that propagation fails is taken to have been PENDING.
CountEachPending(c, st, ids, next) ==
    [s \in Statuses |-> c[s] - (IF s = "PENDING" THEN Cardinality(ids) ELSE 0)
                             + (IF s = next THEN Cardinality(ids) ELSE 0)]

\* One _countStatusChange for each task of ids, from its status in st to next: the
\* calls made while the loops of _unblockDependents and _propagateFailure run.
CountEach(c, st, ids, next) ==
    [s \in Statuses |-> c[s] - Cardinality({i \in ids : st[i] = s})
                             + (IF s = next THEN Cardinality(ids) ELSE 0)]

\* The whole of _reconcileStatus for a live task, after deps' and dependents' are
\* set: st, h and c are the statuses, heap entries and counts it starts from.
ReconcileStatus(st, h, c, id) ==
    LET new    == Reconciled(st, st[id], deps'[id])
        st1    == [st EXCEPT ![id] = new]
        c1     == IF new = st[id] THEN c ELSE CountStatusChange(c, st[id], new)
        failed == Victims(st1, dependents', id)
    IN  /\ status' = IF new = "FAILED" THEN Fail(st1, failed) ELSE st1
        /\ heap' = IF new = st[id] THEN h
                   ELSE IF new = "READY" THEN h \cup {id} ELSE Dequeue(h, id)
        /\ byStatus' = IF new = "FAILED" THEN CountEach(c1, st1, failed, "FAILED") ELSE c1

\* The frames once the map no longer holds the tasks of gone.
Orphan(gone) ==
    [k \in DOMAIN frames |->
        IF frames[k].orphan = "NONE" /\ frames[k].id \in gone
        THEN WithOrphan(frames[k], status[frames[k].id])
        ELSE frames[k]]

CountOf(s) == Cardinality({i \in Ids : status[i] = s})

WithinBounds ==
    edges <= MaxEdges /\ \A s \in Statuses : byStatus[s] >= CountOf(s) - MaxDrift
-----------------------------------------------------------------------------
(* Public mutations *)

AddTask(id, D) ==
    /\ ~disposed
    /\ WithinBounds
    /\ status[id] = "NONE"
    /\ Cardinality(Existing) < MaxTasks
    /\ ValidDeps(id, D)
    /\ deps' = [deps EXCEPT ![id] = D]
    /\ dependents' = Register(dependents, id, D)
    /\ edges' = edges + Cardinality({d \in D : id \notin dependents[d]})
    /\ LET created == Reconciled(status, "PENDING", D)
           st      == [status EXCEPT ![id] = created]
           failed  == Victims(st, dependents', id)
       IN  /\ status' = IF created = "FAILED" THEN Fail(st, failed) ELSE st
           /\ heap' = IF created = "READY" THEN heap \cup {id} ELSE heap
           /\ byStatus' = CountStatusChange(
                  IF created = "FAILED" THEN CountEach(byStatus, st, failed, "FAILED") ELSE byStatus,
                  "NONE", created)
    /\ UNCHANGED <<frames, disposed>>

\* updateTask with a new dependency set.
UpdateDeps(id, D) ==
    /\ ~disposed
    /\ status[id] \in Live \ {"RUNNING"}
    /\ ValidDeps(id, D)
    /\ deps' = [deps EXCEPT ![id] = D]
    /\ dependents' = Register(Unregister(dependents, id, deps[id] \ D), id, D \ deps[id])
    /\ edges' = edges + Cardinality({d \in D \ deps[id] : id \notin dependents[d]})
                      - Cardinality({d \in deps[id] \ D : id \in dependents[d]})
    /\ ReconcileStatus(status, heap, byStatus, id)
    /\ UNCHANGED <<frames, disposed>>

\* updateTask without dependencies: it reconciles the status all the same.
UpdateFields(id) ==
    /\ ~disposed
    /\ status[id] \in Live
    /\ UNCHANGED <<deps, dependents, edges, frames, disposed>>
    /\ ReconcileStatus(status, heap, byStatus, id)

\* The failure propagates over the graph as it is before the removal; the
\* removal then drops the reverse edges into id without counting them.
DeleteTask(id) ==
    /\ ~disposed
    /\ status[id] # "NONE"
    /\ LET failed == Victims(status, dependents, id)
       IN  /\ status' = [Fail(status, failed) EXCEPT ![id] = "NONE"]
           /\ byStatus' = CountStatusChange(CountEach(byStatus, status, failed, "FAILED"),
                                            status[id], "NONE")
    /\ deps' = [deps EXCEPT ![id] = {}]
    /\ dependents' = [Unregister(dependents, id, deps[id]) EXCEPT ![id] = {}]
    /\ edges' = edges - Cardinality({d \in deps[id] : id \in dependents[d]})
    /\ heap' = Dequeue(heap, id)
    /\ frames' = Orphan({id})
    /\ UNCHANGED disposed

CompleteTask(id) ==
    LET st       == [status EXCEPT ![id] = "COMPLETED"]
        promoted == Unblocked(st, id)
    IN  /\ ~disposed
        /\ status[id] \in {"READY", "RUNNING"}
        /\ status' = Promote(st, promoted)
        /\ heap' = Dequeue(heap, id) \cup promoted
        /\ byStatus' = CountEach(CountStatusChange(byStatus, status[id], "COMPLETED"),
                                 st, promoted, "READY")
        /\ UNCHANGED <<deps, dependents, edges, frames, disposed>>

\* failTask and cancelTask: a live task turns terminal and takes everything
\* that needs it along.
Abandon(id, how) ==
    /\ ~disposed
    /\ status[id] \in Live
    /\ LET st     == [status EXCEPT ![id] = how]
           failed == Victims(st, dependents, id)
       IN  /\ status' = Fail(st, failed)
           /\ byStatus' = CountEach(CountStatusChange(byStatus, status[id], how),
                                    st, failed, "FAILED")
    /\ heap' = Dequeue(heap, id)
    /\ UNCHANGED <<deps, dependents, edges, frames, disposed>>

FailTask(id)   == Abandon(id, "FAILED")
CancelTask(id) == Abandon(id, "CANCELLED")

ResetTask(id) ==
    /\ ~disposed
    /\ status[id] \in Terminal
    /\ UNCHANGED <<deps, dependents, edges, frames, disposed>>
    /\ ReconcileStatus([status EXCEPT ![id] = "PENDING"], Dequeue(heap, id),
                       CountStatusChange(byStatus, status[id], "PENDING"), id)

\* executeNextTask up to the runner.  The loop pops until it meets an
\* executable task and drops the stale entries it meets on the way: those that
\* rank above the chosen one, or all of them when nothing is due.
Executable == {i \in heap : status[i] = "READY" /\ DepsSatisfied(status, deps[i])}

\* Mutation: the future-dated entries are not pushed back.
StaleOrDeferred == heap

Stale == {i \in heap : status[i] # "READY"}

PushFrame(id) ==
    LET same == {k \in DOMAIN frames : frames[k].id = id /\ frames[k].orphan = "NONE"}
        obj  == IF same = {} THEN Len(frames) + 1 ELSE frames[CHOOSE k \in same : TRUE].obj
    IN  Append(frames, [id |-> id, obj |-> obj, orphan |-> "NONE"])

ClaimNext(id, dropped) ==
    /\ ~disposed
    /\ HasRunner => Len(frames) < MaxDepth
    /\ id \in Executable
    /\ dropped \subseteq Stale
    /\ heap' = heap \ ({id} \cup dropped)
    /\ status' = [status EXCEPT ![id] = "RUNNING"]
    /\ byStatus' = CountStatusChange(byStatus, status[id], "RUNNING")
    /\ frames' = IF HasRunner THEN PushFrame(id) ELSE frames
    /\ UNCHANGED <<deps, dependents, edges, disposed>>

\* Nothing is due: every entry was popped, and the READY ones pushed back.
FindNothing ==
    /\ ~disposed
    /\ Existing # {}
    /\ heap' = heap \ Stale
    /\ UNCHANGED <<status, deps, dependents, byStatus, edges, frames, disposed>>

ClearInternal ==
    /\ status' = [i \in Ids |-> "NONE"]
    /\ deps' = [i \in Ids |-> {}]
    /\ dependents' = [i \in Ids |-> {}]
    /\ heap' = {}
    /\ byStatus' = [s \in Statuses |-> 0]
    /\ edges' = 0
    /\ frames' = Orphan(Ids)

Clear == ~disposed /\ ClearInternal /\ UNCHANGED disposed

\* dispose has no _assertUsable: one that was queued earlier runs again.
Dispose == ClearInternal /\ disposed' = TRUE
-----------------------------------------------------------------------------
(* The runner returns: the rest of executeNextTask *)

Top == frames[Len(frames)]

\* The frames below the top one, those that chose the same object included.
PopFrame(outcome) ==
    [k \in 1..(Len(frames) - 1) |->
        IF frames[k].obj = Top.obj /\ frames[k].orphan # "NONE"
        THEN WithOrphan(frames[k], outcome) ELSE frames[k]]

\* The chosen object's status is overwritten, whatever nested calls made of it.
Settled(outcome) ==
    IF Top.orphan = "NONE" THEN [status EXCEPT ![Top.id] = outcome] ELSE status

\* byStatus once the outcome is counted against the status the object has then,
\* whether the map still holds the object or not.
CountOutcome(outcome) ==
    CountStatusChange(byStatus, IF Top.orphan = "NONE" THEN status[Top.id] ELSE Top.orphan, outcome)

RunSucceeds ==
    /\ frames # <<>>
    /\ LET st       == Settled("COMPLETED")
           promoted == Unblocked(st, Top.id)
       IN  /\ status' = Promote(st, promoted)
           /\ heap' = heap \cup promoted
           /\ byStatus' = CountEach(CountOutcome("COMPLETED"), st, promoted, "READY")
    /\ frames' = PopFrame("COMPLETED")
    /\ UNCHANGED <<deps, dependents, edges, disposed>>

\* Mutation: the failure does not propagate.
RunFailsAlone ==
    /\ frames # <<>>
    /\ UNCHANGED <<deps, dependents, edges, heap, disposed>>
    /\ status' = Settled("FAILED")
    /\ byStatus' = CountOutcome("FAILED")
    /\ frames' = PopFrame("FAILED")

RunFails ==
    /\ frames # <<>>
    /\ UNCHANGED <<deps, dependents, edges, heap, disposed>>
    /\ LET st      == Settled("FAILED")
           unknown == st[Top.id] = "NONE"
           failed  == Victims(st, dependents, Top.id)
       IN  /\ status' = IF unknown THEN st ELSE Fail(st, failed)
           /\ byStatus' = IF unknown THEN CountOutcome("FAILED")
                          ELSE CountEach(CountOutcome("FAILED"), st, failed, "FAILED")
    /\ frames' = PopFrame("FAILED")
-----------------------------------------------------------------------------
Next ==
    \/ \E id \in Ids, D \in SUBSET Ids : AddTask(id, D) \/ UpdateDeps(id, D)
    \/ \E id \in Ids : \/ UpdateFields(id)
                       \/ DeleteTask(id)
                       \/ CompleteTask(id)
                       \/ FailTask(id)
                       \/ CancelTask(id)
                       \/ ResetTask(id)
    \/ \E id \in heap, dropped \in SUBSET heap : ClaimNext(id, dropped)
    \/ FindNothing
    \/ Clear
    \/ Dispose
    \/ RunSucceeds
    \/ RunFails

Spec == Init /\ [][Next]_vars
-----------------------------------------------------------------------------
(* Properties *)

TypeOK ==
    /\ status \in [Ids -> Statuses \cup {"NONE"}]
    /\ deps \in [Ids -> SUBSET Ids]
    /\ dependents \in [Ids -> SUBSET Ids]
    /\ heap \subseteq Existing
    /\ byStatus \in [Statuses -> Int]
    /\ edges \in Int
    /\ frames \in Seq(Frame)
    /\ \A k \in DOMAIN frames : frames[k].orphan = "NONE" => frames[k].id \in Existing
    /\ disposed \in BOOLEAN

\* The dependency graph never has a cycle, dangling and forward edges included,
\* whatever sequence of adds, updates, deletes and re-adds built it: the check in
\* _validateDeps looks at one edge at a time and skips ids that do not exist.
Acyclic == IsAcyclic(deps)

\* _validateDeps is exact: it accepts a dependency set for a task precisely when
\* the graph with that set in place of the task's old one has no cycle (and, in
\* strict mode, names registered tasks only), although it looks at one edge at a
\* time and at the graph as it was before the update.
ValidationIsExact ==
    \A id \in Ids, D \in SUBSET Ids :
        AllowForwardRefs \/ D \subseteq Existing =>
            (ValidDeps(id, D) <=> IsAcyclic([deps EXCEPT ![id] = D]))

\* No READY task is ever missing from the heap: executeNextTask would never find
\* it again, since nothing pushes a task that is READY already.
ReadyIsQueued == \A i \in Ids : status[i] = "READY" => i \in heap

\* What executeNextTask may drop or push back is READY or terminal: no PENDING
\* and no RUNNING task is left in the heap by any path that changes a status.
QueuedIsReadyOrOver == \A i \in heap : status[i] \in {"READY"} \cup Terminal

\* The reverse index only knows edges that exist: an unblock or a propagation
\* never reaches a task that no longer depends on its origin.
ReverseEdgesExist == \A d \in Ids : \A i \in dependents[d] : d \in deps[i]

\* i waits for d and d knows it.
Linked(i, d) == d \in deps[i] /\ i \in dependents[d]

\* No lost wakeup: a PENDING task whose edges are all in the reverse index has a
\* dependency that is not COMPLETED yet, so that a later call can unblock it.
PendingIsBlocked ==
    \A i \in Ids :
        status[i] = "PENDING" /\ (\A d \in deps[i] : Linked(i, d))
            => \E d \in deps[i] : status[d] # "COMPLETED"

\* Failure is contagious: no live task waits for a FAILED or CANCELLED one that
\* has it in the reverse index, however resets and failures interleave.
NoLiveBehindFailed ==
    \A i, d \in Ids :
        Linked(i, d) /\ status[d] \in {"FAILED", "CANCELLED"} => status[i] \notin Live

\* counters.byStatus agrees with the tasks map, as auditMetrics checks.
CountersExact ==
    \A s \in Statuses : byStatus[s] = CountOf(s)

\* counters.edges agrees with the tasks map, as auditMetrics checks: it is the
\* number of dependency edges of the existing tasks.
EdgesExact == edges = Cardinality({e \in Ids \X Ids : e[2] \in deps[e[1]]})

\* A terminal status stands until resetTask (or the end of the task).
TerminalStands ==
    [][\A i \in Ids : status[i] \in Terminal /\ status'[i] # status[i]
                        => status'[i] = "NONE" \/ ResetTask(i)]_vars

\* A task waiting for tasks that have all completed is unblocked.
UnblockedAutomatically ==
    \A i \in Ids : status[i] = "PENDING" => ~DepsSatisfied(status, deps[i])
=============================================================================
