--------------------------- MODULE AgnesDispatch ----------------------------
(***************************************************************************)
(* How the "agnes flash" scheduler chooses the next task: the binary heap  *)
(* of AgnesHeap under compareIds, kept up by every method that changes a   *)
(* status or an ordering key, and the pop loop of executeNextTask          *)
(* (src/scheduler.ts).  AgnesScheduler decides which status changes can    *)
(* happen; here the graph is abstracted, any task may be blocked or        *)
(* unblocked, and the order of the entries is what matters.                *)
(*                                                                         *)
(* compareIds reads the priority, executeTime and createdAt that the tasks *)
(* have at that moment, so a key that changes under an entry which is not  *)
(* moved leaves the heap out of order.                                     *)
(***************************************************************************)
EXTENDS Integers, FiniteSets, AgnesHeap

CONSTANTS
    MaxId,             \* the ids are 1..MaxId, in the order "<" gives strings
    Priorities, Times, \* bounds: the priorities and times used, sets of numbers
    CreationTimes      \* bound: the values of createdAt

TaskIds == 1..MaxId

VARIABLES
    status,  \* "NONE", "PENDING", "READY", "RUNNING" or "TERMINAL"
    task,    \* priority, executeTime and createdAt of each id
    heap,    \* a heap of AgnesHeap
    unmet,   \* the READY ids with a dependency that is no longer COMPLETED
    upset    \* history: a rejected update has changed a key of a queued task

vars == <<status, task, heap, unmet, upset>>

TaskKeys == [priority : Priorities, executeTime : Times, createdAt : CreationTimes]

\* compareIds(a, b) < 0, the tasks being t.
Before(t, a, b) ==
    LET x == t[a]
        y == t[b]
    IN  IF x.priority # y.priority THEN x.priority > y.priority
        ELSE IF x.executeTime # y.executeTime THEN x.executeTime < y.executeTime
        ELSE IF x.createdAt # y.createdAt THEN x.createdAt < y.createdAt
        ELSE a < b

Order(t) == {p \in TaskIds \X TaskIds : Before(t, p[1], p[2])}

Pushed(h, t, id)  == Push(h, id, Order(t))
Removed(h, t, id) == RemoveEntry(h, id, Order(t))
Popped(h, t)      == Pop(h, Order(t))

\* The keys of an id that the tasks map lacks; nothing compares them.
Unset == [priority |-> 0, executeTime |-> 0, createdAt |-> 0]

Init ==
    /\ status = [i \in TaskIds |-> "NONE"]
    /\ task = [i \in TaskIds |-> Unset]
    /\ heap = Empty(TaskIds)
    /\ unmet = {}
    /\ upset = FALSE

\* addTask: the new task is READY and queued, or blocked.
AddTask(id, k, s) ==
    /\ status[id] = "NONE"
    /\ task' = [task EXCEPT ![id] = k]
    /\ status' = [status EXCEPT ![id] = s]
    /\ heap' = IF s = "READY" THEN Pushed(heap, task', id) ELSE heap
    /\ UNCHANGED <<unmet, upset>>

\* _unblockDependents and _reconcileStatus: a blocked task becomes READY.
Unblock(id) ==
    /\ status[id] = "PENDING"
    /\ status' = [status EXCEPT ![id] = "READY"]
    /\ heap' = Pushed(heap, task, id)
    /\ UNCHANGED <<task, unmet, upset>>

\* A READY task is completed, failed or cancelled, or fails in _reconcileStatus: it leaves
\* the heap; a RUNNING one ends.
Leave(id) ==
    /\ status[id] \in {"READY", "RUNNING"}
    /\ status' = [status EXCEPT ![id] = "TERMINAL"]
    /\ heap' = Removed(heap, task, id)
    /\ unmet' = unmet \ {id}
    /\ UNCHANGED <<task, upset>>

\* _propagateFailure marks a task and leaves its entry in the heap.
MarkVictim(id) ==
    /\ status[id] \in {"PENDING", "READY", "RUNNING"}
    /\ status' = [status EXCEPT ![id] = "TERMINAL"]
    /\ unmet' = unmet \ {id}
    /\ UNCHANGED <<task, heap, upset>>

\* resetTask of a COMPLETED dependency leaves a READY task as it is; the dependency may
\* complete again.
DependencyReset(id) ==
    /\ status[id] = "READY" /\ id \notin unmet
    /\ unmet' = unmet \cup {id}
    /\ UNCHANGED <<status, task, heap, upset>>

DependencyBack(id) ==
    /\ id \in unmet
    /\ unmet' = unmet \ {id}
    /\ UNCHANGED <<status, task, heap, upset>>

ResetTask(id, s) ==
    /\ status[id] = "TERMINAL"
    /\ status' = [status EXCEPT ![id] = s]
    /\ LET h == Removed(heap, task, id)
       IN  heap' = IF s = "READY" THEN Pushed(h, task, id) ELSE h
    /\ UNCHANGED <<task, unmet, upset>>

DeleteTask(id) ==
    /\ status[id] # "NONE"
    /\ heap' = Removed(heap, task, id)
    /\ status' = [status EXCEPT ![id] = "NONE"]
    /\ task' = [task EXCEPT ![id] = Unset]
    /\ unmet' = unmet \ {id}
    /\ UNCHANGED upset

\* _reconcileStatus in _updateTask, which gives the task the status s: the dependencies may
\* be new ones, and a READY task behind a dependency that was reset does not stay READY.
Reconciled(id, s, t) ==
    IF s = status[id] THEN heap
    ELSE IF s = "READY" THEN Pushed(heap, t, id) ELSE Removed(heap, t, id)

\* Mutation: the entry keeps its place when the keys change.
UnmovedAfterUpdate(h, t, id, s) == h

\* The re-seat at the end of _updateTask, under the new keys.
MovedAfterUpdate(h, t, id, s) ==
    IF s = "READY" /\ HeapContains(h, id) THEN Pushed(Removed(h, t, id), t, id) ELSE h

UpdateTask(id, p, t, s) ==
    /\ \/ status[id] \in {"PENDING", "READY"} /\ s # "RUNNING"
       \/ status[id] = "RUNNING" /\ s \in {"RUNNING", "TERMINAL"}
    /\ task' = [task EXCEPT ![id].priority = p, ![id].executeTime = t]
    /\ status' = [status EXCEPT ![id] = s]
    /\ heap' = MovedAfterUpdate(Reconciled(id, s, task'), task', id, s)
    /\ unmet' = unmet \ {id}
    /\ UNCHANGED upset

\* The priority is assigned, and then the executeTime or a dependency is
\* rejected: _updateTask throws before the re-seat.
UpdateRejected(id, p) ==
    /\ status[id] \in {"PENDING", "READY", "RUNNING"}
    /\ task' = [task EXCEPT ![id].priority = p]
    /\ upset' = (upset \/ HeapContains(heap, id))
    /\ UNCHANGED <<status, heap, unmet>>

Due(id, now) == status[id] = "READY" /\ id \notin unmet /\ task[id].executeTime <= now

\* The entry popped last is due: the pop loop has found its task.
Found(popped, now) == popped # <<>> /\ Due(popped[Len(popped)], now)

\* What the pop loop of executeNextTask leaves at time now: the entries popped
\* before it stops, oldest first, and the heap without them.
PopLoop(now) ==
    LET loop[s \in [popped : Seq(TaskIds), rest : Heaps(TaskIds)]] ==
            IF Size(s.rest) = 0 \/ Found(s.popped, now) THEN s
            ELSE loop[[popped |-> Append(s.popped, s.rest.items[1]),
                       rest |-> Popped(s.rest, task)]]
    IN  loop[[popped |-> <<>>, rest |-> heap]]

\* The READY ones of the popped entries after the first "done" and up to n go back, in
\* the order in which they were popped; stale entries are dropped.
RepushedAfter(done, h, popped, n) ==
    LET back[s \in Heaps(TaskIds) \X (0..n)] ==
            IF s[2] = n THEN s
            ELSE LET id == popped[s[2] + 1]
                 IN  back[<<IF status[id] = "READY" THEN Pushed(s[1], task, id) ELSE s[1],
                            s[2] + 1>>]
    IN  back[<<h, done>>][1]

\* Mutation: the entry popped first is forgotten.
RepushedButFirst(h, popped, n) == IF n = 0 THEN h ELSE RepushedAfter(1, h, popped, n)

Repushed(h, popped, n) == RepushedAfter(0, h, popped, n)

ExecuteNextTask(now) ==
    /\ \E i \in TaskIds : status[i] # "NONE"
    /\ UNCHANGED <<task, unmet, upset>>
    /\ LET end    == PopLoop(now)
           n      == Len(end.popped)
           found  == Found(end.popped, now)
           others == IF found THEN n - 1 ELSE n
       IN  /\ heap' = Repushed(end.rest, end.popped, others)
           /\ status' = IF found THEN [status EXCEPT ![end.popped[n]] = "RUNNING"]
                        ELSE status

Next ==
    \/ \E id \in TaskIds, k \in TaskKeys, s \in {"PENDING", "READY"} : AddTask(id, k, s)
    \/ \E id \in TaskIds : \/ Unblock(id) \/ Leave(id) \/ MarkVictim(id) \/ DeleteTask(id)
                           \/ DependencyReset(id) \/ DependencyBack(id)
    \/ \E id \in TaskIds, s \in {"PENDING", "READY"} : ResetTask(id, s)
    \/ \E id \in TaskIds, p \in Priorities, t \in Times,
          s \in {"PENDING", "READY", "RUNNING", "TERMINAL"} : UpdateTask(id, p, t, s)
    \/ \E id \in TaskIds, p \in Priorities : UpdateRejected(id, p)
    \/ \E now \in Times : ExecuteNextTask(now)

Spec == Init /\ [][Next]_vars
-----------------------------------------------------------------------------
(* Properties *)

\* Besides the types: every entry is where the index says.
TypeOK ==
    /\ status \in [TaskIds -> {"NONE", "PENDING", "READY", "RUNNING", "TERMINAL"}]
    /\ \A i \in TaskIds : IF status[i] = "NONE" THEN task[i] = Unset ELSE task[i] \in TaskKeys
    /\ heap.items \in Seq(TaskIds)
    /\ heap.index \in [TaskIds -> 0..MaxId]
    /\ unmet \subseteq {i \in TaskIds : status[i] = "READY"}
    /\ upset \in BOOLEAN
    /\ Coherent(heap)

\* A READY task stays in the heap through every pop, re-push and re-seat: no
\* later executeNextTask would find it otherwise.
ReadyIsQueued == \A i \in TaskIds : status[i] = "READY" => HeapContains(heap, i)

\* a runs before b: higher priority first, then earlier executeTime, then earlier
\* createdAt, then the smaller id.
RunsBefore(a, b) ==
    LET x == task[a]
        y == task[b]
    IN  \/ x.priority > y.priority
        \/ x.priority = y.priority /\ x.executeTime < y.executeTime
        \/ x.priority = y.priority /\ x.executeTime = y.executeTime
           /\ (x.createdAt < y.createdAt \/ (x.createdAt = y.createdAt /\ a < b))

\* executeNextTask starts the first, in that order, of the READY tasks whose
\* executeTime has come and whose dependencies are all COMPLETED, and starts nothing
\* only when there is none: a READY task whose dependency was reset is passed over,
\* and neither it nor a stale or future-dated entry hides the task behind it.  That is
\* so until an update of a queued task is rejected half-way: then it need not be.
FirstDueStarts ==
    \A now \in Times : ~upset /\ ExecuteNextTask(now) =>
        LET due == {i \in TaskIds \ unmet : status[i] = "READY" /\ task[i].executeTime <= now}
        IN  IF due = {} THEN status' = status
            ELSE \E i \in due : /\ \A j \in due \ {i} : RunsBefore(i, j)
                                /\ status' = [status EXCEPT ![i] = "RUNNING"]
=============================================================================
