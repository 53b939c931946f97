---------------------------- MODULE QwenDispatch ----------------------------
(***************************************************************************)
(* How the "qwen 3.8 27b" scheduler chooses the next task                  *)
(* (src/TaskScheduler.ts): the READY tasks wait in one of two heaps,       *)
(* dueHeap by priority or futureHeap by time, and _findNext moves those    *)
(* whose time has come from one to the other, by a clock that only         *)
(* advances.  QwenScheduler decides which status changes can happen; here  *)
(* the graph is abstracted, and the order and the clock are what matters.  *)
(***************************************************************************)
EXTENDS Integers, FiniteSets, SequencesExt, QwenHeap

CONSTANTS
    Ids,               \* the task ids
    Priorities, Times  \* bounds: the priorities used, and the times, of tasks and of clocks

VARIABLES
    status,    \* "NONE", "PENDING", "READY" or "OTHER": RUNNING, or a terminal status
    task,      \* priority and executeTime of each id
    sequence,  \* the sequence number of each id: 1 for the first task created; 0, no task
    due,       \* dueHeap
    future,    \* futureHeap
    clock,
    dangling   \* the READY ids with a dependency that was deleted

vars == <<status, task, sequence, due, future, clock, dangling>>

TaskKeys == [priority : Priorities, executeTime : Times]

\* The keys of an id that the tasks map lacks; nothing compares them.
Unset == [priority |-> 0, executeTime |-> 0]

\* dueComparator < 0: priority, then time, then sequence.
DueOrder(t, c) ==
    {p \in Ids \X Ids :
        LET x == t[p[1]]
            y == t[p[2]]
        IN  \/ x.priority > y.priority
            \/ x.priority = y.priority
               /\ \/ x.executeTime < y.executeTime
                  \/ x.executeTime = y.executeTime /\ c[p[1]] < c[p[2]]}

\* futureComparator < 0: time, then priority, then sequence.
FutureOrder(t, c) ==
    {p \in Ids \X Ids :
        LET x == t[p[1]]
            y == t[p[2]]
        IN  \/ x.executeTime < y.executeTime
            \/ x.executeTime = y.executeTime
               /\ \/ x.priority > y.priority
                  \/ x.priority = y.priority /\ c[p[1]] < c[p[2]]}

InitialClock == 0

Init ==
    /\ status = [i \in Ids |-> "NONE"]
    /\ task = [i \in Ids |-> Unset]
    /\ sequence = [i \in Ids |-> 0]
    /\ due = NoEntries(Ids)
    /\ future = NoEntries(Ids)
    /\ clock = InitialClock
    /\ dangling = {}
-----------------------------------------------------------------------------
(* The heap entry of a task *)

\* _heapInsert of id, under the tasks t and the sequence numbers c.
Insert(id, t, c, d, f) ==
    IF t[id].executeTime <= clock
    THEN due' = Push(d, id, DueOrder(t, c)) /\ future' = f
    ELSE due' = d /\ future' = Push(f, id, FutureOrder(t, c))

\* _heapRemove, before a key changes: what is left of each heap.
DueWithout(id)    == RemoveEntry(due, id, DueOrder(task, sequence))
FutureWithout(id) == RemoveEntry(future, id, FutureOrder(task, sequence))

Leave(id) == due' = DueWithout(id) /\ future' = FutureWithout(id)
-----------------------------------------------------------------------------
(* The methods that keep the heaps *)

Missing == {i \in Ids : status[i] = "NONE"}

\* The number that the next task comes after; see DeleteTask.
Count == Cardinality(Ids \ Missing)

AddTask(id, k, s) ==
    /\ status[id] = "NONE"
    /\ status' = [status EXCEPT ![id] = s]
    /\ task' = [task EXCEPT ![id] = k]
    /\ sequence' = [sequence EXCEPT ![id] = Count + 1]
    /\ IF s = "READY" THEN Insert(id, task', sequence', due, future) ELSE UNCHANGED <<due, future>>
    /\ UNCHANGED <<clock, dangling>>

\* Those in S of the entries of batch, in its order: pass 3 of addTasks.
Selected(batch, S) ==
    LET pick[s \in Seq(Ids) \X (0..Len(batch))] ==
            IF s[2] = Len(batch) THEN s
            ELSE LET id == batch[s[2] + 1]
                 IN  pick[<<IF id \in S THEN Append(s[1], id) ELSE s[1], s[2] + 1>>]
    IN  pick[<<<<>>, 0>>][1]

\* The sequence numbers once the entries of batch have theirs.
Numbered(batch) ==
    [i \in Ids |-> IF i \in ToSet(batch) THEN Count + CHOOSE n \in DOMAIN batch : batch[n] = i
                   ELSE sequence[i]]

\* addTasks of a batch in this order, all READY: the heaps hold the batch alone.
AddTasks(batch, k) ==
    LET ids == ToSet(batch)
        t   == [i \in Ids |-> IF i \in ids THEN k[i] ELSE task[i]]
        now == {i \in ids : t[i].executeTime <= clock}
    IN  /\ ids \subseteq Missing
        /\ status' = [i \in Ids |-> IF i \in ids THEN "READY" ELSE status[i]]
        /\ task' = t
        /\ sequence' = Numbered(batch)
        /\ due' = Heapify(due, Selected(batch, now), DueOrder(t, sequence'))
        /\ future' = Heapify(future, Selected(batch, ids \ now), FutureOrder(t, sequence'))
        /\ UNCHANGED <<clock, dangling>>

\* completeTask and addTask promote a PENDING task.
Promote(id) ==
    /\ status[id] = "PENDING"
    /\ status' = [status EXCEPT ![id] = "READY"]
    /\ Insert(id, task, sequence, due, future)
    /\ UNCHANGED <<task, sequence, clock, dangling>>

\* A call about a task that ends it, or blocks it again.
Withdraw(id, s) ==
    /\ status[id] \in {"PENDING", "READY"}
    /\ status' = [status EXCEPT ![id] = s]
    /\ dangling' = dangling \ {id}
    /\ Leave(id)
    /\ UNCHANGED <<task, sequence, clock>>

\* The numbers of the later tasks move down, which keeps their order: in the code they
\* stay, and leave a gap.
DeleteTask(id) ==
    /\ status[id] # "NONE"
    /\ status' = [status EXCEPT ![id] = "NONE"]
    /\ task' = [task EXCEPT ![id] = Unset]
    /\ sequence' = [i \in Ids |-> IF i = id THEN 0
                               ELSE IF sequence[i] > sequence[id] THEN sequence[i] - 1
                               ELSE sequence[i]]
    /\ dangling' = dangling \ {id}
    /\ Leave(id)
    /\ UNCHANGED clock

\* A COMPLETED dependency of a READY task is deleted, or is back and COMPLETED.
DependencyGone(id) ==
    /\ status[id] = "READY" /\ id \notin dangling
    /\ dangling' = dangling \cup {id}
    /\ UNCHANGED <<status, task, sequence, due, future, clock>>

DependencyBack(id) ==
    /\ id \in dangling
    /\ dangling' = dangling \ {id}
    /\ UNCHANGED <<status, task, sequence, due, future, clock>>

\* Mutation: the entry goes back into the heap that it was in.
ReinsertInPlace(id, t) ==
    IF HasEntry(due, id)
    THEN due' = Push(DueWithout(id), id, DueOrder(t, sequence)) /\ UNCHANGED future
    ELSE future' = Push(FutureWithout(id), id, FutureOrder(t, sequence)) /\ UNCHANGED due

\* Out of its heap under the old keys, into the one for the new keys.
Reinsert(id, t) == Insert(id, t, sequence, DueWithout(id), FutureWithout(id))

\* updateTask of the keys.
UpdateTask(id, k) ==
    /\ status[id] \in {"PENDING", "READY"}
    /\ task' = [task EXCEPT ![id] = k]
    /\ IF status[id] = "READY" THEN Reinsert(id, task') ELSE UNCHANGED <<due, future>>
    /\ UNCHANGED <<status, sequence, clock, dangling>>
-----------------------------------------------------------------------------
(* Finding the next task *)

Later(now) == IF now > clock THEN now ELSE clock

\* The two heaps, with no entry in both, and the blocked entries dropped so far: what the
\* loops go through.
Searches ==
    {s \in [due : H!Heaps(Ids), future : H!Heaps(Ids), dropped : SUBSET Ids] :
        \A i \in Ids : ~(HasEntry(s.due, i) /\ HasEntry(s.future, i))}

\* Mutation: one entry is promoted at a call.
PromotedOne(s, at) ==
    IF IsHeapEmpty(s.future) \/ task[Peek(s.future)].executeTime > at THEN s
    ELSE [s EXCEPT !.due = Push(s.due, Peek(s.future), DueOrder(task, sequence)),
                   !.future = Pop(s.future, FutureOrder(task, sequence))]

\* _promoteDue at the clock "at": entries move until the first of futureHeap is not due.
Promoted(s, at) ==
    LET loop[r \in Searches] ==
            IF IsHeapEmpty(r.future) \/ task[Peek(r.future)].executeTime > at THEN r
            ELSE loop[[r EXCEPT !.due = Push(r.due, Peek(r.future), DueOrder(task, sequence)),
                                !.future = Pop(r.future, FutureOrder(task, sequence))]]
    IN  loop[s]

\* The walk of _findNext: blocked entries are dropped from the top of dueHeap.
Unblocked(s) ==
    LET loop[r \in Searches] ==
            IF IsHeapEmpty(r.due) \/ Peek(r.due) \notin dangling THEN r
            ELSE loop[[r EXCEPT !.due = Pop(r.due, DueOrder(task, sequence)),
                                !.dropped = @ \cup {Peek(r.due)}]]
    IN  loop[s]

FindNext(now) ==
    Unblocked(Promoted([due |-> due, future |-> future, dropped |-> {}], Later(now)))

\* What _findNext changes besides the due heap; the dropped entries are PENDING.
Search(s, now) ==
    /\ UNCHANGED <<task, sequence>>
    /\ clock' = Later(now)
    /\ future' = s.future
    /\ dangling' = dangling \ s.dropped

Reblocked(s) == [i \in Ids |-> IF i \in s.dropped THEN "PENDING" ELSE status[i]]

PeekNextExecutable(now) ==
    LET s == FindNext(now)
    IN  /\ Search(s, now)
        /\ due' = s.due
        /\ status' = Reblocked(s)

ClaimNextExecutable(now) ==
    LET s == FindNext(now)
    IN  /\ Search(s, now)
        /\ IF IsHeapEmpty(s.due) THEN due' = s.due /\ status' = Reblocked(s)
           ELSE /\ due' = RemoveEntry(s.due, Peek(s.due), DueOrder(task, sequence))
                /\ status' = [Reblocked(s) EXCEPT ![Peek(s.due)] = "OTHER"]

\* Mutation: futureHeap is looked at first.
NextWakeTimeFuture ==
    IF ~IsHeapEmpty(future) THEN <<task[Peek(future)].executeTime>>
    ELSE IF ~IsHeapEmpty(due) THEN <<clock>> ELSE <<>>

\* nextWakeTime, as a sequence of at most one time.
NextWakeTime ==
    IF ~IsHeapEmpty(due) THEN <<clock>>
    ELSE IF ~IsHeapEmpty(future) THEN <<task[Peek(future)].executeTime>> ELSE <<>>

Clear ==
    /\ status' = [i \in Ids |-> "NONE"]
    /\ task' = [i \in Ids |-> Unset]
    /\ sequence' = [i \in Ids |-> 0]
    /\ due' = NoEntries(Ids)
    /\ future' = NoEntries(Ids)
    /\ dangling' = {}
    /\ UNCHANGED clock

Next ==
    \/ \E id \in Ids, k \in TaskKeys, s \in {"PENDING", "READY"} : AddTask(id, k, s)
    \/ \E ids \in SUBSET Missing : \E batch \in SetToSeqs(ids), k \in [ids -> TaskKeys] :
          AddTasks(batch, k)
    \/ \E id \in Ids : \/ Promote(id) \/ DeleteTask(id)
                       \/ DependencyGone(id) \/ DependencyBack(id)
    \/ \E id \in Ids, s \in {"PENDING", "OTHER"} : Withdraw(id, s)
    \/ \E id \in Ids, k \in TaskKeys : UpdateTask(id, k)
    \/ \E now \in Times : PeekNextExecutable(now) \/ ClaimNextExecutable(now)
    \/ Clear

Spec == Init /\ [][Next]_vars
-----------------------------------------------------------------------------
(* Properties *)

TypeOK ==
    /\ status \in [Ids -> {"NONE", "PENDING", "READY", "OTHER"}]
    /\ \A i \in Ids : IF status[i] = "NONE" THEN task[i] = Unset ELSE task[i] \in TaskKeys
    /\ sequence \in [Ids -> 0..Count]
    /\ \A i, j \in Ids : IF sequence[i] = 0 THEN i \in Missing
                         ELSE i \notin Missing /\ (sequence[i] = sequence[j] => i = j)
    /\ clock \in Times \cup {InitialClock}
    /\ dangling \subseteq {i \in Ids : status[i] = "READY"}
    /\ WellFormed(due, DueOrder(task, sequence))
    /\ WellFormed(future, FutureOrder(task, sequence))

\* The heaps part the queued tasks by the clock: none is in both, all are READY, and
\* nothing in dueHeap is due later (the demotion in _findNext has nothing to do, since
\* the clock never goes back).
HeapsPart ==
    /\ Entries(due) \cap Entries(future) = {}
    /\ \A i \in Entries(due) \cup Entries(future) : status[i] = "READY"
    /\ \A i \in Entries(due) : task[i].executeTime <= clock

Queued == Entries(due) \cup Entries(future)

\* claimNextExecutable: "highest priority among (READY, due, deps satisfied)", then the
\* earliest time, then the first created, wherever an entry was when the call began; and
\* nothing else leaves the heaps except the blocked entries above it.
FirstDueIsClaimed ==
    \A now \in Times : ClaimNextExecutable(now) =>
        LET able  == {i \in Queued \ dangling : task[i].executeTime <= Later(now)}
            order == DueOrder(task, sequence)
            above(i) == {j \in Queued \cap dangling :
                            task[j].executeTime <= Later(now) /\ <<j, i>> \in order}
        IN  able # {} => \E i \in able :
                /\ \A j \in able \ {i} : <<i, j>> \in order
                /\ status'[i] = "OTHER"
                /\ Queued' = Queued \ ({i} \cup above(i))

\* A host that sleeps until nextWakeTime, and does not wake when it is null, oversleeps
\* nothing that is queued: no queued task's time lies before the wake.
WakesInTime ==
    \A i \in Queued : /\ NextWakeTime # <<>>
                      /\ \/ NextWakeTime[1] <= task[i].executeTime
                         \/ NextWakeTime[1] = clock
=============================================================================
