--------------------------- MODULE QwenScheduler ---------------------------
(***************************************************************************)
(* The task graph of the "qwen 3.8 27b" scheduler (src/TaskScheduler.ts):  *)
(* statuses, dependency edges and their reverse index, the cached counts   *)
(* of unmet dependencies and the set of heap entries, with one action per  *)
(* public method.                                                          *)
(*                                                                         *)
(* Methods are synchronous, so each is one step, except two.               *)
(* executeNextTask awaits an executor between its claim and its outcome,   *)
(* and everything may be called in between: inFlight counts the executors. *)
(* completeTask calls onTaskCompleted between setting the status and       *)
(* unblocking the dependents; the hook may call any method, or throw:      *)
(* frames is the stack of completions whose hook is running.  The other    *)
(* hooks are the last thing their methods do, so that what they call comes *)
(* after the method, and a throw of theirs changes nothing (a claim whose  *)
(* hook throws is one that nobody executes).                               *)
(*                                                                         *)
(* Abstracted: the two heaps are one set and any entry may be due and come *)
(* first (QwenDispatch models order and clock); names, payloads, versions, *)
(* timestamps, counters.  A rejected call changes nothing, so rejection is *)
(* the absence of a step, except for addTasks.                             *)
(***************************************************************************)
EXTENDS Naturals, Sequences, FiniteSets, Reachability

CONSTANTS
    Ids,         \* the task ids callers use
    MaxTasks,    \* SchedulerOptions.maxTasks, 0 for no limit
    MaxBatch,    \* bound: tasks that one addTasks creates
    MaxFrames,   \* bound: onTaskCompleted hooks running at a time
    MaxInFlight, \* bound: executors awaited at a time
    MaxEdges     \* bound: dependencies of all tasks together

ASSUME QwenAssumption ==
    /\ IsFiniteSet(Ids)
    /\ MaxTasks \in Nat /\ MaxBatch \in Nat /\ MaxFrames \in Nat
    /\ MaxInFlight \in Nat /\ MaxEdges \in Nat

VARIABLES
    status,      \* status of each id; "NONE" when the tasks map lacks it; "FAILED"
                 \* is FAILED or CANCELLED, which no method treats differently
    deps,        \* depsOf and task.dependencies, {} when the tasks map lacks the id
    dependents,  \* the reverse index
    unmet,       \* task.unmetDependencies
    queued,      \* the ids in dueHeap or futureHeap
    frames,      \* completions whose hook is running, the innermost last
    inFlight,    \* per id, how many executors executeNextTask awaits
    interrupted  \* history: COMPLETED tasks whose hook threw

vars == <<status, deps, dependents, unmet, queued, frames, inFlight, interrupted>>

Terminal == {"COMPLETED", "FAILED"}
Waiting  == {"PENDING", "READY"}
Live     == Waiting \cup {"RUNNING"}

\* What a frame holds: the completed id, and whether executeNextTask is the caller.
Frame == [id : Ids, executed : BOOLEAN]

Existing == {i \in Ids : status[i] # "NONE"}

Init ==
    /\ status = [i \in Ids |-> "NONE"]
    /\ deps = [i \in Ids |-> {}]
    /\ dependents = [i \in Ids |-> {}]
    /\ unmet = [i \in Ids |-> 0]
    /\ queued = {}
    /\ frames = <<>>
    /\ inFlight = [i \in Ids |-> 0]
    /\ interrupted = {}
-----------------------------------------------------------------------------
(* Helpers *)

\* Mutation: every dependency counts, whatever its status.
CountUnmetAll(st, D) == Cardinality(D)

\* _countUnmet: dangling dependencies count.
CountUnmet(st, D) == Cardinality({d \in D : st[d] # "COMPLETED"})

Satisfied(i) == \A d \in deps[i] : status[d] = "COMPLETED"

\* The edges id -> d of each d in D enter the reverse index, and leave it.
Register(rev, id, D) == [d \in Ids |-> IF d \in D THEN rev[d] \cup {id} ELSE rev[d]]

\* Mutation: the reverse edges stay.
UnregisterForgotten(rev, id, D) == rev

Unregister(rev, id, D) == [d \in Ids |-> IF d \in D THEN rev[d] \ {id} ELSE rev[d]]

\* Mutation: the entry stays.
DequeueForgotten(id) == queued

\* _heapRemove
Dequeue(id) == queued \ {id}

RoomFor(n) == MaxTasks = 0 \/ Cardinality(Existing) + n <= MaxTasks

\* Mutation: only d's own dependencies are looked at.
DepPathDirect(d, id) == d = id \/ id \in deps[d]

\* _depPath: d reaches id along dependencies.
DepPath(d, id) == id \in ReachableFrom(deps, {d})

\* The status of a waiting task with n unmet dependencies.
StatusFor(n) == IF n = 0 THEN "READY" ELSE "PENDING"
-----------------------------------------------------------------------------
(* Adding, updating, deleting *)

\* Mutation: dependents that are RUNNING are reconciled as well.
InboundEvenRunning(st, id) == {c \in dependents[id] : st[c] \in Live}

\* The dependents of an id that is added again which addTask reconciles.
Inbound(st, id) == {c \in dependents[id] : st[c] \in Waiting}

AddTask(id, D) ==
    LET n       == CountUnmet(status, D)
        created == [status EXCEPT ![id] = StatusFor(n)]
        inbound == Inbound(created, id)
        recount == [i \in Ids |-> IF i \in inbound THEN CountUnmet(created, deps[i])
                                  ELSE IF i = id THEN n ELSE unmet[i]]
    IN  /\ status[id] = "NONE"
        /\ D \subseteq Existing
        /\ RoomFor(1)
        /\ deps' = [deps EXCEPT ![id] = D]
        /\ dependents' = Register(dependents, id, D)
        /\ unmet' = recount
        /\ status' = [i \in Ids |-> IF i \in inbound THEN StatusFor(recount[i]) ELSE created[i]]
        /\ queued' = (queued \ {c \in inbound : recount[c] > 0})
                     \cup {i \in inbound \cup {id} : recount[i] = 0 /\ status[i] # "READY"}
        /\ UNCHANGED <<frames, inFlight, interrupted>>

\* The dependencies that callers may give the ids of "new", in a batch of these and
\* of "others".
BatchDeps(new, others) ==
    {D \in [new -> SUBSET (Existing \cup new \cup others)] : \A i \in new : i \notin D[i]}

RegisterAll(new, D) ==
    [d \in Ids |-> dependents[d] \cup {i \in new : d \in D[i]}]

\* The heaps are rebuilt from the batch alone, whatever was in them; dependents of
\* ids that are added again are not reconciled.
AddTasks(new, D) ==
    LET count == [i \in Ids |-> IF i \in new THEN CountUnmet(status, D[i]) ELSE unmet[i]]
    IN  /\ new \cap Existing = {}
        /\ RoomFor(Cardinality(new))
        /\ deps' = [i \in Ids |-> IF i \in new THEN D[i] ELSE deps[i]]
        /\ dependents' = RegisterAll(new, D)
        /\ unmet' = count
        /\ status' = [i \in Ids |-> IF i \in new THEN StatusFor(count[i]) ELSE status[i]]
        /\ queued' = {i \in new : count[i] = 0}
        /\ UNCHANGED <<frames, inFlight, interrupted>>

\* An input is refused in the second pass: the records made for the inputs before it
\* stay, with neither edges nor counts nor entries; "rest" are it and those after it,
\* which the first pass has admitted as dependencies.
AddTasksRejected(new, rest, D) ==
    /\ new \cap Existing = {} /\ rest \cap (new \cup Existing) = {}
    /\ RoomFor(Cardinality(new) + Cardinality(rest))
    /\ deps' = [i \in Ids |-> IF i \in new THEN D[i] ELSE deps[i]]
    /\ unmet' = [i \in Ids |-> IF i \in new THEN 0 ELSE unmet[i]]
    /\ status' = [i \in Ids |-> IF i \in new THEN "PENDING" ELSE status[i]]
    /\ UNCHANGED <<dependents, queued, frames, inFlight, interrupted>>

\* updateTask with a dependency set.
UpdateDeps(id, D) ==
    /\ status[id] \in Waiting
    /\ D \subseteq Existing \ {id}
    /\ \A d \in D \ deps[id] : ~DepPath(d, id)
    /\ deps' = [deps EXCEPT ![id] = D]
    /\ dependents' = Register(Unregister(dependents, id, deps[id]), id, D)
    /\ unmet' = [unmet EXCEPT ![id] = CountUnmet(status, D)]
    /\ status' = [status EXCEPT ![id] = StatusFor(unmet'[id])]
    /\ queued' = IF unmet'[id] = 0 THEN queued \cup {id} ELSE Dequeue(id)
    /\ UNCHANGED <<frames, inFlight, interrupted>>

\* Mutation: the entry is taken out and not inserted again.
UpdateFieldsOnly(id) ==
    /\ status[id] \in Waiting
    /\ queued' = Dequeue(id)
    /\ UNCHANGED <<status, deps, dependents, unmet, frames, inFlight, interrupted>>

\* updateTask without dependencies takes the entry out and inserts it again.
UpdateFields(id) ==
    /\ status[id] \in Waiting
    /\ queued' = IF status[id] = "READY" THEN queued \cup {id} ELSE Dequeue(id)
    /\ UNCHANGED <<status, deps, dependents, unmet, frames, inFlight, interrupted>>

\* The reverse edges into id stay, as do its dependents' counts.
DeleteTask(id) ==
    /\ status[id] # "NONE"
    /\ status' = [status EXCEPT ![id] = "NONE"]
    /\ deps' = [deps EXCEPT ![id] = {}]
    /\ dependents' = Unregister(dependents, id, deps[id])
    /\ unmet' = [unmet EXCEPT ![id] = 0]
    /\ queued' = Dequeue(id)
    /\ interrupted' = interrupted \ {id}
    /\ UNCHANGED <<frames, inFlight>>

Clear ==
    /\ status' = [i \in Ids |-> "NONE"]
    /\ deps' = [i \in Ids |-> {}]
    /\ dependents' = [i \in Ids |-> {}]
    /\ unmet' = [i \in Ids |-> 0]
    /\ queued' = {}
    /\ interrupted' = {}
    /\ UNCHANGED <<frames, inFlight>>
-----------------------------------------------------------------------------
(* Lifecycle *)

\* Leaving the waiting or running states for good: the status and the heap entry.
Settle(id, how) ==
    /\ status[id] \in Live
    /\ status' = [status EXCEPT ![id] = how]
    /\ queued' = Dequeue(id)

\* completeTask up to its hook.
BeginCompletion(id, executed) ==
    /\ Settle(id, "COMPLETED")
    /\ frames' = Append(frames, [id |-> id, executed |-> executed])
    /\ UNCHANGED <<deps, dependents, unmet, interrupted>>

CompleteTask(id) ==
    /\ Len(frames) < MaxFrames
    /\ BeginCompletion(id, FALSE)
    /\ UNCHANGED inFlight

Top == frames[Len(frames)]

PopFrame == frames' = SubSeq(frames, 1, Len(frames) - 1)

Decremented(c) == IF unmet[c] > 0 THEN unmet[c] - 1 ELSE 0

\* Mutation: the count is compared before it is lowered.
PromotedBefore(children) == {c \in children : unmet[c] = 0}

Promoted(children) == {c \in children : Decremented(c) = 0}

\* The hook returns and completeTask unblocks the dependents, as the index is now.
HookReturns ==
    LET children == {c \in dependents[Top.id] : status[c] = "PENDING"}
        promoted == Promoted(children)
    IN  /\ frames # <<>>
        /\ PopFrame
        /\ unmet' = [i \in Ids |-> IF i \in children THEN Decremented(i) ELSE unmet[i]]
        /\ status' = [i \in Ids |-> IF i \in promoted THEN "READY" ELSE status[i]]
        /\ queued' = queued \cup promoted
        /\ UNCHANGED <<deps, dependents, inFlight, interrupted>>

\* The hook throws: nothing is unblocked.  executeNextTask then fails the id, which
\* does something only if a nested call has created the id anew.
HookThrows ==
    /\ frames # <<>>
    /\ PopFrame
    /\ interrupted' = IF status[Top.id] = "COMPLETED" THEN interrupted \cup {Top.id} ELSE interrupted
    /\ IF Top.executed /\ status[Top.id] \in Live THEN Settle(Top.id, "FAILED")
       ELSE UNCHANGED <<status, queued>>
    /\ UNCHANGED <<deps, dependents, unmet, inFlight>>

\* failTask and cancelTask: the dependents stay blocked.
FailTask(id) ==
    /\ Settle(id, "FAILED")
    /\ UNCHANGED <<deps, dependents, unmet, frames, inFlight, interrupted>>
-----------------------------------------------------------------------------
(* Execution *)

\* _findNext looks at the dependencies themselves.
Blocked(i) == ~Satisfied(i)

\* _findNext: the blocked entries that it meets go back to PENDING.
Reblocked(met) ==
    unmet' = [i \in Ids |-> IF i \in met THEN CountUnmet(status, deps[i]) ELSE unmet[i]]

\* claimNextExecutable, alone or in executeNextTask, after meeting some blocked entries.
ClaimNext(id, met, executed) ==
    /\ id \in queued /\ ~Blocked(id)
    /\ \A i \in met : Blocked(i)
    /\ Reblocked(met)
    /\ status' = [i \in Ids |-> IF i = id THEN "RUNNING"
                                ELSE IF i \in met THEN "PENDING" ELSE status[i]]
    /\ queued' = queued \ ({id} \cup met)
    /\ inFlight' = IF executed THEN [inFlight EXCEPT ![id] = @ + 1] ELSE inFlight
    /\ UNCHANGED <<deps, dependents, frames, interrupted>>

\* peekNextExecutable, and a claim that finds nothing due.
LookForNext(met) ==
    /\ \A i \in met : Blocked(i)
    /\ Reblocked(met)
    /\ status' = [i \in Ids |-> IF i \in met THEN "PENDING" ELSE status[i]]
    /\ queued' = queued \ met
    /\ UNCHANGED <<deps, dependents, frames, inFlight, interrupted>>

\* The executor resolves: completeTask by id, or nothing when that throws.
ExecutorResolves(id) ==
    /\ frames = <<>> /\ inFlight[id] > 0
    /\ inFlight' = [inFlight EXCEPT ![id] = @ - 1]
    /\ IF status[id] \in Live THEN BeginCompletion(id, TRUE)
       ELSE UNCHANGED <<status, deps, dependents, unmet, queued, frames, interrupted>>

\* The executor rejects: failTask by id, or nothing when that throws.
ExecutorRejects(id) ==
    /\ frames = <<>> /\ inFlight[id] > 0
    /\ inFlight' = [inFlight EXCEPT ![id] = @ - 1]
    /\ IF status[id] \in Live THEN Settle(id, "FAILED") ELSE UNCHANGED <<status, queued>>
    /\ UNCHANGED <<deps, dependents, unmet, frames, interrupted>>
-----------------------------------------------------------------------------
\* The bounds on what callers ask for.
FewEdges     == Cardinality({e \in Ids \X Ids : e[2] \in deps'[e[1]]}) <= MaxEdges
FewExecutors ==
    Cardinality({e \in Ids \X (1..MaxInFlight + 1) : e[2] <= inFlight'[e[1]]}) <= MaxInFlight

Batches == {new \in SUBSET (Ids \ Existing) : Cardinality(new) <= MaxBatch}

RejectedBatch ==
    \E new \in Batches \ {{}}, rest \in SUBSET (Ids \ Existing) \ {{}} :
        \E D \in BatchDeps(new, rest) : AddTasksRejected(new, rest, D) /\ FewEdges

BatchStep ==
    \/ \E new \in Batches : \E D \in BatchDeps(new, {}) : AddTasks(new, D) /\ FewEdges
    \/ RejectedBatch

Next ==
    \/ \E id \in Ids, D \in SUBSET Ids : (AddTask(id, D) \/ UpdateDeps(id, D)) /\ FewEdges
    \/ BatchStep
    \/ \E id \in Ids : \/ UpdateFields(id) \/ DeleteTask(id) \/ CompleteTask(id)
                       \/ FailTask(id)
                       \/ ExecutorResolves(id) \/ ExecutorRejects(id)
    \/ \E id \in queued, met \in SUBSET queued, executed \in BOOLEAN :
          ClaimNext(id, met, executed) /\ FewExecutors
    \/ \E met \in SUBSET queued \ {{}} : LookForNext(met)
    \/ HookReturns
    \/ HookThrows
    \/ Clear

Spec == Init /\ [][Next]_vars
-----------------------------------------------------------------------------
(* Properties *)

\* Besides the types: an entry in a heap is that of a READY task, so that no push
\* of a method meets an entry of its id, which BinaryHeap answers by throwing.
TypeOK ==
    /\ status \in [Ids -> Terminal \cup Live \cup {"NONE"}]
    /\ deps \in [Ids -> SUBSET Ids]
    /\ dependents \in [Ids -> SUBSET Ids]
    /\ unmet \in [Ids -> Nat]
    /\ queued \in SUBSET {i \in Ids : status[i] = "READY"}
    /\ frames \in Seq(Frame)
    /\ inFlight \in [Ids -> Nat]
    /\ interrupted \in SUBSET Ids

\* The reverse index, which unblocking walks, holds the edges of the tasks that
\* exist and no other.  Missing are only those of tasks that a rejected batch left
\* behind, PENDING with a count of 0, or that were settled from there.
ReverseIndexExact ==
    \A i, d \in Ids :
        /\ i \in dependents[d] => status[i] # "NONE" /\ d \in deps[i]
        /\ d \in deps[i] /\ (status[i] \in {"READY", "RUNNING"} \/ unmet[i] > 0)
              => i \in dependents[d]

\* Completed tasks whose dependents have not been unblocked: the hook is still
\* running, or has thrown.
Unannounced == interrupted \cup {frames[k].id : k \in 1..Len(frames)}

\* The cached count never exceeds the dependencies that are missing or yet to be
\* announced: deletions, additions of the same id, updates by hooks and completions
\* in hooks may make it too low, never too high.
CountNeverTooHigh ==
    \A i \in Ids : status[i] \in Waiting =>
        unmet[i] <= Cardinality({d \in deps[i] : status[d] # "COMPLETED" \/ d \in Unannounced})

\* PENDING with nothing left to wait for: every dependency is COMPLETED and no hook
\* is running or has thrown between a completion and its dependents.
Stranded(i) ==
    status[i] = "PENDING" /\ \A d \in deps[i] : status[d] = "COMPLETED" /\ d \notin Unannounced

\* Nobody would make a stranded task READY.  However deletions, additions, updates and
\* nested completions have changed the graph and the counts, no step strands a task,
\* unless a rejected batch left it behind, PENDING with a count of 0.
NobodyIsStranded ==
    [][\A i \in Ids : Stranded(i)' =>
          \/ status[i] = "PENDING" /\ unmet[i] = 0
          \/ status[i] = "NONE" /\ RejectedBatch]_vars

\* types.ts: a terminal status is left by deletion alone, and a RUNNING task goes
\* nowhere but to a terminal status, whatever is deleted and added around it.
StatusesFollowTable ==
    [][\A i \in Ids :
          /\ status[i] \in Terminal => status'[i] \in {status[i], "NONE"}
          /\ status[i] = "RUNNING" => status'[i] \in Terminal \cup {"RUNNING", "NONE"}]_vars

\* No updateTask, and nothing else but an addition, closes a cycle.
UpdatesKeepAcyclic ==
    [][/\ \E i \in Ids : ~(deps'[i] \subseteq deps[i])
       /\ \A i \in Ids : status[i] = "NONE" => status'[i] = "NONE"
       => (IsAcyclic(deps) => IsAcyclic(deps'))]_vars

\* A READY task without a heap entry is never claimed.  No call makes one except a
\* batch, which rebuilds the heaps: not promotion, re-blocking, re-adding, updating.
OnlyBatchesForget ==
    [][(\E i \in Ids : /\ status'[i] = "READY" /\ i \notin queued'
                       /\ status[i] # "READY" \/ i \in queued)
          => BatchStep]_vars

\* The comment on the class: "Every READY task is in exactly one heap".
ReadyIsQueued == \A i \in Ids : status[i] = "READY" => i \in queued
=============================================================================
