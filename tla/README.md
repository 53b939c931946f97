# TLA+ models of the h2h schedulers

The repository holds independent implementations of one program: an in-memory
task scheduler with priorities, execution times and dependencies. No
implementation calls another. This project models four of them: `agnes flash`,
whose behaviour is hardest to test, and `qwen 3.8 27b` as a whole, `kat` as a
whole, and the task graph of `bigbang`.

- [Inventory](#inventory)
- [agnes flash: what is modelled](#agnes-flash-what-is-modelled)
- [qwen 3.8 27b, kat and bigbang: what is modelled](#qwen-38-27b-kat-and-bigbang-what-is-modelled)
- [Runs](#runs)
- [Divergences](#divergences)
- [Proofs](#proofs)
- [Not modelled](#not-modelled)
- [Plan](#plan)

## Inventory

| Component | Language | State | Hard behaviour | What makes it correct |
|---|---|---|---|---|
| **agnes flash** (`src/agnes flash/src`) | TypeScript, async | tasks, reverse index, one indexed heap, incremental counters, promise queue, async-local token | awaits in the middle of operations, nested calls, promise rejection, failure propagation, deletion with dangling references, forward references | see below |
| **qwen 3.8 27b** (`src/qwen 3.8 27b/src`) | TypeScript, sync but for `executeNextTask` | tasks, `dependents`, cached unmet counts, a due heap and a future heap, per-status counters, version numbers | batch adds, hooks that call back, an `await` between claim and completion, promotion from the future heap by the clock | cached counts agree with the graph; a READY task is in exactly one heap; the graph stays acyclic |
| **bigbang** (`src/bigbang/src`) | TypeScript, sync | tasks, adjacency, one indexed heap | hooks in the middle of an execution that call back or throw, removal from the middle of the heap, updates of queued tasks | adjacency and dependencies agree; no PENDING task is forgotten |
| **kat** (`src/kat/src`) | TypeScript, sync | tasks, dependents, one inline heap | comparator, removal from the heap, completed tasks still queued | an executable task is found whenever there is one; edges are known at both ends and acyclic |
| **qwen moe** (`src/qwen moe/scheduler.py`) | Python, one lock | tasks, time heap, ready heap, dependents | lazy heap entries, updates of blocked tasks | no task becomes ready before its dependencies |
| **ornith-moe** (`src/ornith-moe/src/scheduler`) | Python | tasks, ready queue, waiting queue, dependents | reclassification, retries | no terminal task is queued again |
| **muse-glimmer** (`src/muse-glimmer/scheduler.py`) | Python, one lock | tasks, in-degrees, lazy heap with versions | stale heap entries, added dependencies | in-degrees agree with the graph; no task is stuck |
| **k2-moe**, **Nex** | Python (the same program) | tasks, dependents, ready heap | removal, failure | dependents are released once |
| **nex-n25-run2** | Python, C++ | - | registering raises; the header does not compile | - |

### agnes flash, part by part

- *Task graph and lifecycle* (`scheduler.ts`). State: `tasks` with status and
  dependency set, `dependents`, heap membership, `counters`. Operations:
  `addTask`, `updateTask`, `deleteTask`, `completeTask`, `failTask`,
  `cancelTask`, `resetTask`, `executeNextTask`, `clear`, `dispose`. Correct
  when the graph is acyclic, no READY task is lost, no blocked task is
  forgotten, failure reaches everything behind it, the reverse index and the
  counters agree with the tasks.
- *Single-writer queue* (`_serialized`, `dispose`). State: `_pending`, `_head`,
  `_current`, the token in the async-local storage. Every mutating method goes
  through it; methods called from inside an operation bypass it. Correct when
  operations run one at a time in submission order and every call settles.
- *Indexed heap* (`binary-heap.ts`). State: the array and the index. Correct
  when they agree and the order holds after every operation.
- *Dispatch* (`compareIds`, the loop of `executeNextTask`, every method that
  moves a heap entry). Correct when the best due task is chosen.
- *Graph walks* (`_wouldCreateCycle`, `_witnessPath`, `_findCycle`,
  `_extractCycle`, `_propagateFailure`). Correct when they end and compute
  reachability.
- *Hooks, metrics and the read API*: change no scheduling state.

The methods call the queue; the queue runs one method body at a time; the body
calls the walks to validate and to propagate, moves entries of the heap, and
counts. The runner and the hooks are user code that a body awaits and that may
call the methods again.

## agnes flash: what is modelled

| Module | Models | State |
|---|---|---|
| `Reachability` | reachability and acyclicity of a finite graph, without recursion | - |
| `AgnesGraph` | what the scheduler computes from a graph: satisfied and failed dependencies, victims of a failure, the reconciled status, edges of the reverse index | - |
| `AgnesScheduler` | the task graph, one action per mutating method | `status`, `deps` (`task.dependencies`), `dependents`, `heap` (as a set), `byStatus` and `edges` (`counters`), `frames`, `disposed` |
| `SerialWriter` | what the queue promises | `order`, `waiting`, `active` |
| `AgnesQueue` | `_serialized`, `dispose` | `state` of each call's promise, `store` (the async-local token), `tail`, `prev`, `current` (`_current`), `pending` (`_pending`), `disposed`; `submitted` is history |
| `AgnesHeap` | `binary-heap.ts` as operators | - |
| `HeapMachine` | the whole interface of this heap and of qwen's as a machine | `program`, `heap`, `rank` |
| `AgnesDispatch` | the heap as the scheduler uses it | `status`, `task` (the ordering keys), `heap`, `unmet` (the READY tasks with a dependency that is not COMPLETED); `upset` is history |
| `AgnesCycleProbe` | `_wouldCreateCycle` and `_witnessPath` | the loop's own variables |
| `AgnesCycleAudit` | `_findCycle` and `_extractCycle` | the loop's own variables |
| `AgnesPropagation` | `_propagateFailure` and `_expandDependents` | the loop's own variables |
| `AgnesWalks` | the three walks, composed by `INSTANCE` | theirs |
| `MC...` | sets and symmetries for TLC | - |
| `ReachabilityProofs`, `HeapLemmas`, `AgnesSchedulerProofs`, `AgnesQueueProofs`, `AgnesWalksProofs`, `HeapProofs`, `SchedulersProofs` | lemmas and theorems, see [Proofs](#proofs) | - |

How they fit together: `AgnesScheduler` takes a method to be one step, which
`AgnesQueue` justifies by implementing `SerialWriter`. It takes the walks to
compute sets (`ReachableFrom`, `Victims`), which `AgnesWalks` shows of the
loops. It takes the heap to be a set from which any executable task may be
chosen; `AgnesDispatch` shows which one is, over the heap of `AgnesHeap`.

**AgnesScheduler.** `status[i] = "NONE"` says that the tasks map lacks `i`. A
rejected call changes nothing that the module models and is therefore no step;
`_updateTask` is the exception, which assigns before it validates, and the
assigned keys are in `AgnesDispatch`. `executeNextTask` is `ClaimNext` (with a
set `dropped` of stale entries that ranked above the chosen one) or
`FindNothing`. With a runner it is `ClaimNext`, then any nested calls, then
`RunSucceeds` or `RunFails`. A frame records the task *object* an execution
holds: when nested calls delete the task, and perhaps add its id again, the
outcome is written to an object that the map no longer has (`orphan`), while
the unblocking or the propagation that follows works by id.

**AgnesQueue.** An operation is one call. It is *queued* behind the promise
`tail[op]`, or it bypasses the queue when the token of its context is
`_current`. Each promise reaction (the start, the rejection handed on, the
removal from `_pending`) is a step of its own and may come in any order, which
allows more than the microtask queue does. A *refusing* operation is one whose
`_assertUsable` throws. `discipline` says what the user code inside operations
does with its nested calls: await each (`"sequential"`), await all of them at
the end (`"parallel"`), or not (`"detached"`).

The status counters change as in the code: `CountStatusChange` is
`_countStatusChange`, one application for each call of it, with the statuses that
the caller passes, and `CountEach` is the loop of `_propagateFailure`. An
execution counts the change from the status that it reads after the runner
(`CountOutcome`), whether or not the map still has the task.

**AgnesDispatch.** The graph is abstracted to "may be blocked or unblocked at
any time", the heap is the array. `DependencyReset` takes a READY task's
dependency away without touching the task, as `resetTask` of the dependency
does, and `Due` then refuses it, as `_depsSatisfied` does in the pop loop, until
`DependencyBack`. An update reconciles the status first and re-seats the entry
afterwards (`Reconciled`, `MovedAfterUpdate`). `compareIds` reads the tasks map when it
compares, so the order is an argument of every heap operation and is the one
after the assignments that precede the operation in the code.

## qwen 3.8 27b, kat and bigbang: what is modelled

| Module | Models | State |
|---|---|---|
| `QwenScheduler` | the task graph of qwen, one action per mutating method | `status`, `deps` (`depsOf`), `dependents`, `unmet` (`unmetDependencies`), `queued` (both heaps as one set), `frames` (completions whose hook runs), `inFlight` (awaited executors); `interrupted` is history |
| `QwenHeap` | `BinaryHeap.ts` as operators, over the sifts of `AgnesHeap` | - |
| `QwenDispatch` | `dueHeap`, `futureHeap`, the two comparators and the clock | `status`, `task` (keys), `sequence` (sequence numbers, without the gaps that deletions leave), `due`, `future`, `clock`, `dangling` |
| `KatScheduler` | `kat/src/scheduler.ts` as a whole | `status`, `task` (keys), `deps`, `dependents`, `heap` |
| `BigbangScheduler` | the task graph of bigbang | `status`, `deps` (`depSet`), `adjacency`, `frames` (executions whose hook runs); `interrupted` is history |
| `Schedulers` | `AgnesDispatch`, `QwenDispatch`, `KatScheduler` and `BigbangScheduler` side by side, by `INSTANCE` | theirs, and `program` |
| `QwenSchedulerProofs`, `SchedulersProofs` | lemmas and theorems, see [Proofs](#proofs) | - |

**QwenScheduler.** The methods are synchronous and one step each, with two
exceptions. `completeTask` calls `onTaskCompleted` after it sets the status and
before it unblocks the dependents: `CompleteTask` begins, `HookReturns` or
`HookThrows` ends it, and between them any method may be called, another
completion included. `executeNextTask` awaits an executor: `ClaimNext`, and
later `ExecutorResolves` or `ExecutorRejects`, which go by id and may meet a
task that was settled, deleted or added again meanwhile. A resolution begins a
completion with the hook's frame. Hooks that are the last thing a method does
come after it and need no step. A claim may meet any set of blocked entries,
which it re-blocks; which entries come first is `QwenDispatch`'s business. A
batch is `AddTasks`, which rebuilds the heaps from itself, or
`AddTasksRejected`, which leaves records behind; these may depend on any id of
the batch, on those that were never created too. `"FAILED"` stands for FAILED
and CANCELLED: no method but the idempotence of `failTask` and `cancelTask`
tells them apart, and those calls change nothing.

**QwenDispatch.** A heap is the record of `AgnesHeap`: the two programs' sifts
agree, their `push`, `remove` and `heapify` differ. The graph is abstracted to
"may be promoted, withdrawn or blocked at any time". `_promoteDue` and the walk
of `_findNext` are recursive functions over the pair of heaps. `now` in the past
is ignored, as in `_advanceClock`. The demotion in `_findNext` and the stale
discards are left out because `HeapsPart` shows that nothing ever reaches them.

**KatScheduler.** Completed tasks stay in the heap until they are removed.
`getNextExecutableTask` changes nothing and is the operator `Answer`: the root
if it is executable, otherwise the first that the scan finds. A heap node's keys are
copies of the task's that the two update methods replace together, so the order
reads the tasks.

**BigbangScheduler.** `executeNextTask` calls a hook before it marks the task
COMPLETED and one before it unblocks the dependents; both may call any method
and may throw. A frame knows whether its task object has left the map, since
the status is written to the object and the unblocking goes by id. The heap and
the times are left open: any READY task whose dependencies are met may be the
one found, or none. `_registerDeps` and `_unregisterDeps` go through the
dependencies that they are given (`Register`, `Unregister`), and only deletion
goes through the whole adjacency (`CleanedUp`).

**Mutations.** Next to a definition, some modules hold a variant of it that is
marked *Mutation*: the definition as a plausible mistake would have it. No
specification uses them. Each property is known to fail when a mutation takes
the place of its definition; `PROJECT.json` pairs them.

## Runs

Every run is `tlc -config <run>.cfg <module>`.

| Run | Module | Instance | Shows |
|---|---|---|---|
| `AgnesManual` | `MCAgnesScheduler` | 3 ids, forward references, no runner | the graph side: acyclicity, exact validation, no lost task, no lost wakeup, contagion, exact status counters, terminal statuses that stand |
| `AgnesRunner` | `MCAgnesScheduler` | 3 ids, strict mode, a runner, one execution at a time | the same hazards with any nested calls inside an execution |
| `AgnesQueue` | `MCAgnesQueue` | 3 operations and a dispose | `SerialWriter` is implemented, every call settles |
| `QwenScheduler` | `MCQwenScheduler` | 3 ids, batches of 2, two nested completions, one awaited executor, 3 edges | the graph side of qwen: counts, reverse index, lost wakeups, statuses, acyclicity, heap membership |
| `Schedulers` | `MCSchedulers` | 3 ids, 2 priorities, 2 times; 2 nested executions of bigbang | agnes and qwen choose the best due task and lose none; kat has an answer as long as a due task is pending; kat's and bigbang's graphs are sound |
| `Heaps` | `MCHeaps` | 6 keys, 3 ranks | heap order, index, minimum, of both heaps |
| `AgnesWalks` | `AgnesWalks` | every graph over 3 ids | the walks compute reachability and end |
| `AgnesQueueDeadlock` | `MCAgnesQueue` | parallel nested calls | a violation, see below |
| `AgnesQueueRejection` | `MCAgnesQueue` | sequential nested calls | a violation |
| `AgnesLostWakeup` | `MCAgnesScheduler` | as `AgnesManual`, fewer edges | a violation |
| `AgnesEdgeDrift` | `MCAgnesScheduler` | strict mode | a violation |
| `QwenBatchAdd` | `MCQwenScheduler` | as `QwenScheduler`, smaller | a violation |

**Bounds.**
- Three ids hold a diamond's half, a chain with a middle, a cycle through an
  existing and a dangling edge, and a task behind two others.
- `MaxEdges` and `MaxDrift` of `AgnesScheduler` limit `addTask` alone: a task is
  added only while the edge counter is at most `MaxEdges` and no status counter
  is more than `MaxDrift` too low. Without them the drifting counters would make
  the state space infinite. In `AgnesManual` `MaxEdges` is 3, as many edges as an
  acyclic graph of three ids has, so additions stop only when the counter has
  drifted above the truth. In `AgnesRunner`, `AgnesLostWakeup` and `AgnesEdgeDrift`
  it is 1, as many edges as the two tasks that a third one joins have between
  them, which is less: once a dangling edge is counted besides another, or the
  counter has drifted by one above that, no task is added until edges go. Updates
  are not limited, and the theorems hold for all values of both bounds.
- `MaxDepth = 1` in `AgnesRunner`: an execution nested in a runner's execution
  is not explored there. The theorems hold for every depth.
- Three ordinary operations and one dispose: an operation, two nested in it or
  in each other, or one independent behind it; the dispose may come anywhere.
- Six keys: three levels of the heap, where a removal from one subtree moves an
  entry of the other subtree that must rise. Three ranks give ties and both
  directions of a sift. `heapify` starts from the empty heap, since it clears.
- In `AgnesDispatch`, times are 0 or 1 and `now` is one of them: due, not due,
  and ties down to the id. In `QwenDispatch` the clock
  starts at 0 and times are 1 or 2, so that a task may be due, due after one
  step of the clock or after two, and a call may come with an older `now`. In
  `AgnesDispatch` and `KatScheduler` all tasks have one `createdAt`: it is a
  third key after two others that already order and tie, and it never changes.
- `QwenScheduler`: three ids and three edges hold a chain, a diamond's half and
  the circle of three that an update must not close; a completion whose hook completes a
  second dependency needs two frames; an outcome that meets a task deleted and
  added again needs one executor. `QwenBatchAdd` needs two calls and has the
  smallest bounds.
- `MaxEdges` stops only calls that would exceed it: kat three edges, bigbang
  two, which is a task behind two others or a chain.
- Three ids in `AgnesWalks`: self-loops, two-cycles with a tail, unregistered
  ids. All graphs, all reverse indexes, all statuses that the walk tells apart.

**Symmetry.** Ids are interchangeable in `AgnesScheduler`, and keys in
`HeapMachine`, in `QwenScheduler`, and in `QwenDispatch`, `KatScheduler` and
`BigbangScheduler`, which break their ties by sequence or by position.
`AgnesDispatch` compares ids and has numbers of its own in `Schedulers`;
`AgnesQueue` checks liveness: no symmetry there.

**Fairness.** `AgnesQueue`: promise reactions run, and the bodies of operations
end once their awaited calls have settled. The first is the event loop's
guarantee, the second is what the scheduler asks of runners and hooks; a runner
that never returns stops the scheduler by design. The walks: a synchronous
loop goes on. The schedulers' graphs and dispatch orders state no liveness:
nothing in the code obliges a caller to call.

**Deadlock** is checked in `AgnesScheduler`, `QwenScheduler`, `Schedulers` and
`HeapMachine`. `AgnesQueue` has finitely many calls and `AgnesWalks`
finitely many loop steps, and both rightly stop.

**What the properties say.**
- `Acyclic`, `ValidationIsExact`: the per-edge check against the graph before
  an update accepts precisely the sets that keep the graph acyclic.
- `ReadyIsQueued`, `QueuedIsReadyOrOver`: what the heap may lack and hold.
- `PendingIsBlocked`: a PENDING task whose edges the reverse index knows has a
  dependency that is not COMPLETED.
- `NoLiveBehindFailed`: no live task waits for a FAILED or CANCELLED one that
  knows it.
- `ReverseEdgesExist`, `CountersExact`: the redundant state agrees with the
  tasks. `CountersExact` is checked without a runner.
- `TerminalStands`: without a runner, only `resetTask` revives a task.
- `RefinesSerialWriter`, `EveryCallSettles`, `CurrentIsInnermost`: the queue.
- `AgnesChoosesFirstDue`, `QwenChoosesFirstDue`, `PopTakesFirst`, `HeapOrdered`:
  the order.
- `QwenHeapsKeepTime`: the clock parts qwen's two heaps, and a host that sleeps
  until `nextWakeTime` oversleeps no queued task.
- `CountNeverTooHigh`: qwen's cached count of unmet dependencies never exceeds
  what is really unmet or still to be announced, so no task waits for a
  completion that has been announced. It may be too low, and then a task is
  READY early, and `_findNext` puts it back.
- `NobodyIsStranded`: no step of qwen leaves a task PENDING whose dependencies
  are all COMPLETED and announced, since nothing would make it READY any more. A
  rejected batch creates such tasks, and a hook that throws leaves its completion
  unannounced; both are excepted, and both are below.
- `ReverseIndexExact`, `StatusesFollowTable`, `UpdatesKeepAcyclic`: qwen's index,
  statuses and graph. Additions are excepted from the last, see below.
- `OnlyBatchesForget`: no call but a batch makes a READY task without an entry.
- `KatGraphSound`, `BigbangGraphSound`: edges are known at both ends; kat's close
  no cycle, and bigbang's PENDING tasks wait for something.
- `KatNeverStuck`: when every pending task's time has come, kat has an answer. It
  takes the graph (no cycle, no dependency that is gone), the statuses and the
  heap (no lost node) together. It does not say that the answer is the best
  one, which is not so, see below.
- `EdgeCheckIsRight`, `AuditIsRight`, `PropagationIsRight`, `EveryWalkEnds`.

## Divergences

Five runs show the code doing what its documentation rules out; their traces
are short.

1. *Two nested calls awaited together deadlock* (`AgnesQueueDeadlock`). While
   the first nested call runs, `_current` is its token, so the second is queued
   behind its own parent (`scheduler.ts:1018`).
2. *A rejected call takes its successors along* (`AgnesQueueRejection`).
   `tail.then(...)` has no rejection handler (`scheduler.ts:1026`).
3. *A deleted and re-created dependency unblocks nobody* (`AgnesLostWakeup`).
   `deleteTask` drops the reverse edges into the task, the forward edges stay
   (`scheduler.ts:428`).
4. *The edge counter drifts* (`AgnesEdgeDrift`), for the same reason.
5. *A batch forgets the tasks before it* (`QwenBatchAdd`). `addTasks` rebuilds
   both of qwen's heaps from the batch alone (`TaskScheduler.ts:303`), an empty
   batch included; the READY tasks that were queued are never claimed.

Others were met while the modules were written and have no run of their own:

- READY does not imply that all dependencies are COMPLETED: resetting a
  COMPLETED dependency leaves its READY dependents as they are
  (`scheduler.ts:509`; `ARCHITECTURE.md:69`).
- The heap holds entries of tasks that are not READY, after a propagation
  (`scheduler.ts:799`; `ARCHITECTURE.md:31`). `QueuedIsReadyOrOver` is what
  holds instead.
- In strict mode a live task may depend on a task that does not exist, by
  resetting it after the deletion (`scheduler.ts:435`).
- With a runner, a terminal status does not stand: the outcome of the execution
  overwrites what a nested call decided (`scheduler.ts:594`, `:612`), and the
  status counters drift when a nested call deleted the task.
- A rejected `updateTask` may leave the new priority behind and the heap out of
  order (`scheduler.ts:365`).
- A nested call that is not awaited outlives its parent and interleaves with
  the next operation (`ARCHITECTURE.md:123`).

In qwen 3.8 27b (`TaskScheduler.ts`):

- An id that was deleted while others depend on it may be added again with a
  dependency on one of them, which closes a cycle; the comment at `:146` says a
  new task cannot. `addTasks` says itself that it does not check.
- A batch whose second pass refuses an input keeps the records of the inputs
  before it: PENDING, not counted as added, with a count of 0, and no completion
  finds them (`:258`).
- A throw in `onTaskCompleted` leaves the dependents PENDING for good (`:480`).
- `peekNextExecutable` demotes blocked tasks to PENDING; its comment says that
  no status changes (`:562`).
- `clear` leaves the clock as it is; its comment says it is reset (`:758`).
- The cached count may be too low: a COMPLETED dependency that is deleted, added
  again by a batch and completed again is counted off twice (`:490`).

In kat (`scheduler.ts`): `compare` ranks the *later* `executeAt` and `createdAt`
first, against its comment (`:110`), while the scan prefers the earlier; an
executable root is returned without a scan, so among tasks of one priority the
later may be returned, against the comment at `:247`, `kat/README.md:41` and the
test "respect execution timestamp when priorities are equal". `removeAt` never
sifts up, so with enough nodes the root may not even have the highest priority of
the due. The model has the same root. No property says which task `Answer`
returns: the documented one would fail, and one that accepts any executable root
would say nothing.

In bigbang (`scheduler.ts`, `binary-heap.ts`): the search stops half-way
(`:211`), so `executeNextTask` may return null though a task is executable;
`remove` in the middle leaves a duplicate of the last entry, and `pop` forgets
the position of the wrong id (`binary-heap.ts:112`, `:131`); an execution nested
in `onTaskComplete` may run a task twice by such a duplicate; dependency cycles
are accepted; a READY task that is given unmet dependencies stays READY.

## Proofs

`tlapm` checks every theorem below. Every invariant and every action property
that a run checks, and the refinement of `SerialWriter`, is the statement of
one of them: the runs show it on a small instance, the theorem for every value
of the constants.

**Assumptions**, each in the module that declares the constants and evaluated by
TLC on the instances:

| Assumption | Says |
|---|---|
| `AgnesAssumption`, `QwenAssumption` | the ids are finitely many; limits are naturals, options Booleans |
| `AgnesQueueAssumption` | the names of the queue's two heads, and "no operation", are no operations; disposals are operations; the disciplines are the three. The operations may be infinitely many |
| `AgnesWalksAssumption` | the ids are finitely many, and "no id" is none of them |
| `HeapMachineAssumption` | the keys are finitely many, the ranks are naturals |
| `SchedulersAssumption` | the ids are finitely many; priorities and times are integers |

The code justifies the finiteness: ids and keys are those that callers have
used. The bounds on edges, frames and depth may have any value.

### agnes flash: the graph (`AgnesSchedulerProofs`)

With and without a runner, at any nesting depth; the last two theorems also
assume that there is no runner, since with one they are false.

| Theorem | Property | Argument |
|---|---|---|
| `TypeCorrect` | `TypeOK` | inductive as it stands; the interesting conjuncts say that the heap and the frames name existing tasks |
| `NeverCyclic` | `Acyclic` | `GraphInv` adds that a missing id has no dependencies and that reverse edges exist. A new dependency set leaves the graph acyclic because no member reaches the task (`AcyclicUpdate`): a cycle through the task would leave it by a new edge and come back |
| `ReverseEdgesSound` | `ReverseEdgesExist` | a part of `GraphInv` |
| `NoReadyTaskLost` | `ReadyIsQueued` | `HeapInv`: READY tasks are in the heap, and what is in the heap is READY or terminal. The first alone is not inductive, since a step that drops stale entries must know what they are |
| `HeapEntriesFit` | `QueuedIsReadyOrOver` | the other half of `HeapInv` |
| `FailureContagious` | `NoLiveBehindFailed` | `ContagionInv`: behind every failed or cancelled task all known dependents are terminal, and this survives a failure because the victims are closed under the reverse edges out of tasks that are not COMPLETED (`FailContagious`), and the walk, in an acyclic graph, never has to go on through its origin (`WalkAvoidsOrigin`) |
| `ValidationExact` | `ValidationIsExact` | the converse of `NeverCyclic`: a dependency that already reaches the task closes a loop with the new edge (`CyclicUpdate`) |
| `NoLostWakeup` | `PendingIsBlocked` | only a completion makes a task COMPLETED, and it promotes every known dependent that waits for nothing else (`PromoteBlocked`); failures and reconciliation create no COMPLETED task (`FailBlocked`, `ReconcileBlocked`) |
| `TerminalIsFinal` | `TerminalStands` | without a runner no execution is open (`NoFrames`), and a propagation marks live tasks only (`FailSpares`) |
| `CountersAgree` | `CountersExact` | the calls that a step makes carry exact counters from the statuses they are told to the statuses the step leaves: one call (`CountOneExact`), the loop of a propagation (`CountEachExact`), and their orders agree (`CountsCommute`). `CountStep` goes through the handlers; what a reconciliation or an unblocking counts is compared with what it changes |

### agnes flash: the queue (`AgnesQueueProofs`)

| Theorem | Property | Argument |
|---|---|---|
| `TypeCorrect` | `TypeOK` | what is queued is in `_pending`, so that the next submission is chained behind it |
| `ImplementsSerialWriter` | `RefinesSerialWriter` | `QueueInv`: besides the types, an operation is in `submitted` once (`Submissions`), `_pending` is a part of `submitted` in its order (`PendingInOrder`), all that was submitted between an operation and the one it is chained on has settled (`TailsRight`), and an operation has left the queue only when all before it have settled (`InTurn`). Then at most one root operation runs (`OneRoot`), and each step of the queue is one of the serial writer's or a stutter (`SerialStep`) |
| `CurrentInnermost` | `CurrentIsInnermost` | `NestingInv`: when nested calls are awaited, the operations that run form a chain, each begun in the context of the one before it, from one that was queued; `_current` is its end. A nested call extends the chain (`ChainGrows`), a settlement shortens it (`ChainShrinks`) |

### agnes flash: the walks (`AgnesWalksProofs`)

For every finite graph, over all orders in which a set may be iterated. The
invariant is `WalksInv`, one part for each walk.

| Theorem | Property | Argument |
|---|---|---|
| `TypeCorrect` | `TypeOK` | a part of `WalksInv` |
| `EdgeCheckSound` | `EdgeCheckIsRight` | `ProbeInv`: the visited nodes are reachable from the dependency, and those no longer queued were expanded and are not the task. When the queue is empty the visited set is closed, hence the reachable set (`ReachLeast`). `WitnessInv`: parents are visited, and the path that they lead up consists of real edges |
| `AuditSound` | `AuditIsRight` | `AuditInv`, the three colours: the grey nodes are the stack and follow each other by edges (`Tracks`), the black ones are closed and acyclic (`Settled`). A grey dependency closes a loop; with no white node left all is settled. `ChainInv`: the parents lead down the stack, so the reported cycle is one |
| `PropagationSound` | `PropagationIsRight` | `PropagationInv`: the walk decides by statuses that it is changing; the invariant says what each visited node was *before* the walk. What was marked was live and therefore expanded either way |

### The heaps (`HeapLemmas`, `HeapProofs`)

`HeapLemmas` says what each operation of `AgnesHeap` does, for every finite or
infinite set of keys and every comparator that never ranks two keys before each
other and is transitive in "not behind" (`IsOrder`): a new entry that rises (`AppendedRight`), an entry that
takes a removed one's place and rises or sinks (`RemovedRight` for agnes,
`TakenRight` for qwen), `PoppedRight`, `PushedRight`, `HeapifiedRight`; the root
comes first (`RootFirst`). The `...Indexed` lemmas say what stays right when the
array is *not* in order: kat never sifts up on a removal, and a rejected update
of agnes moves nothing.

A sift goes through heaps with one entry out of place (`Astray`): all is in
order but that entry, and would be if it were not there. `SinksFrom` is the same for Floyd's loop, of the part of the array
that is done.

| Theorem | Property | Argument |
|---|---|---|
| `HeapTypeCorrect`, `HeapInOrder` | `TypeOK`, `HeapOrdered` | `Sound`: the types, `Coherent` and `Ordered` of the heap of either program (`HeapSound`). It is inductive, by one lemma for each operation |
| `PopTakesTheFirst` | `PopTakesFirst` | an ordered heap has at its root a key that none ranks before (`RootFirst`), and `PoppedRight` |

Proving `HeapTypeCorrect` showed a gap in what the run had checked: `Coherent`
had said that each entry is where the index says, and not that the index names
only entries. `contains` and `remove` rely on that, and it now says both.

### qwen: the graph (`QwenSchedulerProofs`)

| Theorem | Property | Argument |
|---|---|---|
| `TypeCorrect` | `TypeOK` | entries of the heaps are READY tasks |
| `TableFollowed` | `StatusesFollowTable` | `LawfulChange` of each id at each step (`StatusStep`); completions in a hook's frame go by id and meet tasks that were added again |
| `IndexExact` | `ReverseIndexExact` | `IndexKnown`: the index holds either all edges of a task or none, and none only of tasks that are not READY, not RUNNING and have the count 0; so an unblocking never meets a task that it half knows |
| `CountsNeverTooHigh` | `CountNeverTooHigh` | `CountsFit`: the count is at most the number of dependencies that are *awaited*, i.e. not COMPLETED or COMPLETED with the hook still running. A step changes the awaited set by one id at most (`AwaitedPush`, `AwaitedPop`), and the index says whose counts follow |
| `NoWakeupIsLost` | `NobodyIsStranded` | by `CountsFit` a task that the step strands has the count 0 after it (`StrandedCount`), and no step but a rejected batch makes a count 0 of a task that it leaves PENDING (`AwaitingStep`) |
| `BatchesForget` | `OnlyBatchesForget` | `Remembers` is kept by every step but `AddTasks` |
| `UpdatesAcyclic` | `UpdatesKeepAcyclic` | `UpdateAcyclic`, from `AcyclicUpdate` |

### Dispatch, kat and bigbang (`SchedulersProofs`)

| Theorem | Property | Argument |
|---|---|---|
| `AgnesSound` | - | `AgnesInv`: the types; READY tasks have an entry, entries are READY or terminal; the heap's index is right, and its order too until an update of a queued task fails half-way |
| `AgnesQueued` | `AgnesReadyIsQueued` | a part of `AgnesInv`. The pop loop and the pushes back are loops over pairs of heap and list (`PopLoopEnds`, `RepushedEnds`): popped and remaining entries are together those of the heap |
| `AgnesStartsFirstDue` | `AgnesChoosesFirstDue` | of a heap in order nothing that remains comes before what was popped (`PopsRight`), so the first popped entry that is due is the first of all that are due; stale entries, future-dated ones and READY tasks whose dependency was reset are popped before it and hide nothing |
| `QwenSound` | - | `QwenInv`: the types; sequence numbers are distinct (`QwenNumbered`); the heaps are in order, hold READY tasks only, none in both, and dueHeap nothing that is not due (`QwenParts`) |
| `QwenKeepsTime` | `QwenHeapsKeepTime` | `QwenParts`, and the root of futureHeap has the least time |
| `QwenClaimsFirstDue` | `QwenChoosesFirstDue` | `PromotedEnds`: when the promotion stops, the heaps are parted by the new clock. `DroppedEnds`: the blocked entries dropped are those before the root, and the root is not blocked (`QwenFinds`) |
| `KatSound` | `KatGraphSound` | `KatInv`: a task that is gone has no dependencies, so `removeTask`, which goes through the dependents that exist, misses none |
| `KatHeapSound`, `KatGetsThrough` | `KatNeverStuck` | `KatHeapInv`: heap and tasks hold the same ids, whatever the order of the array. With no cycle some pending task depends on no pending one, its dependencies exist by `KatInv` and are thus completed, and its node is in the heap (`KatProgress`) |
| `BigbangSound` | `BigbangGraphSound` | each PENDING task waits (`Waits`): kept by the pushes and pops of frames, and by the deletion of a task whose hook is running, since such a frame announces nothing; a task that is gone has no dependencies, so that an id added again starts from a clean adjacency |
| `TypesRight` | `TypeOK` | from `AgnesSound` and `AgnesUnmetSound` (only READY tasks are in `unmet`), `QwenSound`, `KatHeapSound` and `BigbangTypes`; that positions are at most `MaxId` is the pigeonhole principle (`AgnesPlaces`) |

`QwenDispatch` counts sequence numbers without gaps, so that they are bounded:
`DeleteTask` moves the later ones down. No comparison changes.

### Recursion

The functions that walk a heap, a path or a list are recursive functions over a
set. Two things must be shown of each: that it exists, since `CHOOSE` promises
nothing of an equation without a solution, and what it computes. The induction
theorems of the library cannot be cited (they take an operator), so
`LeastNumber`, that a set of naturals that is not empty has a least member,
stands for induction: a loop is right if there is no least number of remaining
steps at which it is wrong. `HeapLemmas` says this once of all loops that go from
state to state: the recursive function exists (`LoopExists`, without any
measure), and with a measure that each step lowers it ends where it stops, with
every invariant kept (`LoopEnds`). The sifts, Floyd's loop, the pop and push
loops, the promotion, the walk of `_findNext` and the selection from a batch are
instances. The witness path of the edge check
and the chain of the audit exist because each step of the walk extends them
(`WitnessInv`, `ChainInv`).

### What is not proved

Out of the prover's reach, and checked by TLC only: liveness
(`EveryCallSettles`, `EveryWalkEnds`) and everything about `ENABLED`, deadlock
included. The violations are counterexamples, and need no proof. Nothing is
proved of how `AgnesScheduler`, which takes the heap to be a set and the walks to
be operators, composes with `AgnesDispatch` and `AgnesWalks` in one
specification: the modules meet in the operators of `AgnesGraph` and
`Reachability`, by reading.

## Not modelled

- Hooks of agnes flash are taken not to call the scheduler back; names,
  payloads, timestamps, `attempts` and the monotone metrics are left out
  (`propagatedFailures` counts each victim twice, `scheduler.ts:813`).
- The read methods of agnes flash change nothing.
- qwen: queries and diagnostics (`findCycle`, `getBlockedTasks`, metrics),
  version numbers, payloads, the monotone counters.
- kat: listings and statistics.
- bigbang: the heap and the times, `maxTasks`, the read methods.
- The Python schedulers, so far. `nex-n25-run2` has no behaviour to model.
- Examples, benchmarks, generated coverage pages, reports.

## Plan

1. *The heap of bigbang*, as an array with duplicates and a position table that
   is wrong, against what `executeNextTask` takes it to be. `BigbangScheduler`
   then says which READY task is found.
2. *agnes flash*: a specification of the order alone (a set of keys from which a
   first one is taken) that `AgnesDispatch` and `HeapMachine` implement, so that
   the dispatch theorems cite it instead of the array.
3. *The Python schedulers*, as far as they differ: lazy heap entries in
   `muse-glimmer` and `qwen moe`, reclassification in `ornith-moe`.
