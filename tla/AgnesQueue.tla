----------------------------- MODULE AgnesQueue -----------------------------
(***************************************************************************)
(* The single-writer queue of the "agnes flash" scheduler: _serialized and *)
(* dispose of src/scheduler.ts.  An operation is one call of a mutating    *)
(* method.  It is submitted either by independent code or by code that     *)
(* runs in the async context of another operation (its runner or a hook);  *)
(* store is the writer token AsyncLocalStorage then holds, the operation   *)
(* itself.  Everything an operation does between its begin and its end is  *)
(* AgnesScheduler's business; here it may only submit nested operations.   *)
(*                                                                         *)
(* Each promise reaction is a step of its own, and reactions are taken in  *)
(* any order: an over-approximation of the microtask queue.                *)
(***************************************************************************)
EXTENDS Naturals, Sequences, SequencesExt, FiniteSets

CONSTANTS
    Ops,         \* the operations callers submit
    Disposals,   \* those that are calls of dispose
    NoOp,        \* no operation: _current undefined, no token in the storage
    Disciplines  \* what the code inside an operation may do with its nested calls

\* _head before and after dispose replaced it.
Heads == {"resolvedHead", "rejectedHead"}

ASSUME AgnesQueueAssumption ==
    /\ NoOp \notin Ops
    /\ Ops \cap Heads = {}
    /\ Disposals \subseteq Ops
    /\ Disciplines \subseteq {"sequential", "parallel", "detached"}

VARIABLES
    discipline, \* of all the code inside operations: "sequential" awaits each nested
               \* call before it goes on, "parallel" awaits all of them before it
               \* ends, "detached" need not await them
    state,     \* "idle" until submitted, then where its promise stands
    store,     \* the operation in whose context it was submitted, or NoOp
    tail,      \* the promise it is chained on: an operation's, or _head
    prev,      \* _current as its execution found it
    current,   \* _current
    pending,   \* _pending
    disposed,  \* _disposed, and with it whether _head rejects
    submitted  \* history: the operations that were queued, in order

vars == <<discipline, state, store, tail, prev, current, pending, disposed, submitted>>

\* A refusing operation is one whose _assertUsable throws: it runs no user code.
Running == {"running", "refusing"}

\* A skipped operation's promise rejects although its body never ran.
Rejected == {"rejected", "skipped"}
Settled  == {"fulfilled"} \cup Rejected
States   == {"idle", "queued"} \cup Running \cup Settled

Init ==
    /\ discipline \in Disciplines
    /\ state = [op \in Ops |-> "idle"]
    /\ store = [op \in Ops |-> NoOp]
    /\ tail = [op \in Ops |-> "resolvedHead"]
    /\ prev = [op \in Ops |-> NoOp]
    /\ current = NoOp
    /\ pending = <<>>
    /\ disposed = FALSE
    /\ submitted = <<>>

\* The nested calls of op that have not settled.
Outstanding(op) == {n \in Ops : store[n] = op /\ state[n] \in {"queued"} \cup Running}

\* Code in the context of s can submit: independent code always can.
CanSubmit(s) ==
    \/ s = NoOp
    \/ /\ s \in Ops \ Disposals
       /\ CASE discipline = "sequential" -> state[s] = "running" /\ Outstanding(s) = {}
            [] discipline = "parallel"   -> state[s] = "running"
            [] OTHER                     -> state[s] \in {"running", "fulfilled", "rejected"}

\* Mutation: a nested submission is not recognised.
NeverReentrant(s) == FALSE

Reentrant(s) == s # NoOp /\ s = current

\* Mutation: chains behind the oldest pending operation.
OldestTail == IF disposed THEN "rejectedHead"
              ELSE IF pending = <<>> THEN "resolvedHead" ELSE Head(pending)

\* Mutation: chains behind nothing.
NoTail == IF disposed THEN "rejectedHead" ELSE "resolvedHead"

\* The promise that the next queued operation is chained on.
NextTail == IF disposed THEN "rejectedHead"
            ELSE IF pending = <<>> THEN "resolvedHead" ELSE Last(pending)

Enqueue(op, s) ==
    /\ state[op] = "idle"
    /\ CanSubmit(s)
    /\ ~Reentrant(s)
    /\ state' = [state EXCEPT ![op] = "queued"]
    /\ store' = [store EXCEPT ![op] = s]
    /\ tail' = [tail EXCEPT ![op] = NextTail]
    /\ pending' = Append(pending, op)
    /\ submitted' = Append(submitted, op)
    /\ UNCHANGED <<discipline, prev, current, disposed>>

\* The start of wrapped and of the operation's body.
Execute(op) ==
    /\ prev' = [prev EXCEPT ![op] = current]
    /\ current' = op
    /\ state' = [state EXCEPT ![op] =
                    IF disposed /\ op \notin Disposals THEN "refusing" ELSE "running"]
    /\ disposed' = (disposed \/ op \in Disposals)

\* A nested submission runs at once, outside the queue.
Bypass(op, s) ==
    /\ state[op] = "idle"
    /\ CanSubmit(s)
    /\ Reentrant(s)
    /\ store' = [store EXCEPT ![op] = s]
    /\ Execute(op)
    /\ UNCHANGED <<discipline, tail, pending, submitted>>

TailFulfilled(op) ==
    \/ tail[op] = "resolvedHead"
    \/ tail[op] \in Ops /\ state[tail[op]] = "fulfilled"

TailRejected(op) ==
    \/ tail[op] = "rejectedHead"
    \/ tail[op] \in Ops /\ state[tail[op]] \in Rejected

Begin(op) ==
    /\ state[op] = "queued"
    /\ TailFulfilled(op)
    /\ Execute(op)
    /\ UNCHANGED <<discipline, store, tail, pending, submitted>>

\* tail.then has no rejection handler: the operation takes over the rejection.
Skip(op) ==
    /\ state[op] = "queued"
    /\ TailRejected(op)
    /\ state' = [state EXCEPT ![op] = "skipped"]
    /\ UNCHANGED <<discipline, store, tail, prev, current, pending, disposed, submitted>>

\* Mutation: _current is cleared instead of restored.
ClearedBy(op) == NoOp

\* What the finally of wrapped makes of _current.
RestoredBy(op) == prev[op]

\* How the body of op can end.
Outcomes(op) ==
    IF state[op] = "refusing" THEN {"rejected"}
    ELSE IF op \in Disposals THEN {"fulfilled"}
    ELSE {"fulfilled", "rejected"}

Finish(op) ==
    /\ state[op] \in Running
    /\ discipline = "detached" \/ Outstanding(op) = {}
    /\ \E outcome \in Outcomes(op) : state' = [state EXCEPT ![op] = outcome]
    /\ current' = RestoredBy(op)
    /\ UNCHANGED <<discipline, store, tail, prev, pending, disposed, submitted>>

\* Mutation: the oldest entry goes, whichever settled.
RemainingShifted(op) == Tail(pending)

\* Where op is in _pending, and _pending without it.
Position(op) == CHOOSE i \in DOMAIN pending : pending[i] = op

Remaining(op) == RemoveAt(pending, Position(op))

\* The reaction that splices a settled operation out of _pending.
Dequeue(op) ==
    /\ op \in ToSet(pending)
    /\ state[op] \in Settled
    /\ pending' = Remaining(op)
    /\ UNCHANGED <<discipline, state, store, tail, prev, current, disposed, submitted>>

Next ==
    \/ \E op \in Ops, s \in Ops \cup {NoOp} : Enqueue(op, s) \/ Bypass(op, s)
    \/ \E op \in Ops : Begin(op) \/ Skip(op) \/ Finish(op) \/ Dequeue(op)

\* Reactions of settled promises run, and the bodies of operations end: user
\* code in runners and hooks returns once its nested calls have settled.
Fairness ==
    \A op \in Ops : WF_vars(Begin(op)) /\ WF_vars(Skip(op))
                    /\ WF_vars(Finish(op)) /\ WF_vars(Dequeue(op))

Spec     == Init /\ [][Next]_vars
FairSpec == Spec /\ Fairness
-----------------------------------------------------------------------------
(* Properties *)

\* Besides the types: every queued operation is in _pending, so that the next
\* submission is chained behind it.
TypeOK ==
    /\ discipline \in Disciplines
    /\ state \in [Ops -> States]
    /\ store \in [Ops -> Ops \cup {NoOp}]
    /\ tail \in [Ops -> Ops \cup Heads]
    /\ prev \in [Ops -> Ops \cup {NoOp}]
    /\ current \in Ops \cup {NoOp}
    /\ pending \in Seq(Ops) /\ submitted \in Seq(Ops)
    /\ disposed \in BOOLEAN
    /\ \A op \in Ops : state[op] = "queued" => op \in ToSet(pending)

RunningOps == {op \in Ops : state[op] \in Running}

\* p was submitted in the context of q, or of an operation nested in q, or is q.
Nested(p, q) ==
    \A S \in SUBSET Ops :
        p \in S /\ (\A o \in S : store[o] \in S \cup {NoOp}) => q \in S

\* _current names the innermost running operation and is undefined when none runs,
\* as long as the code inside operations awaits its nested calls: a stale token
\* would make a later nested call queue behind its own parent, or let unrelated
\* code bypass the queue.
CurrentIsInnermost ==
    discipline # "detached" =>
        IF RunningOps = {} THEN current = NoOp
        ELSE current \in RunningOps /\ \A op \in RunningOps : Nested(current, op)

\* The queued operation that runs, if any: nested ones run inside it.
Root == {op \in RunningOps : op \in ToSet(submitted)}

Serial == INSTANCE SerialWriter WITH
    order   <- submitted,
    waiting <- {op \in Ops : state[op] = "queued"},
    active  <- IF Root = {} THEN NoOp ELSE CHOOSE op \in Root : TRUE

\* The queue implements the serial writer, whatever the code inside operations
\* does: operations run one at a time, in the order in which they were submitted,
\* across skips, a dispose and dequeues in any order.
RefinesSerialWriter == Serial!Spec

\* Every submitted call settles when nested calls are awaited one by one, or not at
\* all: nothing waits for itself.
EveryCallSettles ==
    \A op \in Ops :
        discipline # "parallel" /\ state[op] # "idle" ~> state[op] \in Settled

\* The same for all code inside operations, with nested calls at any depth.
EveryNestedCallSettles ==
    \A op \in Ops : state[op] # "idle" ~> state[op] \in Settled

\* Only operations submitted after the dispose reject without running; the
\* operations submitted before it run.
OnlyLateCallsAreSkipped ==
    \A op \in Ops : state[op] = "skipped" => tail[op] = "rejectedHead"
=============================================================================
