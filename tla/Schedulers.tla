----------------------------- MODULE Schedulers -----------------------------
(***************************************************************************)
(* Four modules of four schedulers side by side: how "agnes flash" and     *)
(* "qwen 3.8 27b" choose the next task (AgnesDispatch, QwenDispatch), and  *)
(* "kat" and "bigbang" as a whole (KatScheduler, BigbangScheduler).  The   *)
(* programs share nothing; a behaviour is one of one of them, the initial  *)
(* state says of which, and the variables of the others stay empty.        *)
(***************************************************************************)
EXTENDS Integers, Sequences, FiniteSets

CONSTANTS
    Ids,                \* the task ids, interchangeable
    MaxId,              \* those of AgnesDispatch, which compares them, are 1..MaxId
    Priorities, Times,  \* bounds: the priorities, and the times of tasks and calls
    ClockTimes,         \* bound: the times of tasks and calls in QwenDispatch
    CreationTimes,      \* bound: the values of createdAt
    MaxFrames,          \* bound: nested executions of bigbang
    KatEdges, BigbangEdges \* bounds: the dependencies of all tasks together

\* Priorities and times are numbers, and the ids are finitely many.
ASSUME SchedulersAssumption ==
    /\ IsFiniteSet(Ids) /\ MaxId \in Nat
    /\ Priorities \subseteq Int /\ Times \subseteq Int
    /\ ClockTimes \subseteq Int /\ CreationTimes \subseteq Int

VARIABLES
    program,
    agnesStatus, agnesTask, agnesHeap, agnesUnmet, agnesUpset,
    qwenStatus, qwenTask, qwenSequence, qwenDue, qwenFuture, qwenClock, qwenDangling,
    katStatus, katTask, katDeps, katDependents, katHeap,
    bigbangStatus, bigbangDeps, bigbangAdjacency, bigbangFrames, bigbangInterrupted

agnesVars   == <<agnesStatus, agnesTask, agnesHeap, agnesUnmet, agnesUpset>>
qwenVars    == <<qwenStatus, qwenTask, qwenSequence, qwenDue, qwenFuture, qwenClock, qwenDangling>>
katVars     == <<katStatus, katTask, katDeps, katDependents, katHeap>>
bigbangVars == <<bigbangStatus, bigbangDeps, bigbangAdjacency, bigbangFrames, bigbangInterrupted>>
vars        == <<program, agnesVars, qwenVars, katVars, bigbangVars>>

Agnes == INSTANCE AgnesDispatch
    WITH status <- agnesStatus, task <- agnesTask, heap <- agnesHeap, unmet <- agnesUnmet,
         upset <- agnesUpset

Qwen == INSTANCE QwenDispatch
    WITH Times <- ClockTimes, status <- qwenStatus, task <- qwenTask, sequence <- qwenSequence,
         due <- qwenDue, future <- qwenFuture, clock <- qwenClock, dangling <- qwenDangling

Kat == INSTANCE KatScheduler
    WITH MaxEdges <- KatEdges,
         TaskKeys <- [priority : Priorities, executeAt : Times, createdAt : CreationTimes],
         status <- katStatus, task <- katTask, deps <- katDeps, dependents <- katDependents,
         heap <- katHeap

Bigbang == INSTANCE BigbangScheduler
    WITH MaxEdges <- BigbangEdges,
         status <- bigbangStatus, deps <- bigbangDeps, adjacency <- bigbangAdjacency,
         frames <- bigbangFrames, interrupted <- bigbangInterrupted

\* The variables of a program that does not run.
NoAgnes ==
    /\ agnesStatus = <<>> /\ agnesTask = <<>> /\ agnesHeap = <<>> /\ agnesUnmet = <<>>
    /\ agnesUpset = <<>>
NoQwen ==
    /\ qwenStatus = <<>> /\ qwenTask = <<>> /\ qwenSequence = <<>> /\ qwenDue = <<>>
    /\ qwenFuture = <<>> /\ qwenClock = <<>> /\ qwenDangling = <<>>
NoKat ==
    /\ katStatus = <<>> /\ katTask = <<>> /\ katDeps = <<>> /\ katDependents = <<>>
    /\ katHeap = <<>>
NoBigbang ==
    /\ bigbangStatus = <<>> /\ bigbangDeps = <<>> /\ bigbangAdjacency = <<>>
    /\ bigbangFrames = <<>> /\ bigbangInterrupted = <<>>

Init ==
    \/ program = "agnes" /\ Agnes!Init /\ NoQwen /\ NoKat /\ NoBigbang
    \/ program = "qwen" /\ Qwen!Init /\ NoAgnes /\ NoKat /\ NoBigbang
    \/ program = "kat" /\ Kat!Init /\ NoAgnes /\ NoQwen /\ NoBigbang
    \/ program = "bigbang" /\ Bigbang!Init /\ NoAgnes /\ NoQwen /\ NoKat

Next ==
    /\ UNCHANGED program
    /\ \/ program = "agnes" /\ Agnes!Next /\ UNCHANGED <<qwenVars, katVars, bigbangVars>>
       \/ program = "qwen" /\ Qwen!Next /\ UNCHANGED <<agnesVars, katVars, bigbangVars>>
       \/ program = "kat" /\ Kat!Next /\ UNCHANGED <<agnesVars, qwenVars, bigbangVars>>
       \/ program = "bigbang" /\ Bigbang!Next /\ UNCHANGED <<agnesVars, qwenVars, katVars>>

Spec == Init /\ [][Next]_vars
-----------------------------------------------------------------------------
(* Properties *)

TypeOK ==
    CASE program = "agnes"   -> Agnes!TypeOK
      [] program = "qwen"    -> Qwen!TypeOK
      [] program = "kat"     -> Kat!TypeOK
      [] program = "bigbang" -> Bigbang!TypeOK

\* agnes flash: no READY task leaves the heap through pops, re-pushes and re-seats.
AgnesReadyIsQueued == program = "agnes" => Agnes!ReadyIsQueued

\* agnes flash: executeNextTask starts the first task that is due.
AgnesChoosesFirstDue == [][program = "agnes" => Agnes!FirstDueStarts]_vars

\* qwen: the clock parts the two heaps, and nextWakeTime oversleeps no entry of them.
QwenHeapsKeepTime == program = "qwen" => Qwen!HeapsPart /\ Qwen!WakesInTime

\* qwen: claimNextExecutable takes the first task that is due and not blocked.
QwenChoosesFirstDue == [][program = "qwen" => Qwen!FirstDueIsClaimed]_vars

\* kat: edges are known at both ends, lead to tasks that exist and close no cycle.
KatGraphSound == program = "kat" => Kat!GraphSound

\* kat: a host that completes what getNextExecutableTask returns gets through all tasks.
KatNeverStuck == program = "kat" => \A now \in Times : Kat!NeverStuck(now)

\* bigbang: the adjacency is exact, and a PENDING task waits for something.
BigbangGraphSound == program = "bigbang" => Bigbang!AdjacencyExact /\ Bigbang!PendingIsBlocked
=============================================================================
