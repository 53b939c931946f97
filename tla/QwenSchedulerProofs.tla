------------------------ MODULE QwenSchedulerProofs ------------------------
(***************************************************************************)
(* Theorems about QwenScheduler, for every finite set of ids and every     *)
(* value of the options and bounds.                                        *)
(***************************************************************************)
EXTENDS QwenScheduler, ReachabilityProofs, FiniteSetTheorems

-----------------------------------------------------------------------------
(* The helpers *)

\* A set of ids has a size, which its subsets do not exceed.
LEMMA SizeOfIds ==
    ASSUME NEW S \in SUBSET Ids
    PROVE  /\ IsFiniteSet(S) /\ Cardinality(S) \in Nat
           /\ \A T \in SUBSET S : Cardinality(T) \in Nat /\ Cardinality(T) <= Cardinality(S)
<1>1. IsFiniteSet(S) /\ Cardinality(S) \in Nat
    BY QwenAssumption, FS_Subset, FS_CardinalityType
<1>2. ASSUME NEW T \in SUBSET S
      PROVE  Cardinality(T) \in Nat /\ Cardinality(T) <= Cardinality(S)
  <2>1. IsFiniteSet(T) /\ Cardinality(T) <= Cardinality(S)
    BY <1>1, FS_Subset
  <2>2. QED
    BY <2>1, FS_CardinalityType
<1>3. QED
    BY <1>1, <1>2

\* A count of unmet dependencies is a number.
LEMMA CountType ==
    ASSUME NEW st, NEW D \in SUBSET Ids
    PROVE  CountUnmet(st, D) \in Nat
<1>1. {d \in D : st[d] # "COMPLETED"} \in SUBSET Ids
    OBVIOUS
<1>2. QED
    BY <1>1, SizeOfIds DEF CountUnmet

\* A waiting task is READY when nothing is unmet and PENDING otherwise.
LEMMA StatusForType ==
    ASSUME NEW n
    PROVE  /\ StatusFor(n) \in Waiting
           /\ StatusFor(n) = "READY" <=> n = 0
  BY DEF StatusFor, Waiting

\* A batch gives each new task dependencies that are ids, and no task itself.
LEMMA BatchTypes ==
    ASSUME NEW new \in SUBSET Ids, NEW others \in SUBSET Ids, NEW D \in BatchDeps(new, others)
    PROVE  D \in [new -> SUBSET Ids]
<1>1. Existing \cup new \cup others \subseteq Ids
    BY DEF Existing
<1>2. QED
    BY <1>1 DEF BatchDeps

\* A batch is added, or refused after some of its records were made.
LEMMA BatchCases ==
    BatchStep => \/ \E new \in SUBSET (Ids \ Existing) : \E D \in [new -> SUBSET Ids] :
                       AddTasks(new, D)
                 \/ /\ RejectedBatch
                    /\ \E new \in SUBSET (Ids \ Existing), rest \in SUBSET Ids :
                          new # {} /\ \E D \in [new -> SUBSET Ids] : AddTasksRejected(new, rest, D)
<1>1. ASSUME NEW new \in Batches, NEW D \in BatchDeps(new, {}), AddTasks(new, D)
      PROVE  D \in [new -> SUBSET Ids] /\ new \in SUBSET (Ids \ Existing)
  <2>1. new \in SUBSET Ids /\ new \in SUBSET (Ids \ Existing) /\ {} \in SUBSET Ids
    BY DEF Batches
  <2>2. QED
    BY <2>1, BatchTypes
<1>2. ASSUME NEW new \in Batches \ {{}}, NEW rest \in SUBSET (Ids \ Existing) \ {{}},
             NEW D \in BatchDeps(new, rest), AddTasksRejected(new, rest, D)
      PROVE  D \in [new -> SUBSET Ids] /\ new \in SUBSET (Ids \ Existing) /\ new # {}
  <2>1. new \in SUBSET Ids /\ new \in SUBSET (Ids \ Existing) /\ rest \in SUBSET Ids
    BY DEF Batches
  <2>2. D \in [new -> SUBSET Ids]
    BY <2>1, BatchTypes
  <2>3. new # {}
    OBVIOUS
  <2>4. QED
    BY <2>1, <2>2, <2>3
<1>3. RejectedBatch =>
        \E new \in SUBSET (Ids \ Existing), rest \in SUBSET Ids :
            new # {} /\ \E D \in [new -> SUBSET Ids] : AddTasksRejected(new, rest, D)
  <2>1. ASSUME RejectedBatch
        PROVE  \E new \in Batches \ {{}}, rest \in SUBSET (Ids \ Existing) \ {{}} :
                   \E D \in BatchDeps(new, rest) : AddTasksRejected(new, rest, D)
    BY <2>1 DEF RejectedBatch
  <2>2. QED
    BY <1>2, <2>1
<1>4. QED
    BY <1>1, <1>3 DEF BatchStep

\* The end of the stack of completions, and what is left under it.
LEMMA FramesType ==
    ASSUME frames \in Seq(Frame), frames # <<>>
    PROVE  /\ Len(frames) \in Nat \ {0}
           /\ Top.id \in Ids /\ Top.executed \in BOOLEAN
           /\ PopFrame => /\ frames' \in Seq(Frame)
                          /\ Len(frames') = Len(frames) - 1
                          /\ \A k \in 1..Len(frames) - 1 : frames'[k] = frames[k]
<1>1. Len(frames) \in Nat /\ Len(frames) # 0
    OBVIOUS
<1>2. Top \in Frame
    BY <1>1 DEF Top
<1>3. ASSUME PopFrame
      PROVE  /\ frames' \in Seq(Frame)
             /\ Len(frames') = Len(frames) - 1
             /\ \A k \in 1..Len(frames) - 1 : frames'[k] = frames[k]
  <2>1. frames' = SubSeq(frames, 1, Len(frames) - 1)
    BY <1>3 DEF PopFrame
  <2>2. \A k \in 1..Len(frames) - 1 : frames[k] \in Frame
    BY <1>1
  <2>3. frames' = [k \in 1..Len(frames) - 1 |-> frames[k]]
    BY <1>1, <2>1
  <2> HIDE DEF Frame
  <2>4. QED
    BY <1>1, <2>2, <2>3
<1>4. QED
    BY <1>1, <1>2, <1>3 DEF Frame
-----------------------------------------------------------------------------
(* Type correctness *)

\* The scheduler starts well typed.
LEMMA TypeInit == Init => TypeOK
<1> SUFFICES ASSUME Init PROVE TypeOK
    OBVIOUS
<1>1. status \in [Ids -> Terminal \cup Live \cup {"NONE"}]
    BY DEF Init
<1>2. frames \in Seq(Frame)
    BY DEF Init
<1>3. QED
    BY <1>1, <1>2 DEF Init, TypeOK

\* Every step keeps the scheduler well typed, and in the heaps only READY tasks.
LEMMA TypeStep == TypeOK /\ [Next]_vars => TypeOK'
<1> SUFFICES ASSUME TypeOK, [Next]_vars PROVE TypeOK'
    OBVIOUS
<1>t. /\ status \in [Ids -> Terminal \cup Live \cup {"NONE"}]
      /\ deps \in [Ids -> SUBSET Ids] /\ dependents \in [Ids -> SUBSET Ids]
      /\ unmet \in [Ids -> Nat]
      /\ queued \subseteq Ids /\ \A i \in queued : status[i] = "READY"
      /\ frames \in Seq(Frame)
      /\ inFlight \in [Ids -> Nat] /\ interrupted \in SUBSET Ids
    BY DEF TypeOK
<1>w. Waiting = {"PENDING", "READY"} /\ Live = {"PENDING", "READY", "RUNNING"}
      /\ Terminal = {"COMPLETED", "FAILED"}
    BY DEF Waiting, Live, Terminal
<1>1. ASSUME NEW id \in Ids, NEW D \in SUBSET Ids, AddTask(id, D)
      PROVE  TypeOK'
  <2> DEFINE n       == CountUnmet(status, D)
             created == [status EXCEPT ![id] = StatusFor(n)]
             inbound == Inbound(created, id)
             recount == [i \in Ids |-> IF i \in inbound THEN CountUnmet(created, deps[i])
                                       ELSE IF i = id THEN n ELSE unmet[i]]
  <2>1. /\ deps' = [deps EXCEPT ![id] = D]
        /\ dependents' = Register(dependents, id, D)
        /\ unmet' = recount
        /\ status' = [i \in Ids |-> IF i \in inbound THEN StatusFor(recount[i]) ELSE created[i]]
        /\ queued' = (queued \ {c \in inbound : recount[c] > 0})
                     \cup {i \in inbound \cup {id} : recount[i] = 0 /\ status[i] # "READY"}
        /\ UNCHANGED <<frames, inFlight, interrupted>>
        /\ status[id] = "NONE"
    BY <1>1 DEF AddTask
  <2>2. n \in Nat /\ \A i \in Ids : CountUnmet(created, deps[i]) \in Nat
    BY <1>t, CountType
  <2>3. recount \in [Ids -> Nat]
    BY <1>t, <2>2
  <2>4. inbound \subseteq Ids
    BY <1>t DEF Inbound
  <2>5. created[id] = StatusFor(n) /\ \A i \in Ids \ {id} : created[i] = status[i]
    BY <1>t
  <2>5a. \A i \in Ids \ inbound : i = id => recount[i] = n
    OBVIOUS
  <2> HIDE DEF n, created, inbound, recount
  <2>6. \A i \in Ids : status'[i] \in Terminal \cup Live \cup {"NONE"}
    BY <1>t, <1>w, <2>1, <2>5, StatusForType
  <2>7. status' \in [Ids -> Terminal \cup Live \cup {"NONE"}]
    BY <2>1, <2>6
  <2>8. ASSUME NEW i \in queued' PROVE i \in Ids /\ status'[i] = "READY"
    <3>1. i \in Ids
      BY <1>t, <2>1, <2>4
    <3>2. CASE i \in inbound
      <4>1. recount[i] = 0
        BY <2>1, <2>3, <2>8, <3>1, <3>2
      <4>2. QED
        BY <2>1, <3>1, <3>2, <4>1, StatusForType
    <3>3. CASE i \notin inbound /\ i = id
      <4>1. recount[i] = 0 /\ recount[i] = n
        BY <1>t, <2>1, <2>5a, <2>8, <3>1, <3>3
      <4>2. QED
        BY <2>1, <2>5, <3>1, <3>3, <4>1, StatusForType
    <3>4. CASE i \notin inbound /\ i # id
      <4>1. i \in queued
        BY <2>1, <2>8, <3>4
      <4>2. QED
        BY <1>t, <2>1, <2>5, <3>1, <3>4, <4>1
    <3>5. QED
      BY <3>2, <3>3, <3>4
  <2>9. dependents' \in [Ids -> SUBSET Ids]
    BY <1>t, <2>1 DEF Register
  <2>10. QED
    BY <1>t, <2>1, <2>3, <2>7, <2>8, <2>9 DEF TypeOK
<1>2. ASSUME NEW new \in SUBSET (Ids \ Existing), NEW D \in [new -> SUBSET Ids], AddTasks(new, D)
      PROVE  TypeOK'
  <2> DEFINE count == [i \in Ids |-> IF i \in new THEN CountUnmet(status, D[i]) ELSE unmet[i]]
  <2>1. /\ deps' = [i \in Ids |-> IF i \in new THEN D[i] ELSE deps[i]]
        /\ dependents' = RegisterAll(new, D)
        /\ unmet' = count
        /\ status' = [i \in Ids |-> IF i \in new THEN StatusFor(count[i]) ELSE status[i]]
        /\ queued' = {i \in new : count[i] = 0}
        /\ UNCHANGED <<frames, inFlight, interrupted>>
    BY <1>2 DEF AddTasks
  <2>2. count \in [Ids -> Nat]
    BY <1>t, CountType
  <2> HIDE DEF count
  <2>3. status' \in [Ids -> Terminal \cup Live \cup {"NONE"}]
    BY <1>t, <1>w, <2>1, StatusForType
  <2>4. \A i \in queued' : i \in Ids /\ status'[i] = "READY"
    BY <2>1, StatusForType
  <2>5. deps' \in [Ids -> SUBSET Ids]
    BY <1>t, <2>1
  <2>6. dependents' \in [Ids -> SUBSET Ids]
    BY <1>t, <2>1 DEF RegisterAll
  <2>7. QED
    BY <1>t, <2>1, <2>2, <2>3, <2>4, <2>5, <2>6 DEF TypeOK
<1>3. ASSUME NEW new \in SUBSET (Ids \ Existing), NEW rest, NEW D \in [new -> SUBSET Ids],
             AddTasksRejected(new, rest, D)
      PROVE  TypeOK'
  <2>1. /\ deps' = [i \in Ids |-> IF i \in new THEN D[i] ELSE deps[i]]
        /\ unmet' = [i \in Ids |-> IF i \in new THEN 0 ELSE unmet[i]]
        /\ status' = [i \in Ids |-> IF i \in new THEN "PENDING" ELSE status[i]]
        /\ UNCHANGED <<dependents, queued, frames, inFlight, interrupted>>
    BY <1>3 DEF AddTasksRejected
  <2>2. \A i \in queued : status'[i] = "READY"
    BY <1>t, <2>1 DEF Existing
  <2>3. QED
    BY <1>t, <1>w, <2>1, <2>2 DEF TypeOK
<1>4. ASSUME NEW id \in Ids, NEW D \in SUBSET Ids, UpdateDeps(id, D)
      PROVE  TypeOK'
  <2>1. /\ deps' = [deps EXCEPT ![id] = D]
        /\ dependents' = Register(Unregister(dependents, id, deps[id]), id, D)
        /\ unmet' = [unmet EXCEPT ![id] = CountUnmet(status, D)]
        /\ status' = [status EXCEPT ![id] = StatusFor(unmet'[id])]
        /\ queued' = IF unmet'[id] = 0 THEN queued \cup {id} ELSE Dequeue(id)
        /\ UNCHANGED <<frames, inFlight, interrupted>>
    BY <1>4 DEF UpdateDeps
  <2>2. CountUnmet(status, D) \in Nat
    BY CountType
  <2>3. \A i \in queued' : i \in Ids /\ status'[i] = "READY"
    BY <1>t, <2>1, StatusForType DEF Dequeue
  <2>4. status' \in [Ids -> Terminal \cup Live \cup {"NONE"}]
    BY <1>t, <1>w, <2>1, StatusForType
  <2>5. dependents' \in [Ids -> SUBSET Ids]
    BY <1>t, <2>1 DEF Register, Unregister
  <2>6. QED
    BY <1>t, <2>1, <2>2, <2>3, <2>4, <2>5 DEF TypeOK
<1>5. ASSUME NEW id \in Ids, UpdateFields(id)
      PROVE  TypeOK'
  BY <1>t, <1>5 DEF TypeOK, UpdateFields, Dequeue
<1>6. ASSUME NEW id \in Ids, DeleteTask(id)
      PROVE  TypeOK'
  BY <1>t, <1>6 DEF TypeOK, DeleteTask, Dequeue, Unregister
<1>7. ASSUME NEW id \in Ids, NEW how \in Terminal, Settle(id, how)
      PROVE  /\ status' \in [Ids -> Terminal \cup Live \cup {"NONE"}]
             /\ queued' \subseteq Ids /\ \A i \in queued' : status'[i] = "READY"
  BY <1>t, <1>7 DEF Settle, Dequeue
<1>8. ASSUME NEW id \in Ids, NEW executed \in BOOLEAN, BeginCompletion(id, executed),
             inFlight' \in [Ids -> Nat]
      PROVE  TypeOK'
  <2>1. /\ Settle(id, "COMPLETED")
        /\ frames' = Append(frames, [id |-> id, executed |-> executed])
        /\ UNCHANGED <<deps, dependents, unmet, interrupted>>
    BY <1>8 DEF BeginCompletion
  <2>2. frames' \in Seq(Frame)
    BY <1>t, <2>1 DEF Frame
  <2>3. QED
    BY <1>t, <1>w, <1>7, <1>8, <2>1, <2>2 DEF TypeOK
<1>9. ASSUME NEW id \in Ids, CompleteTask(id)
      PROVE  TypeOK'
  BY <1>t, <1>8, <1>9 DEF CompleteTask
<1>10. ASSUME NEW id \in Ids, FailTask(id)
       PROVE  TypeOK'
  BY <1>t, <1>w, <1>7, <1>10 DEF FailTask, TypeOK
<1>11. ASSUME NEW id \in Ids, ExecutorResolves(id)
       PROVE  TypeOK'
  <2>1. inFlight' \in [Ids -> Nat]
    BY <1>t, <1>11 DEF ExecutorResolves
  <2>2. CASE status[id] \in Live
    BY <1>8, <1>11, <2>1, <2>2 DEF ExecutorResolves
  <2>3. CASE status[id] \notin Live
    BY <1>t, <1>11, <2>1, <2>3 DEF ExecutorResolves, TypeOK
  <2>4. QED
    BY <2>2, <2>3
<1>12. ASSUME NEW id \in Ids, ExecutorRejects(id)
       PROVE  TypeOK'
  <2>1. inFlight' \in [Ids -> Nat]
    BY <1>t, <1>12 DEF ExecutorRejects
  <2>2. /\ status' \in [Ids -> Terminal \cup Live \cup {"NONE"}]
        /\ queued' \subseteq Ids /\ \A i \in queued' : status'[i] = "READY"
    BY <1>t, <1>w, <1>7, <1>12 DEF ExecutorRejects
  <2>3. QED
    BY <1>t, <1>12, <2>1, <2>2 DEF ExecutorRejects, TypeOK
<1>13. ASSUME NEW met \in SUBSET queued, Reblocked(met)
       PROVE  unmet' \in [Ids -> Nat]
  BY <1>t, <1>13, CountType DEF Reblocked
<1>14. ASSUME NEW id \in queued, NEW met \in SUBSET queued, NEW executed \in BOOLEAN,
              ClaimNext(id, met, executed)
       PROVE  TypeOK'
  <2>1. unmet' \in [Ids -> Nat] /\ inFlight' \in [Ids -> Nat]
    BY <1>t, <1>13, <1>14 DEF ClaimNext
  <2>2. /\ status' = [i \in Ids |-> IF i = id THEN "RUNNING"
                                    ELSE IF i \in met THEN "PENDING" ELSE status[i]]
        /\ queued' = queued \ ({id} \cup met)
        /\ UNCHANGED <<deps, dependents, frames, interrupted>>
    BY <1>14 DEF ClaimNext
  <2>3. QED
    BY <1>t, <1>w, <2>1, <2>2 DEF TypeOK
<1>15. ASSUME NEW met \in SUBSET queued, LookForNext(met)
       PROVE  TypeOK'
  <2>1. unmet' \in [Ids -> Nat]
    BY <1>13, <1>15 DEF LookForNext
  <2>2. /\ status' = [i \in Ids |-> IF i \in met THEN "PENDING" ELSE status[i]]
        /\ queued' = queued \ met
        /\ UNCHANGED <<deps, dependents, frames, inFlight, interrupted>>
    BY <1>15 DEF LookForNext
  <2>3. QED
    BY <1>t, <1>w, <2>1, <2>2 DEF TypeOK
<1>16. CASE HookReturns
  <2> DEFINE children == {c \in dependents[Top.id] : status[c] = "PENDING"}
             promoted == Promoted(children)
  <2>1. /\ frames # <<>> /\ PopFrame
        /\ unmet' = [i \in Ids |-> IF i \in children THEN Decremented(i) ELSE unmet[i]]
        /\ status' = [i \in Ids |-> IF i \in promoted THEN "READY" ELSE status[i]]
        /\ queued' = queued \cup promoted
        /\ UNCHANGED <<deps, dependents, inFlight, interrupted>>
    BY <1>16 DEF HookReturns, Promoted
  <2>2. frames' \in Seq(Frame) /\ Top.id \in Ids
    BY <1>t, <2>1, FramesType
  <2>3. promoted \subseteq Ids /\ \A i \in Ids : Decremented(i) \in Nat
    BY <1>t, <2>2 DEF Decremented, Promoted
  <2> HIDE DEF children, promoted
  <2>4. QED
    BY <1>t, <1>w, <2>1, <2>2, <2>3 DEF TypeOK
<1>17. CASE HookThrows
  <2>1. /\ frames # <<>> /\ PopFrame
        /\ interrupted' = IF status[Top.id] = "COMPLETED" THEN interrupted \cup {Top.id}
                          ELSE interrupted
        /\ IF Top.executed /\ status[Top.id] \in Live THEN Settle(Top.id, "FAILED")
           ELSE UNCHANGED <<status, queued>>
        /\ UNCHANGED <<deps, dependents, unmet, inFlight>>
    BY <1>17 DEF HookThrows
  <2>2. frames' \in Seq(Frame) /\ Top.id \in Ids
    BY <1>t, <2>1, FramesType
  <2>3. /\ status' \in [Ids -> Terminal \cup Live \cup {"NONE"}]
        /\ queued' \subseteq Ids /\ \A i \in queued' : status'[i] = "READY"
    BY <1>t, <1>w, <1>7, <2>1, <2>2
  <2>4. interrupted' \subseteq Ids
    BY <1>t, <2>1, <2>2
  <2>5. QED
    BY <1>t, <2>1, <2>2, <2>3, <2>4 DEF TypeOK
<1>18. CASE Clear
  BY <1>t, <1>18 DEF Clear, TypeOK
<1>19. CASE UNCHANGED vars
  BY <1>t, <1>19 DEF vars, TypeOK
<1>20. CASE BatchStep
  BY <1>2, <1>3, <1>20, BatchCases
<1>21. QED
  BY <1>1, <1>4, <1>5, <1>6, <1>9, <1>10, <1>11, <1>12, <1>14, <1>15, <1>16, <1>17, <1>18,
     <1>19, <1>20 DEF Next

\* Statuses, edges, counts, entries and frames are always of their types, and each
\* entry in a heap is that of a READY task (BinaryHeap throws on a second entry).
THEOREM TypeCorrect == Spec => []TypeOK
<1>1. QED
    BY TypeInit, TypeStep, PTL DEF Spec
-----------------------------------------------------------------------------
(* What a step does to a status *)

\* A task that becomes RUNNING has no dependency that is not COMPLETED; a terminal
\* status is left by deletion alone, and RUNNING only for the end of the task.
LawfulChange(i) ==
    /\ status[i] \in Terminal => status'[i] \in {status[i], "NONE"}
    /\ status[i] = "RUNNING" => status'[i] \in Terminal \cup {"RUNNING", "NONE"}

\* A task that waits before the step and after it has changed lawfully, as has one
\* that was missing and waits, and one whose status is the same or leaves the map.
LEMMA LawfulKinds ==
    ASSUME NEW i \in Ids,
           \/ status[i] \in Waiting \cup {"NONE"} /\ status'[i] \in Waiting \cup {"NONE"}
           \/ status[i] \in Live /\ status'[i] \in Terminal
           \/ status'[i] \in {status[i], "NONE"}
    PROVE  LawfulChange(i)
  BY DEF LawfulChange, Waiting, Live, Terminal

\* Every step changes every status lawfully.
LEMMA StatusStep ==
    ASSUME TypeOK, [Next]_vars
    PROVE  \A i \in Ids : LawfulChange(i)
<1> SUFFICES ASSUME NEW i \in Ids PROVE LawfulChange(i)
    OBVIOUS
<1>t. /\ status \in [Ids -> Terminal \cup Live \cup {"NONE"}]
      /\ deps \in [Ids -> SUBSET Ids] /\ dependents \in [Ids -> SUBSET Ids]
      /\ queued \subseteq Ids /\ \A q \in queued : status[q] = "READY"
      /\ frames \in Seq(Frame)
    BY DEF TypeOK
<1>w. "READY" \in Waiting /\ "PENDING" \in Waiting /\ Waiting \subseteq Live
      /\ "COMPLETED" \in Terminal /\ "FAILED" \in Terminal
    BY DEF Waiting, Live, Terminal
<1>1. ASSUME NEW id \in Ids, NEW D \in SUBSET Ids, AddTask(id, D)
      PROVE  LawfulChange(i)
  <2> DEFINE n       == CountUnmet(status, D)
             created == [status EXCEPT ![id] = StatusFor(n)]
             inbound == Inbound(created, id)
             recount == [c \in Ids |-> IF c \in inbound THEN CountUnmet(created, deps[c])
                                       ELSE IF c = id THEN n ELSE unmet[c]]
  <2>1. /\ status' = [c \in Ids |-> IF c \in inbound THEN StatusFor(recount[c]) ELSE created[c]]
        /\ status[id] = "NONE"
    BY <1>1 DEF AddTask
  <2>2. i \in inbound => created[i] \in Waiting
    BY DEF Inbound
  <2>3. IF i = id THEN created[i] \in Waiting ELSE created[i] = status[i]
    BY <1>t, StatusForType
  <2> HIDE DEF n, created, inbound, recount
  <2>4. IF i \in inbound THEN status'[i] \in Waiting ELSE status'[i] = created[i]
    BY <2>1, StatusForType
  <2>5. CASE i = id
    <3>1. status[i] = "NONE" /\ status'[i] \in Waiting
      BY <2>1, <2>3, <2>4, <2>5
    <3>2. QED
      BY <3>1, LawfulKinds
  <2>6. CASE i # id
    <3>1. status'[i] = status[i] \/ (status[i] \in Waiting /\ status'[i] \in Waiting)
      BY <2>2, <2>3, <2>4, <2>6
    <3>2. QED
      BY <3>1, LawfulKinds
  <2>7. QED
    BY <2>5, <2>6
<1>2. ASSUME NEW new \in SUBSET (Ids \ Existing), NEW D, NEW rest,
             AddTasks(new, D) \/ AddTasksRejected(new, rest, D)
      PROVE  LawfulChange(i)
  <2>1. i \in new => status[i] = "NONE"
    BY DEF Existing
  <2>2. IF i \in new THEN status'[i] \in Waiting ELSE status'[i] = status[i]
    BY <1>2, <1>w, StatusForType DEF AddTasks, AddTasksRejected
  <2>3. QED
    BY <2>1, <2>2, LawfulKinds
<1>3. ASSUME NEW id \in Ids, NEW D \in SUBSET Ids, UpdateDeps(id, D)
      PROVE  LawfulChange(i)
  <2>1. /\ status[id] \in Waiting
        /\ status' = [status EXCEPT ![id] = StatusFor(unmet'[id])]
    BY <1>3 DEF UpdateDeps
  <2>2. IF i = id THEN status'[i] \in Waiting ELSE status'[i] = status[i]
    BY <1>t, <2>1, StatusForType
  <2>3. QED
    BY <2>1, <2>2, LawfulKinds
<1>4. ASSUME NEW id \in Ids, DeleteTask(id) \/ UpdateFields(id)
      PROVE  LawfulChange(i)
  <2>1. status'[i] \in {status[i], "NONE"}
    BY <1>t, <1>4 DEF DeleteTask, UpdateFields
  <2>2. QED
    BY <2>1, LawfulKinds
<1>5. ASSUME NEW id \in Ids, NEW how \in Terminal, Settle(id, how)
      PROVE  LawfulChange(i)
  <2>1. IF i = id THEN status[i] \in Live /\ status'[i] = how ELSE status'[i] = status[i]
    BY <1>t, <1>5 DEF Settle
  <2>2. QED
    BY <2>1, LawfulKinds
<1>6. ASSUME NEW id \in Ids,
             \/ CompleteTask(id) \/ FailTask(id) \/ ExecutorResolves(id) \/ ExecutorRejects(id)
      PROVE  LawfulChange(i)
  <2>1. (\E how \in Terminal : Settle(id, how)) \/ status' = status
    BY <1>6, <1>w DEF CompleteTask, FailTask, ExecutorResolves, ExecutorRejects, BeginCompletion
  <2>2. QED
    BY <1>5, <2>1, LawfulKinds
<1>7. ASSUME NEW met \in SUBSET queued,
             NEW st, st = [c \in Ids |-> IF c \in met THEN "PENDING" ELSE status[c]]
      PROVE  st[i] = status[i] \/ (status[i] \in Waiting /\ st[i] \in Waiting)
  BY <1>t, <1>w, <1>7
<1>8. ASSUME NEW id \in queued, NEW met \in SUBSET queued, NEW executed \in BOOLEAN,
             ClaimNext(id, met, executed)
      PROVE  LawfulChange(i)
  <2>1. status' = [c \in Ids |-> IF c = id THEN "RUNNING"
                                 ELSE IF c \in met THEN "PENDING" ELSE status[c]]
    BY <1>8 DEF ClaimNext
  <2>2. CASE i = id
    <3>1. status[i] = "READY"
      BY <1>t, <2>2
    <3>2. QED
      BY <3>1 DEF LawfulChange, Terminal
  <2>3. CASE i # id
    <3>1. status'[i] = status[i] \/ (status[i] \in Waiting /\ status'[i] \in Waiting)
      BY <1>t, <1>w, <2>1, <2>3
    <3>2. QED
      BY <3>1, LawfulKinds
  <2>4. QED
    BY <2>2, <2>3
<1>9. ASSUME NEW met \in SUBSET queued, LookForNext(met)
      PROVE  LawfulChange(i)
  BY <1>7, <1>9, LawfulKinds DEF LookForNext
<1>10. CASE HookReturns
  <2>1. status' = [c \in Ids |-> IF /\ c \in dependents[Top.id] /\ status[c] = "PENDING"
                                    /\ Decremented(c) = 0
                                 THEN "READY" ELSE status[c]]
    BY <1>10 DEF HookReturns, Promoted
  <2>2. status'[i] = status[i] \/ (status[i] \in Waiting /\ status'[i] \in Waiting)
    BY <1>w, <2>1
  <2>3. QED
    BY <2>2, LawfulKinds
<1>11. CASE HookThrows
  <2>1. Top.id \in Ids
    BY <1>t, <1>11, FramesType DEF HookThrows
  <2>2. Settle(Top.id, "FAILED") \/ status' = status
    BY <1>11 DEF HookThrows
  <2>3. QED
    BY <1>5, <1>w, <2>1, <2>2, LawfulKinds
<1>12. CASE Clear
  <2>1. status'[i] = "NONE"
    BY <1>12 DEF Clear
  <2>2. QED
    BY <2>1, LawfulKinds
<1>13. CASE UNCHANGED vars
  BY <1>13, LawfulKinds DEF vars
<1>14. CASE BatchStep
  BY <1>2, <1>14, BatchCases
<1>15. QED
  BY <1>1, <1>3, <1>4, <1>6, <1>8, <1>9, <1>10, <1>11, <1>12, <1>13, <1>14 DEF Next

\* A terminal status is left by deletion alone, and a RUNNING task goes nowhere but
\* to a terminal status, whatever is deleted and added around it.
THEOREM TableFollowed == Spec => StatusesFollowTable
<1>1. TypeOK /\ [Next]_vars =>
        [\A i \in Ids :
            /\ status[i] \in Terminal => status'[i] \in {status[i], "NONE"}
            /\ status[i] = "RUNNING" => status'[i] \in Terminal \cup {"RUNNING", "NONE"}]_vars
    BY StatusStep DEF LawfulChange
<1>2. QED
    BY <1>1, TypeInit, TypeStep, PTL DEF Spec, StatusesFollowTable
-----------------------------------------------------------------------------
(* The reverse index *)

\* What the index keeps of a task: no edge that the task has not, and either all of
\* its edges or none; none only of tasks that are not READY, not RUNNING, and that
\* no count holds back.
IndexKnows(i) ==
    /\ \A d \in Ids : i \in dependents[d] =>
          status[i] # "NONE" /\ d \in deps[i] /\ \A e \in deps[i] : i \in dependents[e]
    /\ status[i] \in {"READY", "RUNNING"} \/ unmet[i] > 0 =>
          \A d \in deps[i] : i \in dependents[d]

IndexKnown == \A i \in Ids : IndexKnows(i)

\* The property that the runs check follows.
LEMMA KnownIsExact == TypeOK /\ IndexKnown => ReverseIndexExact
  BY DEF TypeOK, IndexKnown, IndexKnows, ReverseIndexExact

\* The index knows a task that it knew before the step, when the step leaves its
\* edges alone, leaves it in the map, and makes it READY or RUNNING or gives it a
\* count only if the index had all of its edges.
LEMMA KnowsStill ==
    ASSUME TypeOK, NEW i \in Ids, IndexKnows(i), deps'[i] = deps[i],
           \A d \in Ids : i \in dependents'[d] <=> i \in dependents[d],
           status[i] # "NONE" => status'[i] # "NONE",
           status'[i] \in {"READY", "RUNNING"} \/ unmet'[i] > 0 =>
              \/ status[i] \in {"READY", "RUNNING"} \/ unmet[i] > 0
              \/ \E d \in Ids : i \in dependents[d]
    PROVE  IndexKnows(i)'
<1>1. deps[i] \subseteq Ids
    BY DEF TypeOK
<1>2. (\E d \in Ids : i \in dependents[d]) => \A e \in deps[i] : i \in dependents[e]
    BY DEF IndexKnows
<1>3. QED
    BY <1>1, <1>2 DEF IndexKnows

\* Every step keeps the index exact.
LEMMA IndexStep ==
    ASSUME TypeOK, TypeOK', IndexKnown, [Next]_vars
    PROVE  IndexKnown'
<1> SUFFICES ASSUME NEW i \in Ids PROVE IndexKnows(i)'
    BY DEF IndexKnown
<1>t. /\ status \in [Ids -> Terminal \cup Live \cup {"NONE"}]
      /\ deps \in [Ids -> SUBSET Ids] /\ dependents \in [Ids -> SUBSET Ids]
      /\ queued \subseteq Ids /\ \A q \in queued : status[q] = "READY"
      /\ unmet \in [Ids -> Nat] /\ frames \in Seq(Frame)
    BY DEF TypeOK
<1>i. \A c \in Ids : IndexKnows(c)
    BY DEF IndexKnown
<1>w. /\ \A s \in Waiting : s # "NONE"
      /\ \A s \in Terminal : s # "NONE" /\ s # "READY" /\ s # "RUNNING"
    BY DEF Waiting, Terminal
\* a task that exists and has all of its edges in the index is known
<1>k. ASSUME status'[i] # "NONE", \A d \in Ids : i \in dependents'[d] <=> d \in deps'[i]
      PROVE  IndexKnows(i)'
  <2>1. deps'[i] \subseteq Ids
    BY DEF TypeOK
  <2>2. QED
    BY <1>k, <2>1 DEF IndexKnows
<1>1. ASSUME NEW id \in Ids, NEW D \in SUBSET Ids, AddTask(id, D)
      PROVE  IndexKnows(i)'
  <2> DEFINE n       == CountUnmet(status, D)
             created == [status EXCEPT ![id] = StatusFor(n)]
             inbound == Inbound(created, id)
             recount == [c \in Ids |-> IF c \in inbound THEN CountUnmet(created, deps[c])
                                       ELSE IF c = id THEN n ELSE unmet[c]]
  <2>1. /\ status' = [c \in Ids |-> IF c \in inbound THEN StatusFor(recount[c]) ELSE created[c]]
        /\ unmet' = recount
        /\ status[id] = "NONE"
        /\ deps' = [deps EXCEPT ![id] = D] /\ dependents' = Register(dependents, id, D)
    BY <1>1 DEF AddTask
  <2>2. i \in inbound => i \in dependents[id] /\ created[i] \in Waiting
    BY DEF Inbound
  <2>3. IF i = id THEN created[i] \in Waiting ELSE created[i] = status[i]
    BY <1>t, StatusForType
  <2>4. i \notin inbound /\ i # id => recount[i] = unmet[i]
    OBVIOUS
  <2> HIDE DEF n, created, inbound, recount
  <2>5. IF i \in inbound THEN status'[i] \in Waiting ELSE status'[i] = created[i]
    BY <2>1, StatusForType
  <2>6. CASE i = id
    <3>1. status'[i] # "NONE"
      BY <1>w, <2>3, <2>5, <2>6
    <3>2. \A d \in Ids : i \notin dependents[d]
      BY <1>i, <2>1, <2>6 DEF IndexKnows
    <3>3. \A d \in Ids : i \in dependents'[d] <=> d \in deps'[i]
      BY <1>t, <2>1, <2>6, <3>2 DEF Register
    <3>4. QED
      BY <1>k, <3>1, <3>3
  <2>7. CASE i # id
    <3>1. deps'[i] = deps[i] /\ \A d \in Ids : i \in dependents'[d] <=> i \in dependents[d]
      BY <1>t, <2>1, <2>7 DEF Register
    <3>2. CASE i \in inbound
      BY <1>i, <1>w, <2>2, <2>5, <3>1, <3>2, KnowsStill
    <3>3. CASE i \notin inbound
      <4>1. status'[i] = status[i] /\ unmet'[i] = unmet[i]
        BY <2>1, <2>3, <2>4, <2>5, <2>7, <3>3
      <4>2. QED
        BY <1>i, <3>1, <4>1, KnowsStill
    <3>4. QED
      BY <3>2, <3>3
  <2>8. QED
    BY <2>6, <2>7
<1>2. ASSUME NEW new \in SUBSET (Ids \ Existing), NEW D \in [new -> SUBSET Ids], AddTasks(new, D)
      PROVE  IndexKnows(i)'
  <2> DEFINE count == [c \in Ids |-> IF c \in new THEN CountUnmet(status, D[c]) ELSE unmet[c]]
  <2>1. /\ deps' = [c \in Ids |-> IF c \in new THEN D[c] ELSE deps[c]]
        /\ dependents' = RegisterAll(new, D)
        /\ unmet' = count
        /\ status' = [c \in Ids |-> IF c \in new THEN StatusFor(count[c]) ELSE status[c]]
    BY <1>2 DEF AddTasks
  <2>2. CASE i \in new
    <3>1. status[i] = "NONE" /\ status'[i] \in Waiting
      BY <2>1, <2>2, StatusForType DEF Existing
    <3>2. \A d \in Ids : i \notin dependents[d]
      BY <1>i, <3>1 DEF IndexKnows
    <3>3. \A d \in Ids : i \in dependents'[d] <=> d \in deps'[i]
      BY <1>t, <2>1, <2>2, <3>2 DEF RegisterAll
    <3>4. QED
      BY <1>k, <1>w, <3>1, <3>3
  <2>3. CASE i \notin new
    <3>1. status'[i] = status[i] /\ unmet'[i] = unmet[i] /\ deps'[i] = deps[i]
      BY <2>1, <2>3
    <3>2. \A d \in Ids : i \in dependents'[d] <=> i \in dependents[d]
      BY <1>t, <2>1, <2>3 DEF RegisterAll
    <3>3. QED
      BY <1>i, <3>1, <3>2, KnowsStill
  <2>4. QED
    BY <2>2, <2>3
<1>3. ASSUME NEW new \in SUBSET (Ids \ Existing), NEW rest, NEW D \in [new -> SUBSET Ids],
             AddTasksRejected(new, rest, D)
      PROVE  IndexKnows(i)'
  <2>1. /\ deps' = [c \in Ids |-> IF c \in new THEN D[c] ELSE deps[c]]
        /\ unmet' = [c \in Ids |-> IF c \in new THEN 0 ELSE unmet[c]]
        /\ status' = [c \in Ids |-> IF c \in new THEN "PENDING" ELSE status[c]]
        /\ dependents' = dependents
    BY <1>3 DEF AddTasksRejected
  <2>2. CASE i \in new
    <3>1. \A d \in Ids : i \notin dependents[d]
      BY <1>i, <2>2 DEF IndexKnows, Existing
    <3>2. status'[i] = "PENDING" /\ unmet'[i] = 0
      BY <2>1, <2>2
    <3>3. QED
      BY <2>1, <3>1, <3>2 DEF IndexKnows
  <2>3. CASE i \notin new
    BY <1>i, <2>1, <2>3, KnowsStill
  <2>4. QED
    BY <2>2, <2>3
<1>4. ASSUME NEW id \in Ids, NEW D \in SUBSET Ids, UpdateDeps(id, D)
      PROVE  IndexKnows(i)'
  <2>1. /\ deps' = [deps EXCEPT ![id] = D]
        /\ dependents' = Register(Unregister(dependents, id, deps[id]), id, D)
        /\ unmet' = [unmet EXCEPT ![id] = CountUnmet(status, D)]
        /\ status' = [status EXCEPT ![id] = StatusFor(unmet'[id])]
    BY <1>4 DEF UpdateDeps
  <2>2. CASE i = id
    <3>1. status'[i] # "NONE"
      BY <1>t, <1>w, <2>1, <2>2, StatusForType
    <3>2. \A d \in Ids : i \in dependents[d] => d \in deps[i]
      BY <1>i DEF IndexKnows
    <3>3. \A d \in Ids : i \in dependents'[d] <=> d \in deps'[i]
      BY <1>t, <2>1, <2>2, <3>2 DEF Register, Unregister
    <3>4. QED
      BY <1>k, <3>1, <3>3
  <2>3. CASE i # id
    <3>1. status'[i] = status[i] /\ unmet'[i] = unmet[i] /\ deps'[i] = deps[i]
      BY <1>t, <2>1, <2>3
    <3>2. \A d \in Ids : i \in dependents'[d] <=> i \in dependents[d]
      BY <1>t, <2>1, <2>3 DEF Register, Unregister
    <3>3. QED
      BY <1>i, <3>1, <3>2, KnowsStill
  <2>4. QED
    BY <2>2, <2>3
<1>5. ASSUME NEW id \in Ids, DeleteTask(id)
      PROVE  IndexKnows(i)'
  <2>1. /\ status' = [status EXCEPT ![id] = "NONE"]
        /\ deps' = [deps EXCEPT ![id] = {}]
        /\ dependents' = Unregister(dependents, id, deps[id])
        /\ unmet' = [unmet EXCEPT ![id] = 0]
    BY <1>5 DEF DeleteTask
  <2>2. CASE i = id
    <3>1. \A d \in Ids : i \in dependents[d] => d \in deps[i]
      BY <1>i DEF IndexKnows
    <3>2. \A d \in Ids : i \notin dependents'[d]
      BY <1>t, <2>1, <2>2, <3>1 DEF Unregister
    <3>3. deps'[i] = {}
      BY <1>t, <2>1, <2>2
    <3>4. QED
      BY <3>2, <3>3 DEF IndexKnows
  <2>3. CASE i # id
    <3>1. status'[i] = status[i] /\ unmet'[i] = unmet[i] /\ deps'[i] = deps[i]
      BY <1>t, <2>1, <2>3
    <3>2. \A d \in Ids : i \in dependents'[d] <=> i \in dependents[d]
      BY <1>t, <2>1, <2>3 DEF Unregister
    <3>3. QED
      BY <1>i, <3>1, <3>2, KnowsStill
  <2>4. QED
    BY <2>2, <2>3
\* the steps that leave the edges alone
<1>6. ASSUME UNCHANGED <<deps, dependents, unmet>>,
             status'[i] = status[i] \/ status'[i] \in Terminal,
             status[i] # "NONE" \/ status'[i] = "NONE"
      PROVE  IndexKnows(i)'
  <2>1. status[i] # "NONE" => status'[i] # "NONE"
    BY <1>6, <1>w
  <2>2. status'[i] \in {"READY", "RUNNING"} => status[i] \in {"READY", "RUNNING"}
    BY <1>6, <1>w
  <2>3. QED
    BY <1>i, <1>6, <2>1, <2>2, KnowsStill
<1>7. ASSUME NEW id \in Ids, NEW how \in Terminal, Settle(id, how),
             UNCHANGED <<deps, dependents, unmet>>
      PROVE  IndexKnows(i)'
  <2>1. status[id] \in Live /\ status' = [status EXCEPT ![id] = how]
    BY <1>7 DEF Settle
  <2>2. status'[i] = status[i] \/ (i = id /\ status'[i] \in Terminal)
    BY <1>t, <2>1
  <2>3. status[i] # "NONE" \/ status'[i] = "NONE"
    BY <2>1, <2>2 DEF Live, Waiting
  <2>4. QED
    BY <1>6, <1>7, <2>2, <2>3
<1>8. ASSUME UNCHANGED <<deps, dependents, unmet, status>>
      PROVE  IndexKnows(i)'
  BY <1>i, <1>8, KnowsStill
<1>9. ASSUME NEW id \in Ids,
             \/ CompleteTask(id) \/ FailTask(id) \/ ExecutorResolves(id) \/ ExecutorRejects(id)
      PROVE  IndexKnows(i)'
  <2>1. /\ UNCHANGED <<deps, dependents, unmet>>
        /\ (\E how \in Terminal : Settle(id, how)) \/ UNCHANGED status
    BY <1>9
    DEF CompleteTask, FailTask, ExecutorResolves, ExecutorRejects, BeginCompletion, Terminal
  <2>2. QED
    BY <1>7, <1>8, <2>1
<1>10. ASSUME NEW met \in SUBSET queued, Reblocked(met), UNCHANGED <<deps, dependents>>,
              NEW id \in queued,
              status' = [c \in Ids |-> IF c = id THEN "RUNNING"
                                       ELSE IF c \in met THEN "PENDING" ELSE status[c]]
       PROVE  IndexKnows(i)'
  <2>1. unmet' = [c \in Ids |-> IF c \in met THEN CountUnmet(status, deps[c]) ELSE unmet[c]]
    BY <1>10 DEF Reblocked
  <2>2. CASE i \in met \/ i = id
    <3>1. status[i] = "READY" /\ status'[i] # "NONE"
      BY <1>t, <1>10, <2>2
    <3>2. QED
      BY <1>i, <1>10, <3>1, KnowsStill
  <2>3. CASE i \notin met /\ i # id
    BY <1>i, <1>10, <2>1, <2>3, KnowsStill
  <2>4. QED
    BY <2>2, <2>3
<1>11. ASSUME NEW met \in SUBSET queued, LookForNext(met)
       PROVE  IndexKnows(i)'
  <2>1. /\ Reblocked(met) /\ UNCHANGED <<deps, dependents>>
        /\ unmet' = [c \in Ids |-> IF c \in met THEN CountUnmet(status, deps[c]) ELSE unmet[c]]
        /\ status' = [c \in Ids |-> IF c \in met THEN "PENDING" ELSE status[c]]
    BY <1>11 DEF LookForNext, Reblocked
  <2>2. CASE i \in met
    <3>1. status[i] = "READY" /\ status'[i] # "NONE"
      BY <1>t, <2>1, <2>2
    <3>2. QED
      BY <1>i, <2>1, <3>1, KnowsStill
  <2>3. CASE i \notin met
    BY <1>i, <2>1, <2>3, KnowsStill
  <2>4. QED
    BY <2>2, <2>3
<1>12. ASSUME NEW id \in queued, NEW met \in SUBSET queued, NEW executed \in BOOLEAN,
              ClaimNext(id, met, executed)
       PROVE  IndexKnows(i)'
  BY <1>10, <1>12 DEF ClaimNext
<1>13. CASE HookReturns
  <2> DEFINE children == {c \in dependents[Top.id] : status[c] = "PENDING"}
  <2>1. /\ unmet' = [c \in Ids |-> IF c \in children THEN Decremented(c) ELSE unmet[c]]
        /\ status' = [c \in Ids |-> IF c \in children /\ Decremented(c) = 0 THEN "READY"
                                    ELSE status[c]]
        /\ UNCHANGED <<deps, dependents>> /\ Top.id \in Ids
    BY <1>t, <1>13, FramesType DEF HookReturns, Promoted
  <2>2. CASE i \in children
    BY <1>i, <2>1, <2>2, KnowsStill
  <2>3. CASE i \notin children
    BY <1>i, <2>1, <2>3, KnowsStill
  <2>4. QED
    BY <2>2, <2>3
<1>14. CASE HookThrows
  <2>1. Top.id \in Ids /\ UNCHANGED <<deps, dependents, unmet>>
    BY <1>t, <1>14, FramesType DEF HookThrows
  <2>2. Settle(Top.id, "FAILED") \/ UNCHANGED status
    BY <1>14 DEF HookThrows
  <2>3. QED
    BY <1>7, <1>8, <2>1, <2>2 DEF Terminal
<1>15. CASE Clear
  BY <1>15 DEF Clear, IndexKnows
<1>16. CASE UNCHANGED vars
  BY <1>8, <1>16 DEF vars
<1>17. CASE BatchStep
  BY <1>2, <1>3, <1>17, BatchCases
<1>18. ASSUME NEW id \in Ids, UpdateFields(id)
       PROVE  IndexKnows(i)'
  BY <1>8, <1>18 DEF UpdateFields
<1>19. QED
  BY <1>1, <1>4, <1>5, <1>9, <1>11, <1>12, <1>13, <1>14, <1>15, <1>16, <1>17, <1>18 DEF Next

\* The reverse index holds the edges of the tasks that exist and no other; it lacks
\* only those of tasks that a rejected batch left behind.
THEOREM IndexExact == Spec => []ReverseIndexExact
<1>1. Init => IndexKnown
    BY DEF Init, IndexKnown, IndexKnows
<1>2. TypeOK /\ IndexKnown /\ [Next]_vars => TypeOK' /\ IndexKnown'
    BY TypeStep, IndexStep
<1>3. QED
    BY <1>1, <1>2, TypeInit, KnownIsExact, PTL DEF Spec
-----------------------------------------------------------------------------
(* The cached counts *)

\* The dependencies of i that the property counts.
Awaited(d) == status[d] # "COMPLETED" \/ d \in Unannounced

\* A READY task has the count 0, and a waiting one at most what it awaits.
CountFits(i) ==
    /\ status[i] = "READY" => unmet[i] = 0
    /\ status[i] \in Waiting => unmet[i] <= Cardinality({d \in deps[i] : Awaited(d)})

CountsFit == \A i \in Ids : CountFits(i)

\* The property that the runs check follows.
LEMMA FittingIsNotTooHigh == CountsFit => CountNeverTooHigh
  BY DEF CountsFit, CountFits, CountNeverTooHigh, Awaited

\* A count that the step did not raise still fits when everything that the task
\* awaited is awaited still.
LEMMA CountStays ==
    ASSUME TypeOK, TypeOK', NEW i \in Ids, CountFits(i), unmet'[i] = unmet[i],
           status'[i] = status[i] \/ status'[i] \notin Waiting, deps'[i] = deps[i],
           \A d \in deps[i] : Awaited(d) => Awaited(d)'
    PROVE  CountFits(i)'
<1>1. CASE status'[i] \in Waiting
  <2> DEFINE S == {d \in deps[i] : Awaited(d)}
             T == {d \in deps'[i] : Awaited(d)'}
  <2>1. deps[i] \subseteq Ids /\ unmet[i] \in Nat
    BY DEF TypeOK
  <2>2. S \in SUBSET T /\ T \in SUBSET Ids
    BY <2>1
  <2>3. Cardinality(S) <= Cardinality(T) /\ Cardinality(S) \in Nat /\ Cardinality(T) \in Nat
    BY <2>2, SizeOfIds
  <2>4. status'[i] = status[i]
    BY <1>1
  <2>5. unmet[i] <= Cardinality(S) /\ (status[i] = "READY" => unmet[i] = 0)
    BY <1>1, <2>4 DEF CountFits
  <2>6. unmet'[i] <= Cardinality(T)
    BY <2>1, <2>3, <2>5
  <2>7. QED
    BY <2>4, <2>5, <2>6 DEF CountFits
<1>2. CASE status'[i] \notin Waiting
  BY <1>2 DEF CountFits, Waiting
<1>3. QED
  BY <1>1, <1>2

\* A count made anew fits when the statuses it was made from call no more tasks
\* unfinished than the new ones do.
LEMMA CountFresh ==
    ASSUME TypeOK', NEW i \in Ids, NEW st, unmet'[i] = CountUnmet(st, deps'[i]),
           \A d \in deps'[i] : st[d] # "COMPLETED" => status'[d] # "COMPLETED",
           status'[i] = "READY" => unmet'[i] = 0
    PROVE  CountFits(i)'
<1> DEFINE S == {d \in deps'[i] : st[d] # "COMPLETED"}
           T == {d \in deps'[i] : Awaited(d)'}
<1>1. deps'[i] \subseteq Ids
    BY DEF TypeOK
<1>2. S \in SUBSET T /\ T \in SUBSET Ids
    BY <1>1 DEF Awaited
<1>3. Cardinality(S) <= Cardinality(T)
    BY <1>2, SizeOfIds
<1>4. QED
    BY <1>3 DEF CountUnmet, CountFits

\* No number exceeds a size when it is 0.
LEMMA CountZero ==
    ASSUME TypeOK', NEW i \in Ids, unmet'[i] = 0
    PROVE  CountFits(i)'
<1>1. {d \in deps'[i] : Awaited(d)'} \in SUBSET Ids
    BY DEF TypeOK
<1>2. Cardinality({d \in deps'[i] : Awaited(d)'}) \in Nat
    BY <1>1, SizeOfIds
<1>3. QED
    BY <1>2 DEF CountFits

\* What is awaited stays so while no frame is popped and nobody completes.
LEMMA AwaitedStays ==
    ASSUME UNCHANGED frames,
           NEW d, status[d] # "COMPLETED" => status'[d] # "COMPLETED",
           d \in interrupted => d \in interrupted' \/ status'[d] # "COMPLETED"
    PROVE  Awaited(d) => Awaited(d)'
  BY DEF Awaited, Unannounced

\* A completed task is awaited while its hook is running.
LEMMA AwaitedPush ==
    ASSUME TypeOK, TypeOK', NEW id \in Ids, NEW executed \in BOOLEAN, BeginCompletion(id, executed)
    PROVE  \A d \in Ids : Awaited(d) => Awaited(d)'
<1>t. frames \in Seq(Frame) /\ Len(frames) \in Nat /\ status \in [Ids -> Terminal \cup Live \cup {"NONE"}]
    BY DEF TypeOK
<1>1. /\ status' = [status EXCEPT ![id] = "COMPLETED"]
      /\ frames' = Append(frames, [id |-> id, executed |-> executed])
      /\ interrupted' = interrupted
    BY DEF BeginCompletion, Settle
<1>2. /\ Len(frames') = Len(frames) + 1
      /\ \A k \in 1..Len(frames) : frames'[k] = frames[k] /\ k \in 1..Len(frames')
      /\ Len(frames') \in 1..Len(frames') /\ frames'[Len(frames')].id = id
    BY <1>t, <1>1
<1>3. Unannounced \subseteq Unannounced' /\ id \in Unannounced'
    BY <1>1, <1>2 DEF Unannounced
<1>4. \A d \in Ids \ {id} : status'[d] = status[d]
    BY <1>t, <1>1
<1>5. QED
    BY <1>3, <1>4 DEF Awaited

\* When a hook ends, only the task that it announces may be awaited no longer.
LEMMA AwaitedPop ==
    ASSUME TypeOK, frames # <<>>, PopFrame, interrupted \subseteq interrupted',
           NEW d \in Ids, d # Top.id, status[d] # "COMPLETED" => status'[d] # "COMPLETED"
    PROVE  Awaited(d) => Awaited(d)'
<1>1. frames \in Seq(Frame)
    BY DEF TypeOK
<1>2. /\ Len(frames) \in Nat \ {0} /\ Len(frames') = Len(frames) - 1
      /\ \A k \in 1..Len(frames) - 1 : frames'[k] = frames[k]
    BY <1>1, FramesType
<1>3. ASSUME NEW k \in 1..Len(frames), frames[k].id = d
      PROVE  \E m \in 1..Len(frames') : frames'[m].id = d
  <2>1. k # Len(frames)
    BY <1>3 DEF Top
  <2>2. k \in 1..Len(frames')
    BY <1>2, <2>1
  <2>3. QED
    BY <1>2, <1>3, <2>2
<1>4. d \in Unannounced => d \in Unannounced'
    BY <1>3 DEF Unannounced
<1>5. QED
    BY <1>4 DEF Awaited

\* Every step keeps the counts fitting.
LEMMA CountStep ==
    ASSUME TypeOK, TypeOK', IndexKnown, CountsFit, [Next]_vars
    PROVE  CountsFit'
<1> SUFFICES ASSUME NEW i \in Ids PROVE CountFits(i)'
    BY DEF CountsFit
<1>t. /\ status \in [Ids -> Terminal \cup Live \cup {"NONE"}]
      /\ deps \in [Ids -> SUBSET Ids] /\ dependents \in [Ids -> SUBSET Ids]
      /\ queued \subseteq Ids /\ \A q \in queued : status[q] = "READY"
      /\ unmet \in [Ids -> Nat] /\ frames \in Seq(Frame) /\ deps[i] \subseteq Ids
    BY DEF TypeOK
<1>i. CountFits(i)
    BY DEF CountsFit
<1>w. /\ \A s \in Waiting : s # "COMPLETED"
      /\ \A s \in Terminal : s \notin Waiting
      /\ "NONE" \notin Waiting /\ "RUNNING" \notin Waiting
    BY DEF Waiting, Terminal
<1>1. ASSUME NEW id \in Ids, NEW D \in SUBSET Ids, AddTask(id, D)
      PROVE  CountFits(i)'
  <2> DEFINE n       == CountUnmet(status, D)
             created == [status EXCEPT ![id] = StatusFor(n)]
             inbound == Inbound(created, id)
             recount == [c \in Ids |-> IF c \in inbound THEN CountUnmet(created, deps[c])
                                       ELSE IF c = id THEN n ELSE unmet[c]]
  <2>1. /\ status' = [c \in Ids |-> IF c \in inbound THEN StatusFor(recount[c]) ELSE created[c]]
        /\ unmet' = recount
        /\ status[id] = "NONE"
        /\ deps' = [deps EXCEPT ![id] = D]
        /\ UNCHANGED <<frames, interrupted>>
    BY <1>1 DEF AddTask
  <2>2. \A c \in inbound : c \in Ids /\ created[c] \in Waiting
    BY <1>t DEF Inbound
  <2>3. created[id] = StatusFor(n) /\ \A c \in Ids \ {id} : created[c] = status[c]
    BY <1>t
  <2>4. recount[i] = IF i \in inbound THEN CountUnmet(created, deps[i])
                     ELSE IF i = id THEN n ELSE unmet[i]
    OBVIOUS
  <2>5. n = CountUnmet(status, D)
    OBVIOUS
  <2> HIDE DEF n, created, inbound, recount
  <2>6. \A c \in Ids : IF c \in inbound THEN status'[c] \in Waiting ELSE status'[c] = created[c]
    BY <2>1, StatusForType
  <2>7. created[id] \in Waiting
    BY <2>3, StatusForType
  <2>8. \A d \in Ids : /\ created[d] # "COMPLETED" => status'[d] # "COMPLETED"
                       /\ status[d] # "COMPLETED" => created[d] # "COMPLETED"
    BY <1>w, <2>2, <2>3, <2>6, <2>7
  <2>9. CASE i \in inbound
    <3>1. unmet'[i] = recount[i] /\ status'[i] = StatusFor(recount[i])
      BY <2>1, <2>9
    <3>2. i # id
      BY <2>1, <2>9 DEF inbound, Inbound, IndexKnown, IndexKnows
    <3>3. QED
      BY <1>t, <2>1, <2>4, <2>8, <2>9, <3>1, <3>2, CountFresh, StatusForType
  <2>10. CASE i \notin inbound /\ i = id
    <3>1. unmet'[i] = CountUnmet(status, deps'[i]) /\ deps'[i] \subseteq Ids
      BY <1>t, <2>1, <2>4, <2>5, <2>10
    <3>2. status'[i] = StatusFor(unmet'[i])
      BY <2>1, <2>3, <2>4, <2>6, <2>10
    <3>3. QED
      BY <2>8, <3>1, <3>2, CountFresh, StatusForType
  <2>11. CASE i \notin inbound /\ i # id
    <3>1. unmet'[i] = unmet[i] /\ status'[i] = status[i] /\ deps'[i] = deps[i]
      BY <1>t, <2>1, <2>3, <2>4, <2>6, <2>11
    <3>2. \A d \in deps[i] : Awaited(d) => Awaited(d)'
      BY <1>t, <2>1, <2>8, AwaitedStays
    <3>3. QED
      BY <1>i, <3>1, <3>2, CountStays
  <2>12. QED
    BY <2>9, <2>10, <2>11
<1>2. ASSUME NEW new \in SUBSET (Ids \ Existing), NEW D \in [new -> SUBSET Ids], AddTasks(new, D)
      PROVE  CountFits(i)'
  <2> DEFINE count == [c \in Ids |-> IF c \in new THEN CountUnmet(status, D[c]) ELSE unmet[c]]
  <2>1. /\ deps' = [c \in Ids |-> IF c \in new THEN D[c] ELSE deps[c]]
        /\ unmet' = count
        /\ status' = [c \in Ids |-> IF c \in new THEN StatusFor(count[c]) ELSE status[c]]
        /\ UNCHANGED <<frames, interrupted>>
    BY <1>2 DEF AddTasks
  <2>2. \A d \in Ids : status[d] # "COMPLETED" => status'[d] # "COMPLETED"
    BY <1>w, <2>1, StatusForType
  <2>3. CASE i \in new
    <3>1. unmet'[i] = CountUnmet(status, deps'[i]) /\ deps'[i] \subseteq Ids
      BY <2>1, <2>3
    <3>2. status'[i] = StatusFor(unmet'[i])
      BY <2>1, <2>3
    <3>3. QED
      BY <2>2, <3>1, <3>2, CountFresh, StatusForType
  <2>4. CASE i \notin new
    <3>1. unmet'[i] = unmet[i] /\ status'[i] = status[i] /\ deps'[i] = deps[i]
      BY <2>1, <2>4
    <3>2. \A d \in deps[i] : Awaited(d) => Awaited(d)'
      BY <1>t, <2>1, <2>2, AwaitedStays
    <3>3. QED
      BY <1>i, <3>1, <3>2, CountStays
  <2>5. QED
    BY <2>3, <2>4
<1>3. ASSUME NEW new \in SUBSET (Ids \ Existing), NEW rest, NEW D \in [new -> SUBSET Ids],
             AddTasksRejected(new, rest, D)
      PROVE  CountFits(i)'
  <2>1. /\ deps' = [c \in Ids |-> IF c \in new THEN D[c] ELSE deps[c]]
        /\ unmet' = [c \in Ids |-> IF c \in new THEN 0 ELSE unmet[c]]
        /\ status' = [c \in Ids |-> IF c \in new THEN "PENDING" ELSE status[c]]
        /\ UNCHANGED <<frames, interrupted>>
    BY <1>3 DEF AddTasksRejected
  <2>2. CASE i \in new
    BY <2>1, <2>2, CountZero
  <2>3. CASE i \notin new
    <3>1. unmet'[i] = unmet[i] /\ status'[i] = status[i] /\ deps'[i] = deps[i]
      BY <2>1, <2>3
    <3>2. \A d \in deps[i] : Awaited(d) => Awaited(d)'
      BY <1>t, <2>1, AwaitedStays
    <3>3. QED
      BY <1>i, <3>1, <3>2, CountStays
  <2>4. QED
    BY <2>2, <2>3
<1>4. ASSUME NEW id \in Ids, NEW D \in SUBSET Ids, UpdateDeps(id, D)
      PROVE  CountFits(i)'
  <2>1. /\ deps' = [deps EXCEPT ![id] = D] /\ status[id] \in Waiting
        /\ unmet' = [unmet EXCEPT ![id] = CountUnmet(status, D)]
        /\ status' = [status EXCEPT ![id] = StatusFor(unmet'[id])]
        /\ UNCHANGED <<frames, interrupted>>
    BY <1>4 DEF UpdateDeps
  <2>2. \A d \in Ids : status[d] # "COMPLETED" => status'[d] # "COMPLETED"
    BY <1>t, <1>w, <2>1, StatusForType
  <2>3. CASE i = id
    <3>1. unmet'[i] = CountUnmet(status, deps'[i]) /\ deps'[i] \subseteq Ids
          /\ status'[i] = StatusFor(unmet'[i])
      BY <1>t, <2>1, <2>3
    <3>2. QED
      BY <2>2, <3>1, CountFresh, StatusForType
  <2>4. CASE i # id
    <3>1. unmet'[i] = unmet[i] /\ status'[i] = status[i] /\ deps'[i] = deps[i]
      BY <1>t, <2>1, <2>4
    <3>2. \A d \in deps[i] : Awaited(d) => Awaited(d)'
      BY <1>t, <2>1, <2>2, AwaitedStays
    <3>3. QED
      BY <1>i, <3>1, <3>2, CountStays
  <2>5. QED
    BY <2>3, <2>4
<1>5. ASSUME NEW id \in Ids, DeleteTask(id)
      PROVE  CountFits(i)'
  <2>1. /\ status' = [status EXCEPT ![id] = "NONE"]
        /\ deps' = [deps EXCEPT ![id] = {}]
        /\ unmet' = [unmet EXCEPT ![id] = 0]
        /\ interrupted' = interrupted \ {id} /\ UNCHANGED frames
    BY <1>5 DEF DeleteTask
  <2>2. CASE i = id
    BY <1>t, <2>1, <2>2, CountZero
  <2>3. CASE i # id
    <3>1. unmet'[i] = unmet[i] /\ status'[i] = status[i] /\ deps'[i] = deps[i]
      BY <1>t, <2>1, <2>3
    <3>2. \A d \in deps[i] : Awaited(d) => Awaited(d)'
      BY <1>t, <2>1, AwaitedStays
    <3>3. QED
      BY <1>i, <3>1, <3>2, CountStays
  <2>4. QED
    BY <2>2, <2>3
<1>6. ASSUME NEW id \in Ids, NEW executed \in BOOLEAN, BeginCompletion(id, executed)
      PROVE  CountFits(i)'
  <2>1. status' = [status EXCEPT ![id] = "COMPLETED"] /\ UNCHANGED <<deps, unmet>>
    BY <1>6 DEF BeginCompletion, Settle
  <2>2. status'[i] = status[i] \/ status'[i] \notin Waiting
    BY <1>t, <1>w, <2>1
  <2>3. \A d \in deps[i] : Awaited(d) => Awaited(d)'
    BY <1>t, <1>6, AwaitedPush
  <2>4. QED
    BY <1>i, <2>1, <2>2, <2>3, CountStays
\* the steps that leave edges, counts and frames alone, and complete nothing
<1>7. ASSUME UNCHANGED <<deps, unmet, frames, interrupted>>,
             \/ UNCHANGED status
             \/ \E id \in Ids : status' = [status EXCEPT ![id] = "FAILED"]
      PROVE  CountFits(i)'
  <2>1. status'[i] = status[i] \/ status'[i] \notin Waiting
    BY <1>t, <1>7 DEF Waiting
  <2>2. \A d \in Ids : status[d] # "COMPLETED" => status'[d] # "COMPLETED"
    BY <1>t, <1>7
  <2>3. \A d \in deps[i] : Awaited(d) => Awaited(d)'
    BY <1>t, <1>7, <2>2, AwaitedStays
  <2>4. QED
    BY <1>i, <1>7, <2>1, <2>3, CountStays
<1>8. ASSUME NEW id \in Ids, UpdateFields(id) \/ FailTask(id) \/ ExecutorRejects(id)
      PROVE  CountFits(i)'
  BY <1>7, <1>8 DEF UpdateFields, FailTask, ExecutorRejects, Settle
<1>9. ASSUME NEW id \in Ids, CompleteTask(id) \/ ExecutorResolves(id)
      PROVE  CountFits(i)'
  BY <1>6, <1>7, <1>9 DEF CompleteTask, ExecutorResolves
<1>10. ASSUME NEW met \in SUBSET queued, Reblocked(met),
              UNCHANGED <<deps, frames, interrupted>>,
              \A c \in met : status'[c] # "READY",
              \A c \in Ids \ met : status'[c] = status[c] \/ status'[c] = "RUNNING",
              \A c \in met : status'[c] # "COMPLETED"
       PROVE  CountFits(i)'
  <2>1. \A d \in Ids : status[d] # "COMPLETED" => status'[d] # "COMPLETED"
    BY <1>10
  <2>2. unmet' = [c \in Ids |-> IF c \in met THEN CountUnmet(status, deps[c]) ELSE unmet[c]]
    BY <1>10 DEF Reblocked
  <2>3. CASE i \in met
    <3>1. unmet'[i] = CountUnmet(status, deps'[i]) /\ deps'[i] \subseteq Ids
      BY <1>t, <1>10, <2>2, <2>3
    <3>2. QED
      BY <1>10, <2>1, <2>3, <3>1, CountFresh
  <2>4. CASE i \notin met
    <3>1. unmet'[i] = unmet[i] /\ deps'[i] = deps[i]
      BY <1>10, <2>2, <2>4
    <3>2. status'[i] = status[i] \/ status'[i] \notin Waiting
      BY <1>10, <1>w, <2>4
    <3>3. \A d \in deps[i] : Awaited(d) => Awaited(d)'
      BY <1>t, <1>10, <2>1, AwaitedStays
    <3>4. QED
      BY <1>i, <3>1, <3>2, <3>3, CountStays
  <2>5. QED
    BY <2>3, <2>4
<1>11. ASSUME NEW met \in SUBSET queued, LookForNext(met)
       PROVE  CountFits(i)'
  <2>1. /\ Reblocked(met) /\ UNCHANGED <<deps, frames, interrupted>>
        /\ status' = [c \in Ids |-> IF c \in met THEN "PENDING" ELSE status[c]]
    BY <1>11 DEF LookForNext
  <2>2. QED
    BY <1>t, <1>10, <2>1
<1>12. ASSUME NEW id \in queued, NEW met \in SUBSET queued, NEW executed \in BOOLEAN,
              ClaimNext(id, met, executed)
       PROVE  CountFits(i)'
  <2>1. /\ Reblocked(met) /\ UNCHANGED <<deps, frames, interrupted>>
        /\ status' = [c \in Ids |-> IF c = id THEN "RUNNING"
                                    ELSE IF c \in met THEN "PENDING" ELSE status[c]]
    BY <1>12 DEF ClaimNext
  <2>2. QED
    BY <1>t, <1>10, <2>1
<1>13. CASE HookReturns
  <2> DEFINE children == {c \in dependents[Top.id] : status[c] = "PENDING"}
  <2>1. /\ unmet' = [c \in Ids |-> IF c \in children THEN Decremented(c) ELSE unmet[c]]
        /\ status' = [c \in Ids |-> IF c \in children /\ Decremented(c) = 0 THEN "READY"
                                    ELSE status[c]]
        /\ UNCHANGED <<deps, dependents, interrupted>> /\ Top.id \in Ids
        /\ frames # <<>> /\ PopFrame
    BY <1>t, <1>13, FramesType DEF HookReturns, Promoted
  <2>2. \A d \in Ids \ {Top.id} : Awaited(d) => Awaited(d)'
    BY <2>1, AwaitedPop
  <2>3. CASE i \in children
    <3> DEFINE S == {d \in deps[i] : Awaited(d)}
               T == {d \in deps'[i] : Awaited(d)'}
    <3>1. S \in SUBSET Ids /\ T \in SUBSET Ids /\ S \ {Top.id} \in SUBSET T
      BY <1>t, <2>1, <2>2
    <3>2. Cardinality(S \ {Top.id}) <= Cardinality(T) /\ Cardinality(T) \in Nat
          /\ Cardinality(S \ {Top.id}) \in Nat
      BY <3>1, SizeOfIds
    <3>3. IsFiniteSet(S) /\ Cardinality(S) \in Nat
      BY <3>1, SizeOfIds
    <3>4. Cardinality(S \ {Top.id}) >= Cardinality(S) - 1
      BY <3>3, FS_RemoveElement
    <3>5. unmet[i] <= Cardinality(S)
      BY <1>i, <2>3 DEF CountFits, Waiting
    <3>6. unmet'[i] = Decremented(i) /\ (status'[i] = "READY" => Decremented(i) = 0)
      BY <2>1, <2>3
    <3> HIDE DEF S, T
    <3>7. unmet'[i] <= Cardinality(T)
      BY <1>t, <3>2, <3>3, <3>4, <3>5, <3>6 DEF Decremented
    <3>8. QED
      BY <3>6, <3>7 DEF CountFits, T
  <2>4. CASE i \notin children
    <3>1. unmet'[i] = unmet[i] /\ status'[i] = status[i] /\ deps'[i] = deps[i]
      BY <2>1, <2>4
    <3>2. CASE unmet[i] = 0
      BY <3>1, <3>2, CountZero
    <3>3. CASE unmet[i] # 0 /\ status[i] = "PENDING"
      <4>1. unmet[i] > 0
        BY <1>t, <3>3
      <4>2. \A d \in deps[i] : i \in dependents[d]
        BY <4>1 DEF IndexKnown, IndexKnows
      <4>3. Top.id \notin deps[i]
        BY <2>4, <3>3, <4>2
      <4>4. \A d \in deps[i] : Awaited(d) => Awaited(d)'
        BY <1>t, <2>2, <4>3
      <4>5. QED
        BY <1>i, <3>1, <4>4, CountStays
    <3>4. CASE unmet[i] # 0 /\ status[i] # "PENDING"
      <4>1. status'[i] \notin Waiting
        BY <1>i, <3>1, <3>4 DEF CountFits, Waiting
      <4>2. QED
        BY <4>1 DEF CountFits, Waiting
    <3>5. QED
      BY <3>2, <3>3, <3>4
  <2>5. QED
    BY <2>3, <2>4
<1>14. CASE HookThrows
  <2>1. /\ frames # <<>> /\ PopFrame /\ Top.id \in Ids
        /\ interrupted' = IF status[Top.id] = "COMPLETED" THEN interrupted \cup {Top.id}
                          ELSE interrupted
        /\ \/ status' = [status EXCEPT ![Top.id] = "FAILED"] /\ status[Top.id] \in Live
           \/ UNCHANGED status
        /\ UNCHANGED <<deps, unmet>>
    BY <1>t, <1>14, FramesType DEF HookThrows, Settle
  <2>2. \A d \in Ids : status[d] # "COMPLETED" => status'[d] # "COMPLETED"
    BY <1>t, <2>1
  <2>3. \A d \in Ids \ {Top.id} : Awaited(d) => Awaited(d)'
    BY <2>1, <2>2, AwaitedPop
  <2>4. ASSUME NEW d \in Ids, d = Top.id PROVE Awaited(d)'
    BY <2>1, <2>2, <2>4 DEF Awaited, Unannounced
  <2>5. status'[i] = status[i] \/ status'[i] \notin Waiting
    BY <1>t, <2>1 DEF Waiting
  <2>6. \A d \in deps[i] : Awaited(d) => Awaited(d)'
    BY <1>t, <2>3, <2>4
  <2>7. QED
    BY <1>i, <2>1, <2>5, <2>6, CountStays
<1>15. CASE Clear
  BY <1>15, CountZero DEF Clear
<1>16. CASE UNCHANGED vars
  BY <1>7, <1>16 DEF vars
<1>17. CASE BatchStep
  BY <1>2, <1>3, <1>17, BatchCases
<1>18. QED
  BY <1>1, <1>4, <1>5, <1>8, <1>9, <1>11, <1>12, <1>13, <1>14, <1>15, <1>16, <1>17 DEF Next

\* The cached count never exceeds the dependencies that are missing or yet to be
\* announced, whatever is deleted, added again or updated while hooks are running.
THEOREM CountsNeverTooHigh == Spec => []CountNeverTooHigh
<1>1. Init => IndexKnown /\ CountsFit
  <2>1. ASSUME Init, NEW i \in Ids PROVE CountFits(i)
    BY <2>1 DEF Init, CountFits, Waiting
  <2>2. QED
    BY <2>1 DEF Init, IndexKnown, IndexKnows, CountsFit
<1>2. TypeOK /\ IndexKnown /\ CountsFit /\ [Next]_vars => TypeOK' /\ IndexKnown' /\ CountsFit'
    BY TypeStep, IndexStep, CountStep
<1>3. QED
    BY <1>1, <1>2, TypeInit, FittingIsNotTooHigh, PTL DEF Spec
-----------------------------------------------------------------------------
(* Lost wakeups *)

\* A task waits for nothing after the step only if it waited for nothing before, or
\* is a record that a rejected batch left behind.
StaysAwaiting(i) ==
    status'[i] = "PENDING" /\ unmet'[i] = 0 =>
        \/ status[i] = "PENDING" /\ unmet[i] = 0
        \/ status[i] = "NONE" /\ RejectedBatch

\* A blocked task has something unmet.
LEMMA BlockedCounts ==
    ASSUME TypeOK, NEW i \in Ids, Blocked(i)
    PROVE  CountUnmet(status, deps[i]) # 0
<1> DEFINE S == {d \in deps[i] : status[d] # "COMPLETED"}
<1>1. S \in SUBSET Ids
    BY DEF TypeOK
<1>2. IsFiniteSet(S)
    BY <1>1, SizeOfIds
<1>3. S # {}
    BY DEF Blocked, Satisfied
<1>4. QED
    BY <1>2, <1>3, FS_EmptySet DEF CountUnmet

\* No step takes from a task the last thing that it waits for and leaves it PENDING.
LEMMA AwaitingStep ==
    ASSUME TypeOK, TypeOK', [Next]_vars
    PROVE  \A i \in Ids : StaysAwaiting(i)
<1> SUFFICES ASSUME NEW i \in Ids, status'[i] = "PENDING", unmet'[i] = 0
             PROVE  \/ status[i] = "PENDING" /\ unmet[i] = 0
                    \/ status[i] = "NONE" /\ RejectedBatch
    BY DEF StaysAwaiting
<1>t. /\ status \in [Ids -> Terminal \cup Live \cup {"NONE"}]
      /\ unmet \in [Ids -> Nat] /\ frames \in Seq(Frame) /\ queued \subseteq Ids
    BY DEF TypeOK
<1>1. ASSUME NEW id \in Ids, NEW D \in SUBSET Ids, AddTask(id, D)
      PROVE  status[i] = "PENDING" /\ unmet[i] = 0
  <2> DEFINE n       == CountUnmet(status, D)
             created == [status EXCEPT ![id] = StatusFor(n)]
             inbound == Inbound(created, id)
             recount == [c \in Ids |-> IF c \in inbound THEN CountUnmet(created, deps[c])
                                       ELSE IF c = id THEN n ELSE unmet[c]]
  <2>1. /\ status' = [c \in Ids |-> IF c \in inbound THEN StatusFor(recount[c]) ELSE created[c]]
        /\ unmet' = recount
    BY <1>1 DEF AddTask
  <2>2. created[id] = StatusFor(n) /\ \A c \in Ids \ {id} : created[c] = status[c]
    BY <1>t
  <2>3. recount[i] = IF i \in inbound THEN CountUnmet(created, deps[i])
                     ELSE IF i = id THEN n ELSE unmet[i]
    OBVIOUS
  <2> HIDE DEF n, created, inbound, recount
  <2>4. i \notin inbound
    BY <2>1, StatusForType
  <2>5. i # id
    BY <2>1, <2>2, <2>3, <2>4, StatusForType
  <2>6. QED
    BY <2>1, <2>2, <2>3, <2>4, <2>5
<1>2. ASSUME NEW new \in SUBSET (Ids \ Existing), NEW D \in [new -> SUBSET Ids], AddTasks(new, D)
      PROVE  status[i] = "PENDING" /\ unmet[i] = 0
  <2> DEFINE count == [c \in Ids |-> IF c \in new THEN CountUnmet(status, D[c]) ELSE unmet[c]]
  <2>1. /\ unmet' = count
        /\ status' = [c \in Ids |-> IF c \in new THEN StatusFor(count[c]) ELSE status[c]]
    BY <1>2 DEF AddTasks
  <2>2. count[i] = IF i \in new THEN CountUnmet(status, D[i]) ELSE unmet[i]
    OBVIOUS
  <2> HIDE DEF count
  <2>3. i \notin new
    BY <2>1, StatusForType
  <2>4. QED
    BY <2>1, <2>2, <2>3
<1>3. ASSUME NEW new \in SUBSET (Ids \ Existing), NEW rest, NEW D \in [new -> SUBSET Ids],
             AddTasksRejected(new, rest, D)
      PROVE  status[i] = "NONE" \/ (status[i] = "PENDING" /\ unmet[i] = 0)
  <2>1. /\ unmet' = [c \in Ids |-> IF c \in new THEN 0 ELSE unmet[c]]
        /\ status' = [c \in Ids |-> IF c \in new THEN "PENDING" ELSE status[c]]
    BY <1>3 DEF AddTasksRejected
  <2>2. QED
    BY <2>1 DEF Existing
<1>4. CASE BatchStep
  BY <1>2, <1>3, <1>4, BatchCases
<1>5. ASSUME NEW id \in Ids, NEW D \in SUBSET Ids, UpdateDeps(id, D)
      PROVE  status[i] = "PENDING" /\ unmet[i] = 0
  <2>1. /\ status' = [status EXCEPT ![id] = StatusFor(unmet'[id])]
        /\ unmet' = [unmet EXCEPT ![id] = CountUnmet(status, D)]
    BY <1>5 DEF UpdateDeps
  <2>2. i # id
    BY <1>t, <2>1, StatusForType
  <2>3. QED
    BY <1>t, <2>1, <2>2
<1>6. ASSUME NEW id \in Ids, UpdateFields(id) \/ DeleteTask(id)
      PROVE  status[i] = "PENDING" /\ unmet[i] = 0
  BY <1>t, <1>6 DEF UpdateFields, DeleteTask
<1>7. ASSUME NEW id \in Ids, NEW how \in Terminal, Settle(id, how), UNCHANGED unmet
      PROVE  status[i] = "PENDING" /\ unmet[i] = 0
  BY <1>t, <1>7 DEF Settle, Terminal
<1>8. ASSUME UNCHANGED <<status, unmet>>
      PROVE  status[i] = "PENDING" /\ unmet[i] = 0
  BY <1>8
<1>9. ASSUME NEW id \in Ids,
             \/ CompleteTask(id) \/ FailTask(id) \/ ExecutorResolves(id) \/ ExecutorRejects(id)
      PROVE  status[i] = "PENDING" /\ unmet[i] = 0
  <2>1. /\ (\E how \in Terminal : Settle(id, how)) \/ UNCHANGED status
        /\ UNCHANGED unmet
    BY <1>9
    DEF CompleteTask, FailTask, ExecutorResolves, ExecutorRejects, BeginCompletion, Terminal
  <2>2. QED
    BY <1>7, <1>8, <2>1
<1>10. ASSUME NEW met \in SUBSET queued, \A c \in met : Blocked(c), Reblocked(met)
       PROVE  i \notin met /\ unmet[i] = 0
  <2>1. unmet'[i] = IF i \in met THEN CountUnmet(status, deps[i]) ELSE unmet[i]
    BY <1>10 DEF Reblocked
  <2>2. QED
    BY <1>10, <2>1, BlockedCounts
<1>11. ASSUME NEW id \in queued, NEW met \in SUBSET queued, NEW executed \in BOOLEAN,
              ClaimNext(id, met, executed)
       PROVE  status[i] = "PENDING" /\ unmet[i] = 0
  <2>1. /\ \A c \in met : Blocked(c)
        /\ Reblocked(met)
        /\ status' = [c \in Ids |-> IF c = id THEN "RUNNING"
                                    ELSE IF c \in met THEN "PENDING" ELSE status[c]]
    BY <1>11 DEF ClaimNext
  <2>2. i \notin met /\ unmet[i] = 0
    BY <1>10, <2>1
  <2>3. QED
    BY <2>1, <2>2
<1>12. ASSUME NEW met \in SUBSET queued, LookForNext(met)
       PROVE  status[i] = "PENDING" /\ unmet[i] = 0
  <2>1. /\ \A c \in met : Blocked(c)
        /\ Reblocked(met)
        /\ status' = [c \in Ids |-> IF c \in met THEN "PENDING" ELSE status[c]]
    BY <1>12 DEF LookForNext
  <2>2. i \notin met /\ unmet[i] = 0
    BY <1>10, <2>1
  <2>3. QED
    BY <2>1, <2>2
<1>13. CASE HookReturns
  <2> DEFINE children == {c \in dependents[Top.id] : status[c] = "PENDING"}
  <2>1. /\ unmet' = [c \in Ids |-> IF c \in children THEN Decremented(c) ELSE unmet[c]]
        /\ status' = [c \in Ids |-> IF c \in children /\ Decremented(c) = 0 THEN "READY"
                                    ELSE status[c]]
    BY <1>13 DEF HookReturns, Promoted
  <2> HIDE DEF children
  <2>2. i \notin children
    BY <2>1
  <2>3. QED
    BY <2>1, <2>2
<1>14. CASE HookThrows
  <2>1. /\ Top.id \in Ids /\ (Settle(Top.id, "FAILED") \/ UNCHANGED status)
        /\ UNCHANGED unmet
    BY <1>t, <1>14, FramesType DEF HookThrows
  <2>2. QED
    BY <1>7, <1>8, <2>1 DEF Terminal
<1>15. CASE Clear
  BY <1>15 DEF Clear
<1>16. CASE UNCHANGED vars
  BY <1>16 DEF vars
<1>17. QED
  BY <1>1, <1>4, <1>5, <1>6, <1>9, <1>11, <1>12, <1>13, <1>14, <1>15, <1>16 DEF Next

\* A task that the step strands has the count 0, as its count exceeds nothing that it
\* awaits.
LEMMA StrandedCount ==
    ASSUME TypeOK', CountsFit', NEW i \in Ids, Stranded(i)'
    PROVE  status'[i] = "PENDING" /\ unmet'[i] = 0
<1>1. {d \in deps'[i] : Awaited(d)'} = {}
    BY DEF Stranded, Awaited
<1>2. unmet'[i] <= Cardinality({d \in deps'[i] : Awaited(d)'}) /\ status'[i] = "PENDING"
    BY DEF CountsFit, CountFits, Stranded, Waiting
<1>3. unmet'[i] \in Nat /\ Cardinality({d \in deps'[i] : Awaited(d)'}) = 0
    BY <1>1, FS_EmptySet DEF TypeOK
<1>4. QED
    BY <1>2, <1>3

\* No wakeup is lost: whatever has happened to the graph and the counts, no step leaves
\* a PENDING task with nothing to wait for, but a rejected batch that creates it.
THEOREM NoWakeupIsLost == Spec => NobodyIsStranded
<1>1. Init => IndexKnown /\ CountsFit
  <2>1. ASSUME Init, NEW i \in Ids PROVE CountFits(i)
    BY <2>1 DEF Init, CountFits, Waiting
  <2>2. QED
    BY <2>1 DEF Init, IndexKnown, IndexKnows, CountsFit
<1>2. TypeOK /\ IndexKnown /\ CountsFit /\ [Next]_vars => TypeOK' /\ IndexKnown' /\ CountsFit'
    BY TypeStep, IndexStep, CountStep
<1>3. TypeOK /\ TypeOK' /\ CountsFit' /\ [Next]_vars =>
        [\A i \in Ids : Stranded(i)' =>
            \/ status[i] = "PENDING" /\ unmet[i] = 0
            \/ status[i] = "NONE" /\ RejectedBatch]_vars
  <2>1. TypeOK' /\ CountsFit' =>
          \A i \in Ids : Stranded(i)' => status'[i] = "PENDING" /\ unmet'[i] = 0
    BY StrandedCount
  <2>2. QED
    BY <2>1, AwaitingStep DEF StaysAwaiting
<1>4. QED
    BY <1>1, <1>2, <1>3, TypeInit, PTL DEF Spec, NobodyIsStranded
-----------------------------------------------------------------------------
(* Heap entries *)

\* The step takes no entry from a READY task and makes none READY without one.
Remembers(i) ==
    status'[i] = "READY" /\ i \notin queued' => status[i] = "READY" /\ i \notin queued

\* Every step that is not a batch remembers every READY task.
LEMMA RememberStep ==
    ASSUME TypeOK, TypeOK', [Next]_vars, ~BatchStep
    PROVE  \A i \in Ids : Remembers(i)
<1> SUFFICES ASSUME NEW i \in Ids PROVE Remembers(i)
    OBVIOUS
<1>t. /\ status \in [Ids -> Terminal \cup Live \cup {"NONE"}]
      /\ deps \in [Ids -> SUBSET Ids] /\ dependents \in [Ids -> SUBSET Ids]
      /\ queued \subseteq Ids /\ \A q \in queued : status[q] = "READY"
      /\ unmet \in [Ids -> Nat] /\ unmet' \in [Ids -> Nat] /\ frames \in Seq(Frame)
    BY DEF TypeOK
<1>1. ASSUME NEW id \in Ids, NEW D \in SUBSET Ids, AddTask(id, D)
      PROVE  Remembers(i)
  <2> DEFINE n       == CountUnmet(status, D)
             created == [status EXCEPT ![id] = StatusFor(n)]
             inbound == Inbound(created, id)
             recount == [c \in Ids |-> IF c \in inbound THEN CountUnmet(created, deps[c])
                                       ELSE IF c = id THEN n ELSE unmet[c]]
  <2>1. /\ status' = [c \in Ids |-> IF c \in inbound THEN StatusFor(recount[c]) ELSE created[c]]
        /\ status[id] = "NONE" /\ unmet' = recount
        /\ queued' = (queued \ {c \in inbound : recount[c] > 0})
                     \cup {c \in inbound \cup {id} : recount[c] = 0 /\ status[c] # "READY"}
    BY <1>1 DEF AddTask
  <2>2. created[id] = StatusFor(n) /\ \A c \in Ids \ {id} : created[c] = status[c]
    BY <1>t
  <2>3. id \notin inbound => recount[id] = n
    OBVIOUS
  <2> HIDE DEF n, created, inbound, recount
  <2> SUFFICES ASSUME status'[i] = "READY", i \notin queued'
               PROVE  status[i] = "READY" /\ i \notin queued
    BY DEF Remembers
  <2>4. CASE i \in inbound \/ i = id
    <3>1. recount[i] = 0
      BY <2>1, <2>2, <2>3, <2>4, StatusForType
    <3>2. QED
      BY <2>1, <2>4, <3>1
  <2>5. CASE i \notin inbound /\ i # id
    BY <2>1, <2>2, <2>5
  <2>6. QED
    BY <2>4, <2>5
<1>2. ASSUME NEW id \in Ids, NEW D \in SUBSET Ids, UpdateDeps(id, D)
      PROVE  Remembers(i)
  <2>1. /\ status' = [status EXCEPT ![id] = StatusFor(unmet'[id])]
        /\ queued' = IF unmet'[id] = 0 THEN queued \cup {id} ELSE Dequeue(id)
    BY <1>2 DEF UpdateDeps
  <2>2. i = id /\ status'[i] = "READY" => i \in queued'
    BY <1>t, <2>1, StatusForType
  <2>3. QED
    BY <1>t, <2>1, <2>2 DEF Remembers, Dequeue
<1>3. ASSUME NEW id \in Ids, UpdateFields(id) \/ DeleteTask(id)
      PROVE  Remembers(i)
  BY <1>t, <1>3 DEF UpdateFields, DeleteTask, Dequeue, Remembers
<1>4. ASSUME NEW id \in Ids, NEW how \in Terminal, Settle(id, how)
      PROVE  Remembers(i)
  BY <1>t, <1>4 DEF Settle, Dequeue, Remembers, Terminal
<1>5. ASSUME UNCHANGED <<status, queued>>
      PROVE  Remembers(i)
  BY <1>5 DEF Remembers
<1>6. ASSUME NEW id \in Ids,
             \/ CompleteTask(id) \/ FailTask(id) \/ ExecutorResolves(id) \/ ExecutorRejects(id)
      PROVE  Remembers(i)
  <2>1. (\E how \in Terminal : Settle(id, how)) \/ UNCHANGED <<status, queued>>
    BY <1>6
    DEF CompleteTask, FailTask, ExecutorResolves, ExecutorRejects, BeginCompletion, Terminal
  <2>2. QED
    BY <1>4, <1>5, <2>1
<1>7. ASSUME NEW id \in queued, NEW met \in SUBSET queued, NEW executed \in BOOLEAN,
             ClaimNext(id, met, executed)
      PROVE  Remembers(i)
  BY <1>t, <1>7 DEF ClaimNext, Remembers
<1>8. ASSUME NEW met \in SUBSET queued, LookForNext(met)
      PROVE  Remembers(i)
  BY <1>t, <1>8 DEF LookForNext, Remembers
<1>9. CASE HookReturns
  <2> DEFINE promoted == Promoted({c \in dependents[Top.id] : status[c] = "PENDING"})
  <2>1. /\ status' = [c \in Ids |-> IF c \in promoted THEN "READY" ELSE status[c]]
        /\ queued' = queued \cup promoted
    BY <1>9 DEF HookReturns
  <2> HIDE DEF promoted
  <2>2. QED
    BY <2>1 DEF Remembers
<1>10. CASE HookThrows
  <2>1. Top.id \in Ids /\ (Settle(Top.id, "FAILED") \/ UNCHANGED <<status, queued>>)
    BY <1>t, <1>10, FramesType DEF HookThrows
  <2>2. QED
    BY <1>4, <1>5, <2>1 DEF Terminal
<1>11. CASE Clear
  BY <1>11 DEF Clear, Remembers
<1>12. CASE UNCHANGED vars
  BY <1>5, <1>12 DEF vars
<1>13. QED
  BY <1>1, <1>2, <1>3, <1>6, <1>7, <1>8, <1>9, <1>10, <1>11, <1>12 DEF Next

\* No step but a batch, which rebuilds the heaps, leaves a READY task without an
\* entry that it had or ought to be given.
THEOREM BatchesForget == Spec => OnlyBatchesForget
<1>1. TypeOK /\ TypeOK' /\ [Next]_vars =>
        [(\E i \in Ids : /\ status'[i] = "READY" /\ i \notin queued'
                         /\ status[i] # "READY" \/ i \in queued)
            => BatchStep]_vars
    BY RememberStep DEF Remembers
<1>2. QED
    BY <1>1, TypeInit, TypeStep, PTL DEF Spec, OnlyBatchesForget
-----------------------------------------------------------------------------
(* Cycles *)

\* No updateTask closes a cycle: an old dependency of the task does not reach it when
\* there is no cycle yet, and updateTask has looked at the others.
LEMMA UpdateAcyclic ==
    ASSUME TypeOK, NEW id \in Ids, NEW D \in SUBSET Ids, UpdateDeps(id, D), IsAcyclic(deps)
    PROVE  IsAcyclic(deps')
<1>1. deps \in [Ids -> SUBSET Ids]
    BY DEF TypeOK
<1>2. deps' = [deps EXCEPT ![id] = D] /\ \A d \in D \ deps[id] : ~DepPath(d, id)
    BY DEF UpdateDeps
<1>3. \A d \in deps[id] : id \notin ReachableFrom(deps, {d})
    BY <1>1, AcyclicNoReturn
<1>4. \A d \in D : id \notin ReachableFrom(deps, {d})
    BY <1>2, <1>3 DEF DepPath
<1>5. IsAcyclic([deps EXCEPT ![id] = D])
    BY <1>1, <1>4, AcyclicUpdate
<1>6. QED
    BY <1>2, <1>5

\* A step that gives a task a new dependency and adds no task is an updateTask.
LEMMA NewDependency ==
    ASSUME TypeOK, [Next]_vars,
           \E i \in Ids : ~(deps'[i] \subseteq deps[i]),
           \A i \in Ids : status[i] = "NONE" => status'[i] = "NONE"
    PROVE  \E id \in Ids, D \in SUBSET Ids : UpdateDeps(id, D)
<1>t. /\ status \in [Ids -> Terminal \cup Live \cup {"NONE"}]
      /\ deps \in [Ids -> SUBSET Ids]
    BY DEF TypeOK
<1>w. "NONE" \notin Waiting /\ "PENDING" \in Waiting
    BY DEF Waiting
<1>1. ASSUME NEW id \in Ids, NEW D \in SUBSET Ids, AddTask(id, D)
      PROVE  FALSE
  <2> DEFINE n       == CountUnmet(status, D)
             created == [status EXCEPT ![id] = StatusFor(n)]
             inbound == Inbound(created, id)
             recount == [c \in Ids |-> IF c \in inbound THEN CountUnmet(created, deps[c])
                                       ELSE IF c = id THEN n ELSE unmet[c]]
  <2>1. /\ status' = [c \in Ids |-> IF c \in inbound THEN StatusFor(recount[c]) ELSE created[c]]
        /\ status[id] = "NONE"
    BY <1>1 DEF AddTask
  <2>2. created[id] = StatusFor(n)
    BY <1>t
  <2> HIDE DEF n, created, inbound, recount
  <2>3. status'[id] \in Waiting
    BY <2>1, <2>2, StatusForType
  <2>4. QED
    BY <1>w, <2>1, <2>3
<1>2. ASSUME NEW new \in SUBSET (Ids \ Existing), NEW D, NEW rest,
             AddTasks(new, D) \/ AddTasksRejected(new, rest, D)
      PROVE  FALSE
  <2>1. \A i \in new : i \in Ids /\ status[i] = "NONE" /\ status'[i] \in Waiting
    BY <1>2, <1>w, StatusForType DEF AddTasks, AddTasksRejected, Existing
  <2>2. new = {}
    BY <1>w, <2>1
  <2>3. \A i \in Ids : deps'[i] = deps[i]
    BY <1>2, <2>2 DEF AddTasks, AddTasksRejected
  <2>4. QED
    BY <2>3
<1>3. ASSUME NEW id \in Ids,
             \/ UpdateFields(id) \/ DeleteTask(id) \/ CompleteTask(id) \/ FailTask(id)
             \/ ExecutorResolves(id) \/ ExecutorRejects(id)
      PROVE  FALSE
  BY <1>t, <1>3 DEF UpdateFields, DeleteTask, CompleteTask, FailTask, ExecutorResolves,
                    ExecutorRejects, BeginCompletion
<1>4. CASE (\E id \in queued, met \in SUBSET queued, executed \in BOOLEAN :
               ClaimNext(id, met, executed))
           \/ (\E met \in SUBSET queued : LookForNext(met))
           \/ HookReturns \/ HookThrows \/ UNCHANGED vars
  BY <1>t, <1>4 DEF ClaimNext, LookForNext, HookReturns, HookThrows, vars
<1>5. CASE Clear
  BY <1>t, <1>5 DEF Clear
<1>6. CASE BatchStep
  BY <1>2, <1>6, BatchCases
<1>7. QED
  BY <1>1, <1>3, <1>4, <1>5, <1>6 DEF Next

\* Nothing but an addition closes a cycle among the dependencies.
THEOREM UpdatesAcyclic == Spec => UpdatesKeepAcyclic
<1>1. TypeOK /\ [Next]_vars =>
        [/\ \E i \in Ids : ~(deps'[i] \subseteq deps[i])
         /\ \A i \in Ids : status[i] = "NONE" => status'[i] = "NONE"
         => (IsAcyclic(deps) => IsAcyclic(deps'))]_vars
    BY NewDependency, UpdateAcyclic
<1>2. QED
    BY <1>1, TypeInit, TypeStep, PTL DEF Spec, UpdatesKeepAcyclic
=============================================================================
