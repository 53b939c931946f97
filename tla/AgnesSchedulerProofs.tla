------------------------ MODULE AgnesSchedulerProofs ------------------------
(***************************************************************************)
(* Theorems about AgnesScheduler, for every set of ids and every value of  *)
(* the options and bounds: types, the graph, the atomicity of the calls;   *)
(* then that the validation of dependencies is exact, that no wakeup is    *)
(* lost while the reverse index knows a task and that, without a runner,   *)
(* only a reset revives a task and the status counters are exact.          *)
(***************************************************************************)
EXTENDS AgnesScheduler, ReachabilityProofs, FiniteSetTheorems

-----------------------------------------------------------------------------
(* The helpers *)

\* A set of ids has a size.
LEMMA SizeOfIds == ASSUME NEW S \in SUBSET Ids PROVE Cardinality(S) \in Nat
  BY AgnesAssumption, FS_Subset, FS_CardinalityType

\* Counting a change of status, or one for each of several tasks, keeps the counters
\* integers.
LEMMA CountType ==
    ASSUME NEW c \in [Statuses -> Int], NEW prev, NEW next
    PROVE  CountStatusChange(c, prev, next) \in [Statuses -> Int]
  BY DEF CountStatusChange

\* The same for several tasks at once.
LEMMA CountEachType ==
    ASSUME NEW c \in [Statuses -> Int], NEW st, NEW ids \in SUBSET Ids, NEW next
    PROVE  CountEach(c, st, ids, next) \in [Statuses -> Int]
<1>1. /\ Cardinality(ids) \in Nat
      /\ \A s \in Statuses : Cardinality({i \in ids : st[i] = s}) \in Nat
    BY SizeOfIds
<1>2. QED
    BY <1>1 DEF CountEach

\* Propagation marks ids.
LEMMA VictimsType ==
    ASSUME NEW st, NEW rev, NEW origin
    PROVE  Victims(st, rev, origin) \in SUBSET Ids
  BY DEF Victims, ReachableFrom, Onward

\* So does reconciling.
LEMMA ReconcileCountType ==
    ASSUME NEW st, NEW h, NEW c \in [Statuses -> Int], NEW id, ReconcileStatus(st, h, c, id)
    PROVE  byStatus' \in [Statuses -> Int]
<1> DEFINE new == Reconciled(st, st[id], deps'[id])
           st1 == [st EXCEPT ![id] = new]
           c1 == IF new = st[id] THEN c ELSE CountStatusChange(c, st[id], new)
           failed == Victims(st1, dependents', id)
<1>1. byStatus' = IF new = "FAILED" THEN CountEach(c1, st1, failed, "FAILED") ELSE c1
    BY DEF ReconcileStatus
<1>2. c1 \in [Statuses -> Int]
    BY CountType
<1>3. failed \in SUBSET Ids
    BY VictimsType
<1> HIDE DEF new, st1, c1, failed
<1>4. QED
    BY <1>1, <1>2, <1>3, CountEachType

\* Failing victims leaves a status of every id, and every id in or out of the map.
LEMMA FailType ==
    ASSUME NEW st \in [Ids -> Statuses \cup {"NONE"}], NEW rev, NEW origin
    PROVE  LET new == Fail(st, Victims(st, rev, origin))
           IN  /\ new \in [Ids -> Statuses \cup {"NONE"}]
               /\ \A i \in Ids : new[i] = "NONE" <=> st[i] = "NONE"
  BY DEF Fail, Victims, Statuses, Live, Terminal

\* Promoting does the same, and what it promotes was PENDING.
LEMMA PromoteType ==
    ASSUME NEW st \in [Ids -> Statuses \cup {"NONE"}], NEW id \in Ids,
           dependents \in [Ids -> SUBSET Ids]
    PROVE  LET promoted == Unblocked(st, id)
               new == Promote(st, promoted)
           IN  /\ promoted \subseteq {i \in Ids : st[i] = "PENDING"}
               /\ new \in [Ids -> Statuses \cup {"NONE"}]
               /\ \A i \in Ids : new[i] = "NONE" <=> st[i] = "NONE"
  BY DEF Unblocked, Promote, Statuses, Live, Terminal

\* So does reconciling one live task.
LEMMA ReconcileType ==
    ASSUME NEW st \in [Ids -> Statuses \cup {"NONE"}], NEW id \in Ids, st[id] \in Live,
           NEW h, h \subseteq {i \in Ids : st[i] # "NONE"},
           NEW c, ReconcileStatus(st, h, c, id)
    PROVE  /\ status' \in [Ids -> Statuses \cup {"NONE"}]
           /\ \A i \in Ids : status'[i] = "NONE" <=> st[i] = "NONE"
           /\ heap' \subseteq {i \in Ids : status'[i] # "NONE"}
<1> DEFINE new == Reconciled(st, st[id], deps'[id])
           st1 == [st EXCEPT ![id] = new]
<1>1. new \in {"FAILED", "READY", "PENDING", "RUNNING"}
    BY DEF Reconciled, Live
<1>2. /\ st1 \in [Ids -> Statuses \cup {"NONE"}]
      /\ \A i \in Ids : st1[i] = "NONE" <=> st[i] = "NONE"
    BY <1>1 DEF Statuses, Live, Terminal
<1>3. /\ status' = IF new = "FAILED" THEN Fail(st1, Victims(st1, dependents', id)) ELSE st1
      /\ heap' = IF new = st[id] THEN h
                 ELSE IF new = "READY" THEN h \cup {id} ELSE Dequeue(h, id)
    BY DEF ReconcileStatus
<1> HIDE DEF new, st1
<1>4. /\ status' \in [Ids -> Statuses \cup {"NONE"}]
      /\ \A i \in Ids : status'[i] = "NONE" <=> st1[i] = "NONE"
    BY <1>2, <1>3, FailType
<1>5. heap' \subseteq h \cup {id}
    BY <1>3 DEF Dequeue
<1>6. QED
    BY <1>2, <1>4, <1>5 DEF Live
-----------------------------------------------------------------------------
(* Type correctness *)

FramesKnown ==
    /\ frames \in Seq(Frame)
    /\ \A k \in DOMAIN frames : frames[k].orphan = "NONE" => frames[k].id \in Existing

\* Orphaning the frames of tasks that leave the map keeps the frames known.
LEMMA OrphanType ==
    ASSUME TypeOK, NEW gone \in SUBSET Ids, frames' = Orphan(gone),
           \A i \in Ids \ gone : status[i] # "NONE" => status'[i] # "NONE"
    PROVE  FramesKnown'
<1>1. frames' \in Seq(Frame) /\ DOMAIN frames' = DOMAIN frames
  <2>1. DOMAIN frames = 1..Len(frames) /\ Len(frames) \in Nat
    BY DEF TypeOK
  <2>2. ASSUME NEW k \in DOMAIN frames
        PROVE  frames'[k] \in Frame
    <3>1. frames[k] \in Frame
      BY <2>1 DEF TypeOK
    <3>2. CASE frames[k].orphan = "NONE" /\ frames[k].id \in gone
      <4>1. frames'[k] = WithOrphan(frames[k], status[frames[k].id])
        BY <3>2 DEF Orphan
      <4>2. frames[k].id \in Ids /\ frames[k].obj \in Nat
        BY <3>1 DEF Frame
      <4>3. status[frames[k].id] \in Statuses \cup {"NONE"}
        BY <4>2 DEF TypeOK
      <4>4. QED
        BY <4>1, <4>2, <4>3 DEF WithOrphan, Frame
    <3>3. CASE ~(frames[k].orphan = "NONE" /\ frames[k].id \in gone)
      BY <3>1, <3>3 DEF Orphan
    <3>4. QED
      BY <3>2, <3>3
  <2>3. frames' = [k \in 1..Len(frames) |-> frames'[k]]
    BY <2>1 DEF Orphan
  <2>4. QED
    BY <2>1, <2>2, <2>3
<1>2. ASSUME NEW k \in DOMAIN frames', frames'[k].orphan = "NONE"
      PROVE  frames'[k].id \in Existing'
  <2>1. frames[k] \in Frame /\ k \in DOMAIN frames
    BY <1>1 DEF TypeOK
  <2>2. CASE frames[k].orphan = "NONE" /\ frames[k].id \in gone
    <3>1. frames[k].id \in Existing
      BY <2>1, <2>2 DEF TypeOK
    <3>2. frames'[k].orphan = status[frames[k].id]
      BY <2>1, <2>2 DEF Orphan, WithOrphan, Frame
    <3>3. QED
      BY <1>2, <3>1, <3>2 DEF Existing
  <2>3. CASE ~(frames[k].orphan = "NONE" /\ frames[k].id \in gone)
    <3>1. frames'[k] = frames[k]
      BY <2>1, <2>3 DEF Orphan
    <3>2. frames[k].orphan = "NONE" /\ frames[k].id \in Ids \ gone
      BY <1>2, <2>1, <2>3, <3>1 DEF Frame
    <3>3. frames[k].id \in Existing
      BY <2>1, <3>2 DEF TypeOK
    <3>4. QED
      BY <3>1, <3>2, <3>3 DEF Existing
  <2>4. QED
    BY <2>2, <2>3
<1>3. QED
    BY <1>1, <1>2 DEF FramesKnown

\* The frames stay known when no task leaves the map.
LEMMA FramesStay ==
    ASSUME TypeOK, UNCHANGED frames,
           \A i \in Ids : status[i] # "NONE" => status'[i] # "NONE"
    PROVE  FramesKnown'
  BY DEF TypeOK, FramesKnown, Existing

\* Registering and unregistering keep the reverse index well typed.
LEMMA RegisterType ==
    ASSUME NEW rev \in [Ids -> SUBSET Ids], NEW id \in Ids, NEW D
    PROVE  /\ Register(rev, id, D) \in [Ids -> SUBSET Ids]
           /\ Unregister(rev, id, D) \in [Ids -> SUBSET Ids]
  BY DEF Register, Unregister

\* The scheduler starts well typed.
LEMMA TypeInit == Init => TypeOK
<1> SUFFICES ASSUME Init PROVE TypeOK
    OBVIOUS
<1>1. frames \in Seq(Frame) /\ DOMAIN frames = {}
    BY DEF Init
<1>2. /\ status \in [Ids -> Statuses \cup {"NONE"}]
      /\ deps \in [Ids -> SUBSET Ids] /\ dependents \in [Ids -> SUBSET Ids]
    BY DEF Init
<1>3. byStatus \in [Statuses -> Int] /\ edges \in Int
    BY DEF Init
<1>4. heap \subseteq Existing /\ disposed \in BOOLEAN
    BY DEF Init
<1>5. QED
    BY <1>1, <1>2, <1>3, <1>4 DEF TypeOK

\* What is left to show of type correctness when the parts that change most are known.
LEMMA TypeFromParts ==
    ASSUME TypeOK,
           status' \in [Ids -> Statuses \cup {"NONE"}],
           deps' \in [Ids -> SUBSET Ids], dependents' \in [Ids -> SUBSET Ids],
           heap' \subseteq {i \in Ids : status'[i] # "NONE"},
           byStatus' \in [Statuses -> Int], edges' \in Int,
           FramesKnown', disposed' \in BOOLEAN
    PROVE  TypeOK'
  BY DEF TypeOK, FramesKnown, Existing

\* The innermost execution chose an id; it is in the map unless it was orphaned.
LEMMA TopKnown ==
    ASSUME TypeOK, frames # <<>>
    PROVE  Top.id \in Ids /\ (Top.orphan = "NONE" => Top.id \in Existing)
<1>1. /\ DOMAIN frames = 1..Len(frames) /\ Len(frames) \in DOMAIN frames
      /\ \A k \in DOMAIN frames : frames[k] \in Frame
    BY DEF TypeOK
<1>2. Top \in Frame
    BY <1>1 DEF Top
<1>3. Top.id \in Ids
    BY <1>2 DEF Frame
<1>4. QED
    BY <1>1, <1>3 DEF Top, TypeOK

\* Every step of the scheduler keeps it well typed.
LEMMA TypeStep == TypeOK /\ [Next]_vars => TypeOK'
<1> SUFFICES ASSUME TypeOK, [Next]_vars PROVE TypeOK'
    OBVIOUS
<1>t. /\ status \in [Ids -> Statuses \cup {"NONE"}]
      /\ deps \in [Ids -> SUBSET Ids] /\ dependents \in [Ids -> SUBSET Ids]
      /\ heap \subseteq {i \in Ids : status[i] # "NONE"}
      /\ byStatus \in [Statuses -> Int] /\ edges \in Int /\ disposed \in BOOLEAN
    BY DEF TypeOK, Existing
<1>n. Live \subseteq Statuses /\ Terminal \subseteq Statuses /\ "NONE" \notin Statuses
    BY DEF Statuses, Live, Terminal
<1>1. ASSUME NEW id \in Ids, NEW D \in SUBSET Ids, AddTask(id, D)
      PROVE  TypeOK'
  <2> DEFINE created == Reconciled(status, "PENDING", D)
             st == [status EXCEPT ![id] = created]
             failed == Victims(st, dependents', id)
             c == IF created = "FAILED" THEN CountEach(byStatus, st, failed, "FAILED") ELSE byStatus
  <2>1. created \in {"FAILED", "READY", "PENDING"}
    BY DEF Reconciled
  <2>c. byStatus' = CountStatusChange(c, "NONE", created)
    BY <1>1 DEF AddTask
  <2>2. /\ status' = IF created = "FAILED" THEN Fail(st, Victims(st, dependents', id)) ELSE st
        /\ heap' = IF created = "READY" THEN heap \cup {id} ELSE heap
        /\ deps' = [deps EXCEPT ![id] = D] /\ dependents' = Register(dependents, id, D)
        /\ edges' = edges + Cardinality({d \in D : id \notin dependents[d]})
        /\ UNCHANGED <<frames, disposed>>
    BY <1>1 DEF AddTask
  <2>3. st \in [Ids -> Statuses \cup {"NONE"}] /\ st[id] # "NONE"
        /\ \A i \in Ids : status[i] # "NONE" => st[i] # "NONE"
    BY <1>t, <2>1 DEF Statuses, Live, Terminal
  <2>d. byStatus' \in [Statuses -> Int]
    <3> HIDE DEF created, st
    <3>1. failed \in SUBSET Ids
      BY VictimsType
    <3> HIDE DEF failed
    <3>2. c \in [Statuses -> Int]
      BY <1>t, <3>1, CountEachType
    <3> HIDE DEF c
    <3>3. QED
      BY <2>c, <3>2, CountType
  <2> HIDE DEF created, st
  <2>4. /\ status' \in [Ids -> Statuses \cup {"NONE"}]
        /\ \A i \in Ids : status'[i] = "NONE" <=> st[i] = "NONE"
    BY <2>2, <2>3, FailType
  <2>5. Cardinality({d \in D : id \notin dependents[d]}) \in Nat
    BY SizeOfIds
  <2>6. FramesKnown'
    BY <2>2, <2>3, <2>4, FramesStay
  <2>7. heap' \subseteq {i \in Ids : status'[i] # "NONE"}
    BY <1>t, <2>2, <2>3, <2>4
  <2>8. deps' \in [Ids -> SUBSET Ids] /\ dependents' \in [Ids -> SUBSET Ids]
    BY <1>t, <2>2, RegisterType
  <2>9. edges' \in Int
    BY <1>t, <2>2, <2>5
  <2>10. QED
    BY <1>t, <2>d, <2>2, <2>4, <2>6, <2>7, <2>8, <2>9, TypeFromParts
<1>2. ASSUME NEW id \in Ids, NEW D \in SUBSET Ids, UpdateDeps(id, D)
      PROVE  TypeOK'
  <2>1. /\ status[id] \in Live /\ ReconcileStatus(status, heap, byStatus, id)
        /\ deps' = [deps EXCEPT ![id] = D]
        /\ dependents' = Register(Unregister(dependents, id, deps[id] \ D), id, D \ deps[id])
        /\ edges' = edges + Cardinality({d \in D \ deps[id] : id \notin dependents[d]})
                          - Cardinality({d \in deps[id] \ D : id \in dependents[d]})
        /\ UNCHANGED <<frames, disposed>>
    BY <1>2 DEF UpdateDeps
  <2>c. byStatus' \in [Statuses -> Int]
    BY <1>t, <2>1, ReconcileCountType
  <2>2. /\ status' \in [Ids -> Statuses \cup {"NONE"}]
        /\ \A i \in Ids : status'[i] = "NONE" <=> status[i] = "NONE"
        /\ heap' \subseteq {i \in Ids : status'[i] # "NONE"}
    BY <1>t, <2>1, ReconcileType
  <2>3. /\ Cardinality({d \in D \ deps[id] : id \notin dependents[d]}) \in Nat
        /\ Cardinality({d \in deps[id] \ D : id \in dependents[d]}) \in Nat
    BY <1>t, SizeOfIds
  <2>4. FramesKnown'
    BY <2>1, <2>2, FramesStay
  <2>5. deps' \in [Ids -> SUBSET Ids] /\ dependents' \in [Ids -> SUBSET Ids]
    BY <1>t, <2>1, RegisterType
  <2>6. edges' \in Int
    BY <1>t, <2>1, <2>3
  <2>7. QED
    BY <1>t, <2>c, <2>1, <2>2, <2>4, <2>5, <2>6, TypeFromParts
<1>3. ASSUME NEW id \in Ids, UpdateFields(id) \/ ResetTask(id)
      PROVE  TypeOK'
  <2> DEFINE pending == [status EXCEPT ![id] = "PENDING"]
  <2>1. /\ UNCHANGED <<deps, dependents, edges, frames, disposed>>
        /\ status[id] \in Live \cup Terminal
    BY <1>3 DEF UpdateFields, ResetTask
  <2>c. byStatus' \in [Statuses -> Int]
    <3>1. CASE UpdateFields(id)
      BY <1>t, <3>1, ReconcileCountType DEF UpdateFields
    <3>2. CASE ResetTask(id)
      <4> DEFINE c == CountStatusChange(byStatus, status[id], "PENDING")
      <4>1. ReconcileStatus(pending, Dequeue(heap, id), c, id)
        BY <3>2 DEF ResetTask
      <4>2. c \in [Statuses -> Int]
        BY <1>t, CountType
      <4> HIDE DEF pending, c
      <4>3. QED
        BY <4>1, <4>2, ReconcileCountType
    <3>3. QED
      BY <1>3, <3>1, <3>2
  <2>2. /\ status' \in [Ids -> Statuses \cup {"NONE"}]
        /\ \A i \in Ids : status'[i] = "NONE" <=> status[i] = "NONE"
        /\ heap' \subseteq {i \in Ids : status'[i] # "NONE"}
    <3>1. CASE UpdateFields(id)
      BY <1>t, <3>1, ReconcileType DEF UpdateFields
    <3>2. CASE ResetTask(id)
      <4>1. ReconcileStatus(pending, Dequeue(heap, id),
                            CountStatusChange(byStatus, status[id], "PENDING"), id)
        BY <3>2 DEF ResetTask
      <4>2. /\ pending \in [Ids -> Statuses \cup {"NONE"}] /\ pending[id] \in Live
            /\ \A i \in Ids : pending[i] = "NONE" <=> status[i] = "NONE"
        BY <1>t, <1>n, <2>1 DEF Statuses, Live
      <4>3. Dequeue(heap, id) \subseteq {i \in Ids : pending[i] # "NONE"}
        BY <1>t, <4>2 DEF Dequeue
      <4> HIDE DEF pending
      <4>4. QED
        BY <4>1, <4>2, <4>3, ReconcileType
    <3>3. QED
      BY <1>3, <3>1, <3>2
  <2>3. FramesKnown'
    BY <2>1, <2>2, FramesStay
  <2>4. QED
    BY <1>t, <2>c, <2>1, <2>2, <2>3, TypeFromParts
<1>4. ASSUME NEW id \in Ids, DeleteTask(id)
      PROVE  TypeOK'
  <2> DEFINE failed == Fail(status, Victims(status, dependents, id))
  <2>1. /\ status' = [failed EXCEPT ![id] = "NONE"]
        /\ deps' = [deps EXCEPT ![id] = {}]
        /\ dependents' = [Unregister(dependents, id, deps[id]) EXCEPT ![id] = {}]
        /\ edges' = edges - Cardinality({d \in deps[id] : id \in dependents[d]})
        /\ heap' = Dequeue(heap, id)
        /\ frames' = Orphan({id})
        /\ UNCHANGED disposed
    BY <1>4 DEF DeleteTask
  <2>c. byStatus' \in [Statuses -> Int]
    <3> DEFINE ids == Victims(status, dependents, id)
    <3>1. byStatus' = CountStatusChange(CountEach(byStatus, status, ids, "FAILED"), status[id], "NONE")
      BY <1>4 DEF DeleteTask
    <3>2. ids \in SUBSET Ids
      BY VictimsType
    <3> HIDE DEF ids
    <3>3. QED
      BY <1>t, <3>1, <3>2, CountEachType, CountType
  <2>2. /\ failed \in [Ids -> Statuses \cup {"NONE"}]
        /\ \A i \in Ids : failed[i] = "NONE" <=> status[i] = "NONE"
    BY <1>t, FailType
  <2> HIDE DEF failed
  <2>3. /\ status' \in [Ids -> Statuses \cup {"NONE"}]
        /\ \A i \in Ids \ {id} : status'[i] = "NONE" <=> status[i] = "NONE"
    BY <2>1, <2>2
  <2>4. heap' \subseteq {i \in Ids : status'[i] # "NONE"}
    BY <1>t, <2>1, <2>3 DEF Dequeue
  <2>5. Unregister(dependents, id, deps[id]) \in [Ids -> SUBSET Ids]
    BY <1>t, RegisterType
  <2>6. deps' \in [Ids -> SUBSET Ids] /\ dependents' \in [Ids -> SUBSET Ids]
    BY <1>t, <2>1, <2>5
  <2>7. Cardinality({d \in deps[id] : id \in dependents[d]}) \in Nat
    BY <1>t, SizeOfIds
  <2>8. edges' \in Int
    BY <1>t, <2>1, <2>7
  <2>9. FramesKnown'
    BY <2>1, <2>3, OrphanType
  <2>10. QED
    BY <1>t, <2>c, <2>1, <2>3, <2>4, <2>6, <2>8, <2>9, TypeFromParts
<1>5. ASSUME NEW id \in Ids, CompleteTask(id)
      PROVE  TypeOK'
  <2> DEFINE st == [status EXCEPT ![id] = "COMPLETED"]
             promoted == Unblocked(st, id)
  <2>1. /\ status[id] # "NONE"
        /\ status' = Promote(st, promoted)
        /\ heap' = Dequeue(heap, id) \cup promoted
        /\ UNCHANGED <<deps, dependents, edges, frames, disposed>>
    BY <1>5 DEF CompleteTask
  <2>d. byStatus' = CountEach(CountStatusChange(byStatus, status[id], "COMPLETED"),
                             st, promoted, "READY")
    BY <1>5 DEF CompleteTask
  <2>2. /\ st \in [Ids -> Statuses \cup {"NONE"}]
        /\ \A i \in Ids : status[i] # "NONE" => st[i] # "NONE"
    BY <1>t DEF Statuses, Terminal
  <2> HIDE DEF st
  <2>3. /\ promoted \subseteq {i \in Ids : st[i] = "PENDING"}
        /\ status' \in [Ids -> Statuses \cup {"NONE"}]
        /\ \A i \in Ids : status'[i] = "NONE" <=> st[i] = "NONE"
    BY <1>t, <2>1, <2>2, PromoteType
  <2>4. heap' \subseteq {i \in Ids : status'[i] # "NONE"}
    BY <1>t, <2>1, <2>2, <2>3 DEF Dequeue
  <2>5. FramesKnown'
    BY <2>1, <2>2, <2>3, FramesStay
  <2>c. byStatus' \in [Statuses -> Int]
    <3>1. promoted \in SUBSET Ids
      BY <2>3
    <3> HIDE DEF promoted
    <3>2. QED
      BY <1>t, <2>d, <3>1, CountEachType, CountType
  <2>6. QED
    BY <1>t, <2>c, <2>1, <2>3, <2>4, <2>5, TypeFromParts
<1>6. ASSUME NEW id \in Ids, NEW how \in {"FAILED", "CANCELLED"}, Abandon(id, how)
      PROVE  TypeOK'
  <2> DEFINE st == [status EXCEPT ![id] = how]
  <2>1. /\ status' = Fail(st, Victims(st, dependents, id))
        /\ heap' = Dequeue(heap, id)
        /\ UNCHANGED <<deps, dependents, edges, frames, disposed>>
    BY <1>6 DEF Abandon
  <2>c. byStatus' \in [Statuses -> Int]
    <3> DEFINE ids == Victims(st, dependents, id)
    <3>1. byStatus' = CountEach(CountStatusChange(byStatus, status[id], how), st, ids, "FAILED")
      BY <1>6 DEF Abandon
    <3>2. ids \in SUBSET Ids
      BY VictimsType
    <3> HIDE DEF ids, st
    <3>3. QED
      BY <1>t, <3>1, <3>2, CountEachType, CountType
  <2>2. /\ st \in [Ids -> Statuses \cup {"NONE"}]
        /\ \A i \in Ids : status[i] # "NONE" => st[i] # "NONE"
    BY <1>t DEF Statuses, Terminal
  <2> HIDE DEF st
  <2>3. /\ status' \in [Ids -> Statuses \cup {"NONE"}]
        /\ \A i \in Ids : status'[i] = "NONE" <=> st[i] = "NONE"
    BY <2>1, <2>2, FailType
  <2>4. heap' \subseteq {i \in Ids : status'[i] # "NONE"}
    BY <1>t, <2>1, <2>2, <2>3 DEF Dequeue
  <2>5. FramesKnown'
    BY <2>1, <2>2, <2>3, FramesStay
  <2>6. QED
    BY <1>t, <2>c, <2>1, <2>3, <2>4, <2>5, TypeFromParts
<1>7. ASSUME NEW id \in heap, NEW dropped \in SUBSET heap, ClaimNext(id, dropped)
      PROVE  TypeOK'
  <2>1. /\ heap' = heap \ ({id} \cup dropped)
        /\ status' = [status EXCEPT ![id] = "RUNNING"]
        /\ byStatus' = CountStatusChange(byStatus, status[id], "RUNNING")
        /\ frames' = IF HasRunner THEN PushFrame(id) ELSE frames
        /\ UNCHANGED <<deps, dependents, edges, disposed>>
    BY <1>7 DEF ClaimNext
  <2>2. /\ id \in Ids
        /\ status' \in [Ids -> Statuses \cup {"NONE"}]
        /\ \A i \in Ids : status[i] # "NONE" => status'[i] # "NONE"
    BY <1>t, <2>1 DEF Statuses, Live
  <2>3. heap' \subseteq {i \in Ids : status'[i] # "NONE"}
    BY <1>t, <2>1, <2>2
  <2>4. FramesKnown'
    <3>1. CASE ~HasRunner
      BY <2>1, <2>2, <3>1, FramesStay
    <3>2. CASE HasRunner
      <4> DEFINE same == {k \in DOMAIN frames : frames[k].id = id /\ frames[k].orphan = "NONE"}
                 obj == IF same = {} THEN Len(frames) + 1
                                     ELSE frames[CHOOSE k \in same : TRUE].obj
                 new == [id |-> id, obj |-> obj, orphan |-> "NONE"]
      <4>1. /\ frames \in Seq(Frame) /\ Len(frames) \in Nat
            /\ DOMAIN frames = 1..Len(frames)
            /\ \A k \in DOMAIN frames : frames[k] \in Frame
        BY DEF TypeOK
      <4>2. frames' = Append(frames, new)
        BY <2>1, <3>2 DEF PushFrame
      <4>3. obj \in Nat
        <5>1. CASE same = {}
          BY <4>1, <5>1
        <5>2. CASE same # {}
          <6>1. (CHOOSE k \in same : TRUE) \in DOMAIN frames
            BY <5>2
          <6> DEFINE c == CHOOSE k \in same : TRUE
          <6>2. frames[c] \in Frame
            BY <4>1, <6>1
          <6> HIDE DEF c
          <6>3. frames[c].obj \in Nat
            BY <6>2 DEF Frame
          <6> USE DEF c
          <6>4. QED
            BY <5>2, <6>3
        <5>3. QED
          BY <5>1, <5>2
      <4> HIDE DEF obj
      <4>4. new \in Frame /\ new.id = id
        BY <2>2, <4>3 DEF Frame
      <4> HIDE DEF new
      <4>5. /\ frames' \in Seq(Frame) /\ DOMAIN frames' = 1..(Len(frames) + 1)
            /\ \A k \in DOMAIN frames : frames'[k] = frames[k]
            /\ frames'[Len(frames) + 1] = new
        BY <4>1, <4>2, <4>4
      <4>6. ASSUME NEW k \in DOMAIN frames', frames'[k].orphan = "NONE"
            PROVE  frames'[k].id \in Existing'
        <5>1. CASE k \in DOMAIN frames
          BY <2>2, <4>5, <4>6, <5>1 DEF TypeOK, Existing
        <5>2. CASE k = Len(frames) + 1
          BY <1>t, <2>1, <2>2, <4>4, <4>5, <5>2 DEF Existing
        <5>3. QED
          BY <4>1, <4>5, <5>1, <5>2
      <4>7. QED
        BY <4>5, <4>6 DEF FramesKnown
    <3>3. QED
      BY <3>1, <3>2
  <2>5. byStatus' \in [Statuses -> Int]
    BY <1>t, <2>1, CountType
  <2>6. QED
    BY <1>t, <2>1, <2>2, <2>3, <2>4, <2>5, TypeFromParts
<1>8. CASE FindNothing
  <2>1. /\ heap' \subseteq heap
        /\ UNCHANGED <<status, deps, dependents, byStatus, edges, frames, disposed>>
    BY <1>8 DEF FindNothing
  <2>2. FramesKnown'
    BY <2>1, FramesStay
  <2>3. QED
    BY <1>t, <2>1, <2>2, TypeFromParts
<1>9. CASE Clear \/ Dispose
  <2>1. ClearInternal /\ disposed' \in BOOLEAN
    BY <1>t, <1>9 DEF Clear, Dispose
  <2>2. /\ status' = [i \in Ids |-> "NONE"] /\ heap' = {} /\ edges' = 0
        /\ deps' = [i \in Ids |-> {}] /\ dependents' = [i \in Ids |-> {}]
        /\ byStatus' = [s \in Statuses |-> 0] /\ frames' = Orphan(Ids)
    BY <2>1 DEF ClearInternal
  <2>3. FramesKnown'
    BY <2>2, OrphanType
  <2>4. QED
    BY <2>1, <2>2, <2>3, TypeFromParts
<1>10. CASE RunSucceeds \/ RunFails
  <2>1. PICK outcome \in {"COMPLETED", "FAILED"} :
          /\ \/ RunSucceeds /\ outcome = "COMPLETED"
             \/ RunFails /\ outcome = "FAILED"
          /\ frames # <<>>
          /\ frames' = PopFrame(outcome)
          /\ UNCHANGED <<deps, dependents, edges, disposed>>
    BY <1>10 DEF RunSucceeds, RunFails
  <2>2. /\ frames \in Seq(Frame) /\ Len(frames) \in Nat /\ Len(frames) > 0
        /\ DOMAIN frames = 1..Len(frames)
        /\ \A k \in DOMAIN frames : frames[k] \in Frame
    BY <2>1 DEF TypeOK
  <2>3. Top.id \in Ids /\ (Top.orphan = "NONE" => Top.id \in Existing)
    BY <2>1, TopKnown
  <2> DEFINE st == Settled(outcome)
  <2>4. /\ st \in [Ids -> Statuses \cup {"NONE"}]
        /\ \A i \in Ids : st[i] = "NONE" <=> status[i] = "NONE"
    BY <1>t, <2>3 DEF Settled, Existing, Statuses, Terminal
  <2>5. \/ /\ status' = Promote(st, Unblocked(st, Top.id))
           /\ heap' = heap \cup Unblocked(st, Top.id)
        \/ /\ status' = IF st[Top.id] = "NONE" THEN st
                        ELSE Fail(st, Victims(st, dependents, Top.id))
           /\ heap' = heap
    BY <2>1 DEF RunSucceeds, RunFails
  <2> HIDE DEF st
  <2>6. /\ status' \in [Ids -> Statuses \cup {"NONE"}]
        /\ \A i \in Ids : status'[i] = "NONE" <=> status[i] = "NONE"
        /\ heap' \subseteq {i \in Ids : status'[i] # "NONE"}
    <3>1. CASE /\ status' = Promote(st, Unblocked(st, Top.id))
               /\ heap' = heap \cup Unblocked(st, Top.id)
      <4>1. /\ Unblocked(st, Top.id) \subseteq {i \in Ids : st[i] = "PENDING"}
            /\ status' \in [Ids -> Statuses \cup {"NONE"}]
            /\ \A i \in Ids : status'[i] = "NONE" <=> st[i] = "NONE"
        BY <1>t, <2>3, <2>4, <3>1, PromoteType
      <4>2. QED
        BY <1>t, <2>4, <3>1, <4>1
    <3>2. CASE /\ status' = IF st[Top.id] = "NONE" THEN st
                            ELSE Fail(st, Victims(st, dependents, Top.id))
               /\ heap' = heap
      <4>1. /\ status' \in [Ids -> Statuses \cup {"NONE"}]
            /\ \A i \in Ids : status'[i] = "NONE" <=> st[i] = "NONE"
        BY <2>4, <3>2, FailType
      <4>2. QED
        BY <1>t, <2>4, <3>2, <4>1
    <3>3. QED
      BY <2>5, <3>1, <3>2
  <2>7. byStatus' \in [Statuses -> Int]
    <3> USE DEF st
    <3>1. \/ byStatus' = CountOutcome(outcome)
          \/ byStatus' = CountEach(CountOutcome(outcome), st, Unblocked(st, Top.id), "READY")
          \/ byStatus' = CountEach(CountOutcome(outcome), st, Victims(st, dependents, Top.id), "FAILED")
      BY <2>1 DEF RunSucceeds, RunFails
    <3> HIDE DEF st
    <3>2. Unblocked(st, Top.id) \in SUBSET Ids
      BY <1>t, <2>3 DEF Unblocked
    <3>3. Victims(st, dependents, Top.id) \in SUBSET Ids
      BY VictimsType
    <3>4. CountOutcome(outcome) \in [Statuses -> Int]
      BY <1>t, CountType DEF CountOutcome
    <3>5. QED
      BY <3>1, <3>2, <3>3, <3>4, CountEachType
  <2>8. FramesKnown'
    <3>1. DOMAIN frames' = 1..(Len(frames) - 1)
      BY <2>1 DEF PopFrame
    <3>2. ASSUME NEW k \in 1..(Len(frames) - 1)
          PROVE  /\ frames'[k] \in Frame
                 /\ frames'[k].orphan = "NONE" => frames'[k].id \in Existing'
      <4>1. k \in DOMAIN frames /\ frames[k] \in Frame
        BY <2>2
      <4>2. /\ frames[k].id \in Ids /\ frames[k].obj \in Nat
            /\ frames[k].orphan = "NONE" => frames[k].id \in Existing
        BY <4>1 DEF Frame, TypeOK
      <4>3. CASE frames[k].obj = Top.obj /\ frames[k].orphan # "NONE"
        <5>1. frames'[k] = WithOrphan(frames[k], outcome)
          BY <2>1, <4>3 DEF PopFrame
        <5>2. QED
          BY <4>2, <5>1, <2>1 DEF WithOrphan, Frame, Statuses, Terminal
      <4>4. CASE ~(frames[k].obj = Top.obj /\ frames[k].orphan # "NONE")
        <5>1. frames'[k] = frames[k]
          BY <2>1, <4>4 DEF PopFrame
        <5>2. QED
          BY <2>6, <4>1, <4>2, <5>1 DEF Existing
      <4>5. QED
        BY <4>3, <4>4
    <3>3. frames' = [k \in 1..(Len(frames) - 1) |-> frames'[k]]
      BY <2>1 DEF PopFrame
    <3>4. frames' \in Seq(Frame)
      BY <2>2, <3>2, <3>3
    <3>5. QED
      BY <3>1, <3>2, <3>4 DEF FramesKnown
  <2>9. QED
    BY <1>t, <2>1, <2>6, <2>7, <2>8, TypeFromParts
<1>11. CASE UNCHANGED vars
  BY <1>11 DEF vars, TypeOK, Existing
<1>12. QED
  BY <1>1, <1>2, <1>3, <1>4, <1>5, <1>6, <1>7, <1>8, <1>9, <1>10, <1>11
  DEF Next, FailTask, CancelTask

\* The scheduler's state is well typed in every reachable state.
THEOREM TypeCorrect == Spec => []TypeOK
<1>1. Init => TypeOK
    BY TypeInit
<1>2. TypeOK /\ [Next]_vars => TypeOK'
    BY TypeStep
<1>3. QED
    BY <1>1, <1>2, PTL DEF Spec
-----------------------------------------------------------------------------
(* The dependency graph *)

\* The tasks in the map, but perhaps id, are those that were there.
SameTasksBut(id) == \A i \in Ids \ {id} : status'[i] = "NONE" <=> status[i] = "NONE"

SameTasks == \A i \in Ids : status'[i] = "NONE" <=> status[i] = "NONE"

\* What a step does to the graph: it gives one existing task validated
\* dependencies, removes one task with its edges, empties the graph, or leaves
\* it alone.
LEMMA GraphStep ==
    ASSUME TypeOK, Next
    PROVE  \/ \E id \in Ids, D \in SUBSET Ids :
                /\ ValidDeps(id, D) /\ SameTasksBut(id) /\ status'[id] # "NONE"
                /\ deps' = [deps EXCEPT ![id] = D]
                /\ \/ status[id] = "NONE" /\ dependents' = Register(dependents, id, D)
                   \/ dependents' = Register(Unregister(dependents, id, deps[id] \ D),
                                             id, D \ deps[id])
           \/ \E id \in Ids :
                /\ SameTasksBut(id)
                /\ deps' = [deps EXCEPT ![id] = {}]
                /\ dependents' = [Unregister(dependents, id, deps[id]) EXCEPT ![id] = {}]
           \/ deps' = [i \in Ids |-> {}] /\ dependents' = [i \in Ids |-> {}]
           \/ UNCHANGED <<deps, dependents>> /\ SameTasks
<1>t. /\ status \in [Ids -> Statuses \cup {"NONE"}]
      /\ deps \in [Ids -> SUBSET Ids] /\ dependents \in [Ids -> SUBSET Ids]
      /\ heap \subseteq {i \in Ids : status[i] # "NONE"}
    BY DEF TypeOK, Existing
<1>n. Live \subseteq Statuses /\ Terminal \subseteq Statuses /\ "NONE" \notin Statuses
    BY DEF Statuses, Live, Terminal
<1>1. ASSUME NEW id \in Ids, NEW D \in SUBSET Ids, AddTask(id, D)
      PROVE  SameTasksBut(id) /\ status'[id] # "NONE"
  <2> DEFINE created == Reconciled(status, "PENDING", D)
             st == [status EXCEPT ![id] = created]
  <2>1. created \in {"FAILED", "READY", "PENDING"}
    BY DEF Reconciled
  <2>2. status' = IF created = "FAILED" THEN Fail(st, Victims(st, dependents', id)) ELSE st
    BY <1>1 DEF AddTask
  <2>3. /\ st \in [Ids -> Statuses \cup {"NONE"}] /\ st[id] # "NONE"
        /\ \A i \in Ids \ {id} : st[i] = status[i]
    BY <1>t, <2>1 DEF Statuses, Live, Terminal
  <2> HIDE DEF created, st
  <2>4. \A i \in Ids : status'[i] = "NONE" <=> st[i] = "NONE"
    BY <2>2, <2>3, FailType
  <2>5. QED
    BY <2>3, <2>4 DEF SameTasksBut
<1>2. ASSUME NEW id \in Ids, NEW D \in SUBSET Ids, UpdateDeps(id, D)
      PROVE  SameTasksBut(id) /\ status'[id] # "NONE"
  <2>1. status[id] \in Live /\ ReconcileStatus(status, heap, byStatus, id)
    BY <1>2 DEF UpdateDeps
  <2>2. \A i \in Ids : status'[i] = "NONE" <=> status[i] = "NONE"
    BY <1>t, <2>1, ReconcileType
  <2>3. QED
    BY <1>n, <2>1, <2>2 DEF SameTasksBut
<1>3. ASSUME NEW id \in Ids, UpdateFields(id)
      PROVE  SameTasks
  <2>1. status[id] \in Live /\ ReconcileStatus(status, heap, byStatus, id)
    BY <1>3 DEF UpdateFields
  <2>2. QED
    BY <1>t, <2>1, ReconcileType DEF SameTasks
<1>4. ASSUME NEW id \in Ids, ResetTask(id)
      PROVE  SameTasks
  <2> DEFINE pending == [status EXCEPT ![id] = "PENDING"]
  <2>1. /\ status[id] \in Terminal
        /\ ReconcileStatus(pending, Dequeue(heap, id),
                           CountStatusChange(byStatus, status[id], "PENDING"), id)
    BY <1>4 DEF ResetTask
  <2>2. /\ pending \in [Ids -> Statuses \cup {"NONE"}] /\ pending[id] \in Live
        /\ \A i \in Ids : pending[i] = "NONE" <=> status[i] = "NONE"
    BY <1>t, <1>n, <2>1 DEF Statuses, Live
  <2>3. Dequeue(heap, id) \subseteq {i \in Ids : pending[i] # "NONE"}
    BY <1>t, <2>2 DEF Dequeue
  <2> HIDE DEF pending
  <2>4. QED
    BY <2>1, <2>2, <2>3, ReconcileType DEF SameTasks
<1>5. ASSUME NEW id \in Ids, DeleteTask(id)
      PROVE  SameTasksBut(id)
  <2>1. status' = [Fail(status, Victims(status, dependents, id)) EXCEPT ![id] = "NONE"]
    BY <1>5 DEF DeleteTask
  <2>2. QED
    BY <1>t, <2>1, FailType DEF SameTasksBut
<1>6. ASSUME NEW id \in Ids, CompleteTask(id)
      PROVE  SameTasks
  <2> DEFINE st == [status EXCEPT ![id] = "COMPLETED"]
  <2>1. status[id] # "NONE" /\ status' = Promote(st, Unblocked(st, id))
    BY <1>6 DEF CompleteTask
  <2>2. /\ st \in [Ids -> Statuses \cup {"NONE"}]
        /\ \A i \in Ids : status[i] = "NONE" <=> st[i] = "NONE"
    BY <1>t, <2>1 DEF Statuses, Terminal
  <2> HIDE DEF st
  <2>3. QED
    BY <1>t, <2>1, <2>2, PromoteType DEF SameTasks
<1>7. ASSUME NEW id \in Ids, NEW how \in {"FAILED", "CANCELLED"}, Abandon(id, how)
      PROVE  SameTasks
  <2> DEFINE st == [status EXCEPT ![id] = how]
  <2>1. status[id] \in Live /\ status' = Fail(st, Victims(st, dependents, id))
    BY <1>7 DEF Abandon
  <2>2. /\ st \in [Ids -> Statuses \cup {"NONE"}]
        /\ \A i \in Ids : status[i] = "NONE" <=> st[i] = "NONE"
    BY <1>t, <1>n, <2>1 DEF Statuses, Terminal
  <2> HIDE DEF st
  <2>3. QED
    BY <2>1, <2>2, FailType DEF SameTasks
<1>8. ASSUME NEW id \in heap, NEW dropped \in SUBSET heap, ClaimNext(id, dropped)
      PROVE  SameTasks
  BY <1>t, <1>8 DEF ClaimNext, SameTasks
<1>9. ASSUME RunSucceeds \/ RunFails
      PROVE  SameTasks
  <2>1. PICK outcome \in {"COMPLETED", "FAILED"} :
          LET st == Settled(outcome) IN
          \/ status' = Promote(st, Unblocked(st, Top.id))
          \/ status' = IF st[Top.id] = "NONE" THEN st
                       ELSE Fail(st, Victims(st, dependents, Top.id))
    BY <1>9 DEF RunSucceeds, RunFails
  <2> DEFINE st == Settled(outcome)
  <2>2. Top.id \in Ids /\ (Top.orphan = "NONE" => Top.id \in Existing)
    BY <1>9, TopKnown DEF RunSucceeds, RunFails
  <2>3. /\ st \in [Ids -> Statuses \cup {"NONE"}]
        /\ \A i \in Ids : st[i] = "NONE" <=> status[i] = "NONE"
    BY <1>t, <2>2 DEF Settled, Existing, Statuses, Terminal
  <2>4. \/ status' = Promote(st, Unblocked(st, Top.id))
        \/ status' = Fail(st, Victims(st, dependents, Top.id))
        \/ status' = st
    BY <2>1
  <2> HIDE DEF st
  <2>5. QED
    BY <1>t, <2>2, <2>3, <2>4, FailType, PromoteType DEF SameTasks
<1>10. CASE \E id \in Ids, D \in SUBSET Ids : AddTask(id, D)
  <2>1. PICK id \in Ids, D \in SUBSET Ids : AddTask(id, D)
    BY <1>10
  <2>2. /\ ValidDeps(id, D) /\ deps' = [deps EXCEPT ![id] = D] /\ status[id] = "NONE"
        /\ dependents' = Register(dependents, id, D)
    BY <2>1 DEF AddTask
  <2>3. QED
    BY <1>1, <2>1, <2>2
<1>11. CASE \E id \in Ids, D \in SUBSET Ids : UpdateDeps(id, D)
  <2>1. PICK id \in Ids, D \in SUBSET Ids : UpdateDeps(id, D)
    BY <1>11
  <2>2. /\ ValidDeps(id, D) /\ deps' = [deps EXCEPT ![id] = D]
        /\ dependents' = Register(Unregister(dependents, id, deps[id] \ D),
                                  id, D \ deps[id])
    BY <2>1 DEF UpdateDeps
  <2>3. QED
    BY <1>2, <2>1, <2>2
<1>12. CASE \E id \in Ids : DeleteTask(id)
  BY <1>5, <1>12 DEF DeleteTask
<1>13. CASE Clear \/ Dispose
  BY <1>13 DEF Clear, Dispose, ClearInternal
<1>14. CASE FindNothing
  BY <1>14 DEF FindNothing, SameTasks
<1>15. CASE \/ \E id \in Ids : \/ UpdateFields(id) \/ CompleteTask(id) \/ ResetTask(id)
                               \/ FailTask(id) \/ CancelTask(id)
            \/ \E id \in heap, dropped \in SUBSET heap : ClaimNext(id, dropped)
            \/ RunSucceeds \/ RunFails
  <2>1. SameTasks
    BY <1>3, <1>4, <1>6, <1>7, <1>8, <1>9, <1>15 DEF FailTask, CancelTask
  <2>2. UNCHANGED <<deps, dependents>>
    BY <1>15 DEF UpdateFields, CompleteTask, ResetTask, FailTask, CancelTask, Abandon,
                 ClaimNext, RunSucceeds, RunFails
  <2>3. QED
    BY <2>1, <2>2
<1>16. QED
  BY <1>10, <1>11, <1>12, <1>13, <1>14, <1>15 DEF Next

\* The edges of a removed task are gone; with it, Acyclic is inductive, because
\* a forward reference then points at a node without successors.
MissingHasNoDeps == \A i \in Ids : status[i] = "NONE" => deps[i] = {}

\* Validated dependencies do not reach the task that takes them.
LEMMA ValidDepsReach ==
    ASSUME TypeOK, MissingHasNoDeps, NEW id \in Ids, NEW D \in SUBSET Ids,
           ValidDeps(id, D), NEW d \in D
    PROVE  id \notin ReachableFrom(deps, {d})
<1>t. deps \in [Ids -> SUBSET Ids]
    BY DEF TypeOK
<1>1. CASE status[d] = "NONE"
  <2>1. deps[d] = {} /\ d # id
    BY <1>1 DEF MissingHasNoDeps, ValidDeps
  <2>2. ClosedUnder(deps, {d})
    BY <2>1 DEF ClosedUnder
  <2>3. ReachableFrom(deps, {d}) \subseteq {d}
    BY <1>t, <2>2, ReachLeast
  <2>4. QED
    BY <2>1, <2>3
<1>2. CASE status[d] # "NONE"
  BY <1>2 DEF ValidDeps, WouldCreateCycle
<1>3. QED
  BY <1>1, <1>2

GraphInv == Acyclic /\ MissingHasNoDeps /\ ReverseEdgesExist

\* Every step keeps the graph acyclic and its reverse index sound.
LEMMA GraphInvStep == TypeOK /\ GraphInv /\ [Next]_vars => GraphInv'
<1> SUFFICES ASSUME TypeOK, GraphInv, [Next]_vars PROVE GraphInv'
    OBVIOUS
<1>t. deps \in [Ids -> SUBSET Ids] /\ dependents \in [Ids -> SUBSET Ids]
    BY DEF TypeOK
<1>i. IsAcyclic(deps)
    BY DEF GraphInv, Acyclic
<1>1. CASE \E id \in Ids, D \in SUBSET Ids :
              /\ ValidDeps(id, D) /\ SameTasksBut(id) /\ status'[id] # "NONE"
              /\ deps' = [deps EXCEPT ![id] = D]
              /\ \/ status[id] = "NONE" /\ dependents' = Register(dependents, id, D)
                 \/ dependents' = Register(Unregister(dependents, id, deps[id] \ D),
                                           id, D \ deps[id])
  <2>1. PICK id \in Ids, D \in SUBSET Ids :
              /\ ValidDeps(id, D) /\ SameTasksBut(id) /\ status'[id] # "NONE"
              /\ deps' = [deps EXCEPT ![id] = D]
              /\ \/ status[id] = "NONE" /\ dependents' = Register(dependents, id, D)
                 \/ dependents' = Register(Unregister(dependents, id, deps[id] \ D),
                                           id, D \ deps[id])
    BY <1>1
  <2>2. \A d \in D : id \notin ReachableFrom(deps, {d})
    BY <2>1, ValidDepsReach DEF GraphInv
  <2>3. Acyclic'
    BY <1>t, <1>i, <2>1, <2>2, AcyclicUpdate DEF Acyclic
  <2>4. MissingHasNoDeps'
    BY <1>t, <2>1 DEF GraphInv, MissingHasNoDeps, SameTasksBut
  <2>5. ReverseEdgesExist'
    <3>1. \A d \in Ids : \A i \in dependents[d] : i \in Ids /\ d \in deps[i]
      BY <1>t DEF GraphInv, ReverseEdgesExist
    <3>2. CASE status[id] = "NONE" /\ dependents' = Register(dependents, id, D)
      <4>1. deps[id] = {}
        BY <3>2 DEF GraphInv, MissingHasNoDeps
      <4>2. QED
        BY <1>t, <2>1, <3>1, <3>2, <4>1 DEF ReverseEdgesExist, Register
    <3>3. CASE dependents' = Register(Unregister(dependents, id, deps[id] \ D),
                                      id, D \ deps[id])
      BY <1>t, <2>1, <3>1, <3>3 DEF ReverseEdgesExist, Register, Unregister
    <3>4. QED
      BY <2>1, <3>2, <3>3
  <2>6. QED
    BY <2>3, <2>4, <2>5 DEF GraphInv
<1>2. CASE \E id \in Ids :
              /\ SameTasksBut(id)
              /\ deps' = [deps EXCEPT ![id] = {}]
              /\ dependents' = [Unregister(dependents, id, deps[id]) EXCEPT ![id] = {}]
  <2>1. PICK id \in Ids :
              /\ SameTasksBut(id)
              /\ deps' = [deps EXCEPT ![id] = {}]
              /\ dependents' = [Unregister(dependents, id, deps[id]) EXCEPT ![id] = {}]
    BY <1>2
  <2>2. deps' \in [Ids -> SUBSET Ids] /\ \A n \in Ids : deps'[n] \subseteq deps[n]
    BY <1>t, <2>1
  <2>3. Acyclic'
    BY <1>t, <1>i, <2>2, AcyclicSubgraph DEF Acyclic
  <2>4. MissingHasNoDeps'
    BY <1>t, <2>1 DEF GraphInv, MissingHasNoDeps, SameTasksBut
  <2>5. ReverseEdgesExist'
    BY <1>t, <2>1 DEF GraphInv, ReverseEdgesExist, Unregister
  <2>6. QED
    BY <2>3, <2>4, <2>5 DEF GraphInv
<1>3. CASE deps' = [i \in Ids |-> {}] /\ dependents' = [i \in Ids |-> {}]
  <2>1. Acyclic'
    BY <1>3 DEF Acyclic, IsAcyclic
  <2>2. QED
    BY <1>3, <2>1 DEF GraphInv, MissingHasNoDeps, ReverseEdgesExist
<1>4. CASE UNCHANGED <<deps, dependents>> /\ SameTasks
  BY <1>4 DEF GraphInv, Acyclic, MissingHasNoDeps, ReverseEdgesExist, SameTasks
<1>5. CASE UNCHANGED vars
  BY <1>5 DEF vars, GraphInv, Acyclic, MissingHasNoDeps, ReverseEdgesExist
<1>6. QED
  BY <1>1, <1>2, <1>3, <1>4, <1>5, GraphStep

\* The graph starts empty.
LEMMA GraphInvInit == Init => GraphInv
  BY DEF Init, GraphInv, Acyclic, IsAcyclic, MissingHasNoDeps, ReverseEdgesExist

LEMMA GraphInvariant == Spec => []GraphInv
<1>1. Init => GraphInv
    BY GraphInvInit
<1>2. TypeOK /\ GraphInv /\ [Next]_vars => GraphInv'
    BY GraphInvStep
<1>3. QED
    BY <1>1, <1>2, TypeCorrect, PTL DEF Spec

\* No sequence of calls plants a dependency cycle, forward references and edges
\* to deleted tasks included: what hasCycle audits is always absent.
THEOREM NeverCyclic == Spec => []Acyclic
<1>1. GraphInv => Acyclic
    BY DEF GraphInv
<1>2. QED
    BY <1>1, GraphInvariant, PTL

\* The reverse index holds only edges that exist, so that an unblock or a failure
\* only ever reaches tasks that depend on its origin.
THEOREM ReverseEdgesSound == Spec => []ReverseEdgesExist
<1>1. GraphInv => ReverseEdgesExist
    BY DEF GraphInv
<1>2. QED
    BY <1>1, GraphInvariant, PTL
-----------------------------------------------------------------------------
(* The heap *)

\* The heap entries h suit the statuses st: every READY task has one, and only
\* READY and terminal tasks do.
HeapFits(st, h) ==
    /\ \A i \in Ids : st[i] = "READY" => i \in h
    /\ \A i \in h : st[i] \in {"READY"} \cup Terminal

HeapInv == HeapFits(status, heap)

\* A propagated failure leaves stale entries and nothing worse.
LEMMA FailFits ==
    ASSUME NEW st \in [Ids -> Statuses \cup {"NONE"}], NEW h \in SUBSET Ids,
           HeapFits(st, h), NEW rev, NEW origin
    PROVE  HeapFits(Fail(st, Victims(st, rev, origin)), h)
  BY DEF HeapFits, Fail, Terminal

\* What an unblock promotes is pushed.
LEMMA PromoteFits ==
    ASSUME NEW st \in [Ids -> Statuses \cup {"NONE"}], NEW h \in SUBSET Ids,
           HeapFits(st, h), NEW promoted \in SUBSET Ids
    PROVE  HeapFits(Promote(st, promoted), h \cup promoted)
  BY DEF HeapFits, Promote

\* _reconcileStatus moves the task and its entry together.
LEMMA ReconcileFits ==
    ASSUME NEW st \in [Ids -> Statuses \cup {"NONE"}], NEW id \in Ids, st[id] \in Live,
           NEW h \in SUBSET Ids, HeapFits(st, h), NEW c, ReconcileStatus(st, h, c, id)
    PROVE  HeapFits(status', heap')
<1> DEFINE new == Reconciled(st, st[id], deps'[id])
           st1 == [st EXCEPT ![id] = new]
<1>1. new \in {"FAILED", "READY", "PENDING", "RUNNING"}
      /\ (new # st[id] => new \in {"FAILED", "READY", "PENDING"})
    BY DEF Reconciled, Live
<1>2. /\ status' = IF new = "FAILED" THEN Fail(st1, Victims(st1, dependents', id)) ELSE st1
      /\ heap' = IF new = st[id] THEN h
                 ELSE IF new = "READY" THEN h \cup {id} ELSE Dequeue(h, id)
    BY DEF ReconcileStatus
<1> HIDE DEF new
<1>3. heap' \in SUBSET Ids /\ st1 \in [Ids -> Statuses \cup {"NONE"}]
    BY <1>1, <1>2 DEF Dequeue, Statuses, Live, Terminal
<1>4. HeapFits(st1, heap')
  <2>1. CASE new = st[id]
    BY <1>2, <2>1 DEF HeapFits
  <2>2. CASE new # st[id] /\ new = "READY"
    BY <1>2, <2>2 DEF HeapFits
  <2>3. CASE new # st[id] /\ new # "READY"
    BY <1>2, <2>3 DEF HeapFits, Dequeue
  <2>4. QED
    BY <2>1, <2>2, <2>3
<1> HIDE DEF st1
<1>5. QED
    BY <1>2, <1>3, <1>4, FailFits

\* Every step keeps the heap fitting.
LEMMA HeapInvStep == TypeOK /\ HeapInv /\ [Next]_vars => HeapInv'
<1> SUFFICES ASSUME TypeOK, HeapInv, [Next]_vars PROVE HeapFits(status', heap')
    BY DEF HeapInv
<1>t. /\ status \in [Ids -> Statuses \cup {"NONE"}]
      /\ dependents \in [Ids -> SUBSET Ids]
      /\ heap \in SUBSET Ids /\ HeapFits(status, heap)
    BY DEF TypeOK, Existing, HeapInv
<1>1. ASSUME NEW id \in Ids, NEW D \in SUBSET Ids, AddTask(id, D)
      PROVE  HeapFits(status', heap')
  <2> DEFINE created == Reconciled(status, "PENDING", D)
             st == [status EXCEPT ![id] = created]
  <2>1. created \in {"FAILED", "READY", "PENDING"}
    BY DEF Reconciled
  <2>2. /\ status' = IF created = "FAILED" THEN Fail(st, Victims(st, dependents', id)) ELSE st
        /\ heap' = IF created = "READY" THEN heap \cup {id} ELSE heap
        /\ status[id] = "NONE"
    BY <1>1 DEF AddTask
  <2> HIDE DEF created
  <2>3. st \in [Ids -> Statuses \cup {"NONE"}] /\ heap' \in SUBSET Ids
    BY <1>t, <2>1, <2>2 DEF Statuses, Live, Terminal
  <2>4. id \notin heap
    BY <1>t, <2>2 DEF HeapFits, Terminal
  <2>5. HeapFits(st, heap')
    BY <1>t, <2>1, <2>2, <2>4 DEF HeapFits
  <2> HIDE DEF st
  <2>6. QED
    BY <2>2, <2>3, <2>5, FailFits
<1>2. ASSUME NEW id \in Ids, NEW D \in SUBSET Ids, UpdateDeps(id, D)
      PROVE  HeapFits(status', heap')
  <2>1. status[id] \in Live /\ ReconcileStatus(status, heap, byStatus, id)
    BY <1>2 DEF UpdateDeps
  <2>2. QED
    BY <1>t, <2>1, ReconcileFits
<1>3. ASSUME NEW id \in Ids, UpdateFields(id)
      PROVE  HeapFits(status', heap')
  <2>1. status[id] \in Live /\ ReconcileStatus(status, heap, byStatus, id)
    BY <1>3 DEF UpdateFields
  <2>2. QED
    BY <1>t, <2>1, ReconcileFits
<1>4. ASSUME NEW id \in Ids, ResetTask(id)
      PROVE  HeapFits(status', heap')
  <2> DEFINE pending == [status EXCEPT ![id] = "PENDING"]
             h == Dequeue(heap, id)
  <2>1. ReconcileStatus(pending, h, CountStatusChange(byStatus, status[id], "PENDING"), id)
    BY <1>4 DEF ResetTask
  <2>2. /\ pending \in [Ids -> Statuses \cup {"NONE"}] /\ pending[id] \in Live
        /\ h \in SUBSET Ids
    BY <1>t DEF Statuses, Live, Dequeue
  <2>3. HeapFits(pending, h)
    BY <1>t DEF HeapFits, Dequeue
  <2> HIDE DEF pending, h
  <2>4. QED
    BY <2>1, <2>2, <2>3, ReconcileFits
<1>5. ASSUME NEW id \in Ids, DeleteTask(id)
      PROVE  HeapFits(status', heap')
  <2> DEFINE failed == Fail(status, Victims(status, dependents, id))
  <2>1. status' = [failed EXCEPT ![id] = "NONE"] /\ heap' = Dequeue(heap, id)
    BY <1>5 DEF DeleteTask
  <2>2. failed \in [Ids -> Statuses \cup {"NONE"}] /\ HeapFits(failed, heap)
    BY <1>t, FailType, FailFits
  <2> HIDE DEF failed
  <2>3. QED
    BY <1>t, <2>1, <2>2 DEF HeapFits, Dequeue
<1>6. ASSUME NEW id \in Ids, CompleteTask(id)
      PROVE  HeapFits(status', heap')
  <2> DEFINE st == [status EXCEPT ![id] = "COMPLETED"]
             h == Dequeue(heap, id)
  <2>1. /\ status' = Promote(st, Unblocked(st, id))
        /\ heap' = h \cup Unblocked(st, id)
    BY <1>6 DEF CompleteTask
  <2>2. st \in [Ids -> Statuses \cup {"NONE"}] /\ h \in SUBSET Ids /\ HeapFits(st, h)
    BY <1>t DEF HeapFits, Dequeue, Statuses, Terminal
  <2> HIDE DEF st, h
  <2>3. Unblocked(st, id) \in SUBSET Ids
    BY <1>t DEF Unblocked
  <2>4. QED
    BY <2>1, <2>2, <2>3, PromoteFits
<1>7. ASSUME NEW id \in Ids, NEW how \in {"FAILED", "CANCELLED"}, Abandon(id, how)
      PROVE  HeapFits(status', heap')
  <2> DEFINE st == [status EXCEPT ![id] = how]
             h == Dequeue(heap, id)
  <2>1. status' = Fail(st, Victims(st, dependents, id)) /\ heap' = h
    BY <1>7 DEF Abandon
  <2>2. st \in [Ids -> Statuses \cup {"NONE"}] /\ h \in SUBSET Ids /\ HeapFits(st, h)
    BY <1>t DEF HeapFits, Dequeue, Statuses, Terminal
  <2> HIDE DEF st, h
  <2>3. QED
    BY <2>1, <2>2, FailFits
<1>8. ASSUME NEW id \in heap, NEW dropped \in SUBSET heap, ClaimNext(id, dropped)
      PROVE  HeapFits(status', heap')
  <2>1. /\ heap' = heap \ ({id} \cup dropped)
        /\ status' = [status EXCEPT ![id] = "RUNNING"]
        /\ \A i \in dropped : status[i] # "READY"
    BY <1>8 DEF ClaimNext, Stale
  <2>2. QED
    BY <1>t, <2>1 DEF HeapFits
<1>9. CASE FindNothing
  BY <1>t, <1>9 DEF FindNothing, Stale, HeapFits
<1>10. CASE Clear \/ Dispose
  BY <1>10 DEF Clear, Dispose, ClearInternal, HeapFits
<1>11. CASE RunSucceeds
  <2> DEFINE st == Settled("COMPLETED")
  <2>1. /\ frames # <<>> /\ status' = Promote(st, Unblocked(st, Top.id))
        /\ heap' = heap \cup Unblocked(st, Top.id)
    BY <1>11 DEF RunSucceeds
  <2>2. st \in [Ids -> Statuses \cup {"NONE"}] /\ HeapFits(st, heap)
    BY <1>t DEF Settled, HeapFits, Statuses, Terminal
  <2> HIDE DEF st
  <2>3. Unblocked(st, Top.id) \in SUBSET Ids
    BY <1>t, <2>1, TopKnown DEF Unblocked
  <2>4. QED
    BY <1>t, <2>1, <2>2, <2>3, PromoteFits
<1>12. CASE RunFails
  <2> DEFINE st == Settled("FAILED")
  <2>1. /\ \/ status' = st
           \/ status' = Fail(st, Victims(st, dependents, Top.id))
        /\ heap' = heap
    BY <1>12 DEF RunFails
  <2>2. st \in [Ids -> Statuses \cup {"NONE"}] /\ HeapFits(st, heap)
    BY <1>t DEF Settled, HeapFits, Statuses, Terminal
  <2> HIDE DEF st
  <2>3. QED
    BY <1>t, <2>1, <2>2, FailFits
<1>13. CASE UNCHANGED vars
  BY <1>t, <1>13 DEF vars
<1>14. QED
  BY <1>1, <1>2, <1>3, <1>4, <1>5, <1>6, <1>7, <1>8, <1>9, <1>10, <1>11, <1>12, <1>13
  DEF Next, FailTask, CancelTask

LEMMA HeapInvariant == Spec => []HeapInv
<1>1. Init => HeapInv
    BY DEF Init, HeapInv, HeapFits
<1>2. TypeOK /\ HeapInv /\ [Next]_vars => HeapInv'
    BY HeapInvStep
<1>3. QED
    BY <1>1, <1>2, TypeCorrect, PTL DEF Spec

\* executeNextTask can always find every READY task: none is lost from the heap.
THEOREM NoReadyTaskLost == Spec => []ReadyIsQueued
<1>1. HeapInv => ReadyIsQueued
    BY DEF HeapInv, HeapFits, ReadyIsQueued
<1>2. QED
    BY <1>1, HeapInvariant, PTL

\* No blocked and no running task is left in the heap.
THEOREM HeapEntriesFit == Spec => []QueuedIsReadyOrOver
<1>1. HeapInv => QueuedIsReadyOrOver
    BY DEF HeapInv, HeapFits, QueuedIsReadyOrOver
<1>2. QED
    BY <1>1, HeapInvariant, PTL
-----------------------------------------------------------------------------
(* Failure propagation *)

\* In the reverse index rev, no live task waits for a FAILED or CANCELLED one,
\* except perhaps for origin.
ContagiousBut(st, rev, origin) ==
    \A d \in Ids \ {origin} : \A i \in rev[d] :
        st[d] \in {"FAILED", "CANCELLED"} => st[i] \notin Live

Contagious(st, rev) ==
    \A d \in Ids : \A i \in rev[d] : st[d] \in {"FAILED", "CANCELLED"} => st[i] \notin Live

ContagionInv == Contagious(status, dependents)

\* The walk of _propagateFailure does not come back to where it started, since
\* every task it visits depends on one visited before.
LEMMA WalkAvoidsOrigin ==
    ASSUME NEW st, NEW rev \in [Ids -> SUBSET Ids], NEW dp \in [Ids -> SUBSET Ids],
           NEW origin \in Ids, IsAcyclic(dp),
           \A d \in Ids : \A i \in rev[d] : d \in dp[i]
    PROVE  origin \notin ReachableFrom(Onward(st, rev), rev[origin])
<1> DEFINE succ == Onward(st, rev)
           R == ReachableFrom(succ, rev[origin])
           W == {n \in R : \E m \in R \cup {origin} : n \in rev[m]}
<1>1. succ \in [Ids -> SUBSET Ids] /\ \A n \in Ids : succ[n] \subseteq rev[n]
    BY DEF Onward
<1> HIDE DEF succ
<1>2. R \subseteq Ids /\ rev[origin] \subseteq R /\ ClosedUnder(succ, R)
    BY <1>1, ReachType, ReachContains, ReachClosed
<1> HIDE DEF R
<1>3. rev[origin] \subseteq W /\ W \in SUBSET Ids
    BY <1>2
<1>4. ClosedUnder(succ, W)
    BY <1>1, <1>2 DEF ClosedUnder
<1>5. R \subseteq W
    BY <1>1, <1>3, <1>4, ReachLeast DEF R
<1>6. SUFFICES ASSUME origin \in R PROVE FALSE
    BY DEF R, succ
<1>7. \A n \in R : dp[n] \cap R # {}
    BY <1>2, <1>5, <1>6
<1>8. R # {} /\ R \in SUBSET DOMAIN dp
    BY <1>2, <1>6
<1>9. QED
    BY <1>7, <1>8 DEF IsAcyclic

\* After the walk from a task that has failed, nothing live waits for it or for
\* anything it took along.
LEMMA FailContagious ==
    ASSUME NEW st \in [Ids -> Statuses \cup {"NONE"}],
           NEW rev \in [Ids -> SUBSET Ids], NEW dp \in [Ids -> SUBSET Ids],
           NEW origin \in Ids, IsAcyclic(dp),
           \A d \in Ids : \A i \in rev[d] : d \in dp[i],
           ContagiousBut(st, rev, origin)
    PROVE  Contagious(Fail(st, Victims(st, rev, origin)), rev)
<1> DEFINE succ == Onward(st, rev)
           R == ReachableFrom(succ, rev[origin])
           V == Victims(st, rev, origin)
           new == Fail(st, V)
<1>1. origin \notin R
    BY WalkAvoidsOrigin
<1>2. succ \in [Ids -> SUBSET Ids]
      /\ \A n \in Ids : st[n] \in Live => succ[n] = rev[n]
    BY DEF Onward, Live
<1>3. V = {n \in R : st[n] \in Live}
    BY <1>1 DEF Victims
<1> HIDE DEF succ
<1>4. R \subseteq Ids /\ rev[origin] \subseteq R /\ ClosedUnder(succ, R)
    BY <1>2, ReachType, ReachContains, ReachClosed
<1> HIDE DEF R, V
<1>5. \A i \in Ids : new[i] = IF i \in V THEN "FAILED" ELSE st[i]
    BY DEF Fail
<1> HIDE DEF new
<1>6. SUFFICES ASSUME NEW d \in Ids, NEW i \in rev[d], new[d] \in {"FAILED", "CANCELLED"},
                      new[i] \in Live
               PROVE  FALSE
    BY DEF Contagious, new, V
<1>7. i \in Ids /\ i \notin V /\ st[i] \in Live /\ i \notin R
    BY <1>3, <1>5, <1>6 DEF Live
<1>8. CASE d = origin
    BY <1>4, <1>7, <1>8
<1>9. CASE d # origin /\ d \in V
    BY <1>2, <1>3, <1>4, <1>7, <1>9 DEF ClosedUnder
<1>10. CASE d # origin /\ d \notin V
    BY <1>5, <1>6, <1>7, <1>10 DEF ContagiousBut
<1>11. QED
    BY <1>8, <1>9, <1>10

\* Reconciling a task that may be live behind a failed one repairs that.
LEMMA ReconcileContagious ==
    ASSUME NEW st \in [Ids -> Statuses \cup {"NONE"}], NEW id \in Ids, st[id] \in Live,
           NEW h, NEW c, ReconcileStatus(st, h, c, id),
           deps' \in [Ids -> SUBSET Ids], dependents' \in [Ids -> SUBSET Ids],
           IsAcyclic(deps'), \A d \in Ids : \A i \in dependents'[d] : d \in deps'[i],
           \A d \in Ids : \A i \in dependents'[d] \ {id} :
               st[d] \in {"FAILED", "CANCELLED"} => st[i] \notin Live
    PROVE  Contagious(status', dependents')
<1> DEFINE new == Reconciled(st, st[id], deps'[id])
           st1 == [st EXCEPT ![id] = new]
<1>1. /\ new \in {"FAILED", "READY", "PENDING", "RUNNING"}
      /\ new # "FAILED" => ~HasFailedDep(st, deps'[id])
    BY DEF Reconciled, Live
<1>2. status' = IF new = "FAILED" THEN Fail(st1, Victims(st1, dependents', id)) ELSE st1
    BY DEF ReconcileStatus
<1> HIDE DEF new
<1>3. st1 \in [Ids -> Statuses \cup {"NONE"}]
    BY <1>1 DEF Statuses, Live, Terminal
<1>4. CASE new = "FAILED"
  <2>1. ContagiousBut(st1, dependents', id)
    BY <1>4 DEF ContagiousBut, Live
  <2> HIDE DEF st1
  <2>2. QED
    BY <1>2, <1>3, <1>4, <2>1, FailContagious
<1>5. CASE new # "FAILED"
  <2>1. \A d \in Ids : id \in dependents'[d] => st[d] \notin {"FAILED", "CANCELLED"}
    BY <1>1, <1>5 DEF HasFailedDep
  <2>2. Contagious(st1, dependents')
    BY <1>1, <1>5, <2>1 DEF Contagious, Live
  <2>3. QED
    BY <1>2, <1>5, <2>2
<1>6. QED
  BY <1>4, <1>5

\* Every step keeps failure contagious.
LEMMA ContagionStep ==
    ASSUME TypeOK, TypeOK', GraphInv, GraphInv', ContagionInv, [Next]_vars
    PROVE  Contagious(status', dependents')
<1>t. /\ status \in [Ids -> Statuses \cup {"NONE"}]
      /\ deps \in [Ids -> SUBSET Ids] /\ dependents \in [Ids -> SUBSET Ids]
      /\ deps' \in [Ids -> SUBSET Ids] /\ dependents' \in [Ids -> SUBSET Ids]
    BY DEF TypeOK
<1>g. /\ IsAcyclic(deps) /\ \A d \in Ids : \A i \in dependents[d] : d \in deps[i]
      /\ IsAcyclic(deps') /\ \A d \in Ids : \A i \in dependents'[d] : d \in deps'[i]
      /\ \A i \in Ids : status[i] = "NONE" => deps[i] = {}
      /\ Contagious(status, dependents)
    BY DEF GraphInv, Acyclic, ReverseEdgesExist, MissingHasNoDeps, ContagionInv
<1>1. ASSUME NEW id \in Ids, NEW D \in SUBSET Ids, AddTask(id, D)
      PROVE  Contagious(status', dependents')
  <2> DEFINE created == Reconciled(status, "PENDING", D)
             st == [status EXCEPT ![id] = created]
  <2>1. /\ created \in {"FAILED", "READY", "PENDING"}
        /\ created # "FAILED" => ~HasFailedDep(status, D)
    BY DEF Reconciled
  <2>2. /\ status' = IF created = "FAILED" THEN Fail(st, Victims(st, dependents', id)) ELSE st
        /\ status[id] = "NONE" /\ deps' = [deps EXCEPT ![id] = D]
        /\ dependents' = Register(dependents, id, D)
    BY <1>1 DEF AddTask
  <2> HIDE DEF created
  <2>3. st \in [Ids -> Statuses \cup {"NONE"}]
    BY <1>t, <2>1 DEF Statuses, Live, Terminal
  <2>4. \A d \in Ids : \A i \in dependents'[d] \ {id} : i \in dependents[d]
    BY <1>t, <2>2 DEF Register
  <2>5. CASE created = "FAILED"
    <3>1. ContagiousBut(st, dependents', id)
      BY <1>t, <1>g, <2>4, <2>5 DEF ContagiousBut, Contagious, Live
    <3> HIDE DEF st
    <3>2. Contagious(Fail(st, Victims(st, dependents', id)), dependents')
      BY <1>t, <1>g, <2>3, <3>1, FailContagious
    <3>3. QED
      BY <2>2, <2>5, <3>2
  <2>6. CASE created # "FAILED"
    <3>1. \A d \in Ids : id \in dependents'[d] =>
             d # id /\ status[d] \notin {"FAILED", "CANCELLED"}
      <4>1. \A d \in Ids : id \in dependents'[d] => d \in D
        BY <1>t, <1>g, <2>2
      <4>2. id \notin D
        BY <1>1 DEF AddTask, ValidDeps
      <4>3. QED
        BY <2>1, <2>6, <4>1, <4>2 DEF HasFailedDep
    <3>2. Contagious(st, dependents')
      BY <1>t, <1>g, <2>1, <2>4, <2>6, <3>1 DEF Contagious
    <3>3. QED
      BY <2>2, <2>6, <3>2
  <2>7. QED
    BY <2>5, <2>6
<1>2. ASSUME NEW id \in Ids, NEW D \in SUBSET Ids, UpdateDeps(id, D)
      PROVE  Contagious(status', dependents')
  <2>1. /\ status[id] \in Live /\ ReconcileStatus(status, heap, byStatus, id)
        /\ dependents' = Register(Unregister(dependents, id, deps[id] \ D), id, D \ deps[id])
    BY <1>2 DEF UpdateDeps
  <2>2. \A d \in Ids : \A i \in dependents'[d] \ {id} : i \in dependents[d]
    BY <1>t, <2>1 DEF Register, Unregister
  <2>3. \A d \in Ids : \A i \in dependents'[d] \ {id} :
            status[d] \in {"FAILED", "CANCELLED"} => status[i] \notin Live
    BY <1>g, <2>2 DEF Contagious
  <2>4. QED
    BY <1>t, <1>g, <2>1, <2>3, ReconcileContagious
<1>3. ASSUME NEW id \in Ids, UpdateFields(id)
      PROVE  Contagious(status', dependents')
  <2>1. /\ status[id] \in Live /\ ReconcileStatus(status, heap, byStatus, id)
        /\ UNCHANGED <<deps, dependents>>
    BY <1>3 DEF UpdateFields
  <2>2. \A d \in Ids : \A i \in dependents'[d] \ {id} :
            status[d] \in {"FAILED", "CANCELLED"} => status[i] \notin Live
    BY <1>g, <2>1 DEF Contagious
  <2>3. QED
    BY <1>t, <1>g, <2>1, <2>2, ReconcileContagious
<1>4. ASSUME NEW id \in Ids, ResetTask(id)
      PROVE  Contagious(status', dependents')
  <2> DEFINE pending == [status EXCEPT ![id] = "PENDING"]
             h == Dequeue(heap, id)
  <2>1. /\ ReconcileStatus(pending, h, CountStatusChange(byStatus, status[id], "PENDING"), id)
        /\ UNCHANGED <<deps, dependents>>
    BY <1>4 DEF ResetTask
  <2>2. pending \in [Ids -> Statuses \cup {"NONE"}] /\ pending[id] \in Live
    BY <1>t DEF Statuses, Live
  <2>3. \A d \in Ids : \A i \in dependents'[d] \ {id} :
            pending[d] \in {"FAILED", "CANCELLED"} => pending[i] \notin Live
    BY <1>t, <1>g, <2>1 DEF Contagious
  <2> HIDE DEF pending, h
  <2>4. QED
    BY <1>t, <1>g, <2>1, <2>2, <2>3, ReconcileContagious
<1>5. ASSUME NEW id \in Ids, DeleteTask(id)
      PROVE  Contagious(status', dependents')
  <2> DEFINE failed == Fail(status, Victims(status, dependents, id))
  <2>1. /\ status' = [failed EXCEPT ![id] = "NONE"]
        /\ dependents' = [Unregister(dependents, id, deps[id]) EXCEPT ![id] = {}]
    BY <1>5 DEF DeleteTask
  <2>2. ContagiousBut(status, dependents, id)
    BY <1>g DEF ContagiousBut, Contagious
  <2>3. Contagious(failed, dependents)
    BY <1>t, <1>g, <2>2, FailContagious
  <2>4. failed \in [Ids -> Statuses \cup {"NONE"}]
    BY <1>t, FailType
  <2> HIDE DEF failed
  <2>5. \A d \in Ids : dependents'[d] \subseteq dependents[d]
    BY <1>t, <2>1 DEF Unregister
  <2>6. QED
    BY <1>t, <2>1, <2>3, <2>4, <2>5 DEF Contagious, Live
<1>6. ASSUME NEW id \in Ids, CompleteTask(id)
      PROVE  Contagious(status', dependents')
  <2> DEFINE st == [status EXCEPT ![id] = "COMPLETED"]
  <2>1. status' = Promote(st, Unblocked(st, id)) /\ UNCHANGED dependents
    BY <1>6 DEF CompleteTask
  <2>2. \A j \in Unblocked(st, id) : st[j] = "PENDING"
    BY DEF Unblocked
  <2>3. Contagious(st, dependents)
    BY <1>t, <1>g DEF Contagious, Live
  <2> HIDE DEF st
  <2>4. QED
    BY <1>t, <2>1, <2>2, <2>3 DEF Contagious, Promote, Live
<1>7. ASSUME NEW id \in Ids, NEW how \in {"FAILED", "CANCELLED"}, Abandon(id, how)
      PROVE  Contagious(status', dependents')
  <2> DEFINE st == [status EXCEPT ![id] = how]
  <2>1. status' = Fail(st, Victims(st, dependents, id)) /\ UNCHANGED dependents
    BY <1>7 DEF Abandon
  <2>2. st \in [Ids -> Statuses \cup {"NONE"}] /\ ContagiousBut(st, dependents, id)
    BY <1>t, <1>g DEF ContagiousBut, Contagious, Statuses, Terminal, Live
  <2> HIDE DEF st
  <2>3. QED
    BY <1>t, <1>g, <2>1, <2>2, FailContagious
<1>8. ASSUME NEW id \in heap, NEW dropped \in SUBSET heap, ClaimNext(id, dropped)
      PROVE  Contagious(status', dependents')
  <2>1. /\ status[id] = "READY" /\ status' = [status EXCEPT ![id] = "RUNNING"]
        /\ UNCHANGED dependents
    BY <1>8 DEF ClaimNext, Executable
  <2>2. QED
    BY <1>t, <1>g, <2>1 DEF Contagious, Live
<1>9. CASE FindNothing \/ UNCHANGED vars
  BY <1>g, <1>9 DEF FindNothing, vars
<1>10. CASE Clear \/ Dispose
  BY <1>10 DEF Clear, Dispose, ClearInternal, Contagious
<1>11. CASE RunSucceeds
  <2> DEFINE st == Settled("COMPLETED")
  <2>1. /\ status' = Promote(st, Unblocked(st, Top.id)) /\ UNCHANGED dependents
        /\ frames # <<>>
    BY <1>11 DEF RunSucceeds
  <2>2. \A j \in Unblocked(st, Top.id) : st[j] = "PENDING"
    BY DEF Unblocked
  <2>3. Contagious(st, dependents) /\ st \in [Ids -> Statuses \cup {"NONE"}]
    BY <1>t, <1>g DEF Contagious, Settled, Live, Statuses, Terminal
  <2> HIDE DEF st
  <2>4. QED
    BY <1>t, <2>1, <2>2, <2>3 DEF Contagious, Promote, Live
<1>12. CASE RunFails
  <2> DEFINE st == Settled("FAILED")
  <2>1. /\ status' = IF st[Top.id] = "NONE" THEN st
                     ELSE Fail(st, Victims(st, dependents, Top.id))
        /\ UNCHANGED dependents /\ frames # <<>>
    BY <1>12 DEF RunFails
  <2>2. Top.id \in Ids /\ (Top.orphan = "NONE" => Top.id \in Existing)
    BY <2>1, TopKnown
  <2>3. /\ st \in [Ids -> Statuses \cup {"NONE"}]
        /\ ContagiousBut(st, dependents, Top.id)
    BY <1>t, <1>g, <2>2 DEF ContagiousBut, Contagious, Settled, Live, Statuses, Terminal
  <2>4. CASE st[Top.id] = "NONE"
    <3>1. st = status
      BY <1>t, <2>2, <2>4 DEF Settled
    <3>2. QED
      BY <1>g, <2>1, <2>4, <3>1
  <2>5. CASE st[Top.id] # "NONE"
    <3> HIDE DEF st
    <3>1. QED
      BY <1>t, <1>g, <2>1, <2>2, <2>3, <2>5, FailContagious
  <2>6. QED
    BY <2>4, <2>5
<1>13. QED
  BY <1>1, <1>2, <1>3, <1>4, <1>5, <1>6, <1>7, <1>8, <1>9, <1>10, <1>11, <1>12
  DEF Next, FailTask, CancelTask

LEMMA ContagionInvariant == Spec => []ContagionInv
<1>1. Init => ContagionInv
    BY DEF Init, ContagionInv, Contagious
<1>2. TypeOK /\ TypeOK' /\ GraphInv /\ GraphInv' /\ ContagionInv /\ [Next]_vars
      => ContagionInv'
    BY ContagionStep DEF ContagionInv
<1>3. QED
    BY <1>1, <1>2, TypeCorrect, GraphInvariant, PTL DEF Spec

\* Failure is contagious whatever is reset, deleted or re-added: no live task waits
\* for a FAILED or CANCELLED one that has it in the reverse index.
THEOREM FailureContagious == Spec => []NoLiveBehindFailed
<1>1. ContagionInv => NoLiveBehindFailed
    BY DEF ContagionInv, Contagious, NoLiveBehindFailed, Linked
<1>2. QED
    BY <1>1, ContagionInvariant, PTL

-----------------------------------------------------------------------------
(* Validation *)

\* _validateDeps accepts exactly the dependency sets that close no cycle, although
\* it looks at one edge at a time, at the graph before the update, and not at all
\* at ids that do not exist yet.
THEOREM ValidationExact == Spec => []ValidationIsExact
<1>1. ASSUME TypeOK, GraphInv
      PROVE  ValidationIsExact
  <2> SUFFICES ASSUME NEW id \in Ids, NEW D \in SUBSET Ids,
                      AllowForwardRefs \/ D \subseteq Existing
               PROVE  ValidDeps(id, D) <=> IsAcyclic([deps EXCEPT ![id] = D])
    BY DEF ValidationIsExact
  <2>t. deps \in [Ids -> SUBSET Ids] /\ IsAcyclic(deps) /\ MissingHasNoDeps
    BY <1>1 DEF TypeOK, GraphInv, Acyclic
  <2>1. ASSUME ValidDeps(id, D)
        PROVE  IsAcyclic([deps EXCEPT ![id] = D])
    <3>1. \A d \in D : id \notin ReachableFrom(deps, {d})
      BY <1>1, <2>1, <2>t, ValidDepsReach
    <3>2. QED
      BY <2>t, <3>1, AcyclicUpdate
  <2>2. ASSUME IsAcyclic([deps EXCEPT ![id] = D])
        PROVE  ValidDeps(id, D)
    <3>1. SUFFICES ASSUME NEW d \in D
                   PROVE  /\ d # id
                          /\ IF status[d] = "NONE" THEN AllowForwardRefs
                             ELSE ~WouldCreateCycle(id, d)
      BY DEF ValidDeps
    <3>2. id \notin ReachableFrom(deps, {d})
      BY <2>2, <2>t, CyclicUpdate
    <3>3. d # id
      <4>1. {id} \in SUBSET Ids
        OBVIOUS
      <4>2. id \in ReachableFrom(deps, {id})
        BY <2>t, <4>1, ReachContains
      <4>3. QED
        BY <3>2, <4>2
    <3>4. QED
      BY <3>2, <3>3 DEF WouldCreateCycle, Existing
  <2>3. QED
    BY <2>1, <2>2
<1>2. QED
    BY <1>1, TypeCorrect, GraphInvariant, PTL
-----------------------------------------------------------------------------
(* Wakeups *)

\* Every dependency of i has i in the reverse index rev.
Known(dp, rev, i) == \A d \in dp[i] : i \in rev[d]

\* In the graph dp with the reverse index rev, every PENDING task that is known to
\* its dependencies has one that is not COMPLETED.
Blocked(st, dp, rev) ==
    \A i \in Ids : st[i] = "PENDING" /\ Known(dp, rev, i)
                      => \E d \in dp[i] : st[d] # "COMPLETED"

\* A step under which no task but id becomes PENDING or known, and none COMPLETED,
\* leaves the others blocked.
LEMMA StayBlocked ==
    ASSUME NEW st, NEW dp \in [Ids -> SUBSET Ids], NEW rev, Blocked(st, dp, rev),
           NEW new, NEW dpNew, NEW revNew, NEW id,
           \A i \in Ids \ {id} : /\ dpNew[i] = dp[i]
                                 /\ new[i] = "PENDING" => st[i] = "PENDING"
                                 /\ Known(dpNew, revNew, i) => Known(dp, rev, i),
           \A d \in Ids : new[d] = "COMPLETED" => st[d] = "COMPLETED",
           id \in Ids /\ new[id] = "PENDING" => \E d \in dpNew[id] : new[d] # "COMPLETED"
    PROVE  Blocked(new, dpNew, revNew)
<1> SUFFICES ASSUME NEW i \in Ids, new[i] = "PENDING", Known(dpNew, revNew, i)
             PROVE  \E d \in dpNew[i] : new[d] # "COMPLETED"
    BY DEF Blocked
<1>1. CASE i = id
    BY <1>1
<1>2. CASE i # id
  <2>1. st[i] = "PENDING" /\ Known(dp, rev, i) /\ dpNew[i] = dp[i]
    BY <1>2
  <2>2. PICK d \in dp[i] : st[d] # "COMPLETED"
    BY <2>1 DEF Blocked
  <2>3. QED
    BY <2>1, <2>2
<1>3. QED
    BY <1>1, <1>2

\* A completion promotes every task that it leaves with nothing to wait for.
LEMMA PromoteBlocked ==
    ASSUME NEW st, NEW dp \in [Ids -> SUBSET Ids], NEW rev \in [Ids -> SUBSET Ids],
           Blocked(st, dp, rev), NEW id \in Ids, NEW new \in [Ids -> Statuses \cup {"NONE"}],
           \A i \in Ids \ {id} : new[i] = st[i],
           new[id] = st[id] \/ new[id] = "COMPLETED",
           NEW promoted,
           promoted = {j \in rev[id] : new[j] = "PENDING" /\ DepsSatisfied(new, dp[j])}
    PROVE  Blocked(Promote(new, promoted), dp, rev)
<1> DEFINE end == Promote(new, promoted)
<1>1. \A i \in Ids : end[i] = IF i \in promoted THEN "READY" ELSE new[i]
    BY DEF Promote
<1> HIDE DEF end
<1> SUFFICES ASSUME NEW i \in Ids, end[i] = "PENDING", Known(dp, rev, i)
             PROVE  \E d \in dp[i] : end[d] # "COMPLETED"
    BY DEF Blocked, end
<1>2. i \notin promoted /\ new[i] = "PENDING" /\ st[i] = "PENDING"
    BY <1>1
<1>3. \E d \in dp[i] : new[d] # "COMPLETED"
  <2>1. CASE id \in dp[i]
    BY <1>2, <2>1 DEF Known, DepsSatisfied
  <2>2. CASE id \notin dp[i]
    <3>1. PICK d \in dp[i] : st[d] # "COMPLETED"
      BY <1>2 DEF Blocked
    <3>2. QED
      BY <2>2, <3>1
  <2>3. QED
    BY <2>1, <2>2
<1>4. QED
    BY <1>1, <1>3

\* Failing tasks blocks them no less.
LEMMA FailBlocked ==
    ASSUME NEW st, NEW dp \in [Ids -> SUBSET Ids], NEW rev, Blocked(st, dp, rev), NEW victims
    PROVE  Blocked(Fail(st, victims), dp, rev)
<1> DEFINE new == Fail(st, victims)
<1>1. \A i \in Ids : new[i] = IF i \in victims THEN "FAILED" ELSE st[i]
    BY DEF Fail
<1> HIDE DEF new
<1>2. Blocked(new, dp, rev)
  <2> SUFFICES ASSUME NEW i \in Ids, new[i] = "PENDING", Known(dp, rev, i)
               PROVE  \E d \in dp[i] : new[d] # "COMPLETED"
    BY DEF Blocked
  <2>1. st[i] = "PENDING"
    BY <1>1
  <2>2. PICK d \in dp[i] : st[d] # "COMPLETED"
    BY <2>1 DEF Blocked
  <2>3. new[d] # "COMPLETED"
    BY <1>1, <2>2
  <2>4. QED
    BY <2>2, <2>3
<1>3. QED
    BY <1>2 DEF new

\* A reconciled task is PENDING only if a dependency is not COMPLETED.
LEMMA ReconcileBlocked ==
    ASSUME NEW st \in [Ids -> Statuses \cup {"NONE"}], NEW id \in Ids, st[id] \in Live,
           NEW h, NEW c, ReconcileStatus(st, h, c, id),
           NEW dp \in [Ids -> SUBSET Ids], NEW rev, Blocked([st EXCEPT ![id] = "RUNNING"], dp, rev),
           deps' \in [Ids -> SUBSET Ids],
           \A i \in Ids \ {id} : /\ deps'[i] = dp[i]
                                 /\ Known(deps', dependents', i) => Known(dp, rev, i)
    PROVE  Blocked(status', deps', dependents')
<1> DEFINE new == Reconciled(st, st[id], deps'[id])
           st1 == [st EXCEPT ![id] = new]
           run == [st EXCEPT ![id] = "RUNNING"]
<1>1. /\ new \in {"FAILED", "READY", "PENDING", "RUNNING"}
      /\ new = "PENDING" => \E d \in deps'[id] : st[d] # "COMPLETED"
    BY DEF Reconciled, DepsSatisfied, Live
<1>2. status' = IF new = "FAILED" THEN Fail(st1, Victims(st1, dependents', id)) ELSE st1
    BY DEF ReconcileStatus
<1> HIDE DEF new
<1>3. Blocked(st1, deps', dependents')
  <2>1. \A i \in Ids \ {id} : st1[i] = run[i]
    OBVIOUS
  <2>2. st1[id] = new /\ run[id] = "RUNNING" /\ st[id] # "COMPLETED"
    BY DEF Live
  <2>3. new = "PENDING" => \E d \in deps'[id] : st1[d] # "COMPLETED"
    BY <1>1
  <2>4. Blocked(run, dp, rev)
    OBVIOUS
  <2> HIDE DEF st1, run
  <2>5. \A d \in Ids : st1[d] = "COMPLETED" => run[d] = "COMPLETED"
    BY <1>1, <2>1, <2>2
  <2>6. \A i \in Ids \ {id} :
            /\ deps'[i] = dp[i]
            /\ st1[i] = "PENDING" => run[i] = "PENDING"
            /\ Known(deps', dependents', i) => Known(dp, rev, i)
    BY <2>1
  <2>7. id \in Ids /\ st1[id] = "PENDING" => \E d \in deps'[id] : st1[d] # "COMPLETED"
    BY <2>2, <2>3
  <2>8. QED
    BY <2>4, <2>5, <2>6, <2>7, StayBlocked
<1> HIDE DEF st1
<1>4. Blocked(Fail(st1, Victims(st1, dependents', id)), deps', dependents')
    BY <1>3, FailBlocked
<1>5. QED
    BY <1>2, <1>3, <1>4

BlockedInv == Blocked(status, deps, dependents)

\* Marking a live task RUNNING hides nothing that the others wait for.
LEMMA RunningBlocked ==
    ASSUME NEW st \in [Ids -> Statuses \cup {"NONE"}], NEW dp \in [Ids -> SUBSET Ids],
           NEW rev, Blocked(st, dp, rev), NEW id \in Ids
    PROVE  Blocked([st EXCEPT ![id] = "RUNNING"], dp, rev)
<1> DEFINE run == [st EXCEPT ![id] = "RUNNING"]
<1>1. \A i \in Ids : run[i] = IF i = id THEN "RUNNING" ELSE st[i]
    OBVIOUS
<1> HIDE DEF run
<1>2. Blocked(run, dp, rev)
  <2> SUFFICES ASSUME NEW i \in Ids, run[i] = "PENDING", Known(dp, rev, i)
               PROVE  \E d \in dp[i] : run[d] # "COMPLETED"
    BY DEF Blocked
  <2>1. PICK d \in dp[i] : st[d] # "COMPLETED"
    BY <1>1 DEF Blocked
  <2>2. QED
    BY <1>1, <2>1
<1>3. QED
    BY <1>2 DEF run

\* Every step leaves the PENDING tasks that the reverse index knows blocked.
LEMMA BlockedStep ==
    ASSUME TypeOK, TypeOK', GraphInv, BlockedInv, [Next]_vars
    PROVE  BlockedInv'
<1>t. /\ status \in [Ids -> Statuses \cup {"NONE"}]
      /\ deps \in [Ids -> SUBSET Ids] /\ dependents \in [Ids -> SUBSET Ids]
      /\ status' \in [Ids -> Statuses \cup {"NONE"}]
      /\ deps' \in [Ids -> SUBSET Ids] /\ dependents' \in [Ids -> SUBSET Ids]
    BY DEF TypeOK
<1>i. Blocked(status, deps, dependents)
    BY DEF BlockedInv
<1> SUFFICES Blocked(status', deps', dependents')
    BY DEF BlockedInv
<1>r. ASSUME NEW id \in Ids, status[id] \in Live, ReconcileStatus(status, heap, byStatus, id),
             \A i \in Ids \ {id} :
                deps'[i] = deps[i]
                /\ (Known(deps', dependents', i) => Known(deps, dependents, i))
      PROVE  Blocked(status', deps', dependents')
  <2>1. Blocked([status EXCEPT ![id] = "RUNNING"], deps, dependents)
    BY <1>t, <1>i, RunningBlocked
  <2>2. QED
    BY <1>t, <1>r, <2>1, ReconcileBlocked
<1>1. ASSUME NEW id \in Ids, NEW D \in SUBSET Ids, AddTask(id, D)
      PROVE  Blocked(status', deps', dependents')
  <2> DEFINE created == Reconciled(status, "PENDING", D)
             st == [status EXCEPT ![id] = created]
  <2>1. /\ created \in {"FAILED", "READY", "PENDING"}
        /\ created = "PENDING" => \E d \in D : status[d] # "COMPLETED"
    BY DEF Reconciled, DepsSatisfied
  <2>2. /\ status' = IF created = "FAILED" THEN Fail(st, Victims(st, dependents', id)) ELSE st
        /\ status[id] = "NONE" /\ deps' = [deps EXCEPT ![id] = D]
        /\ dependents' = Register(dependents, id, D)
    BY <1>1 DEF AddTask
  <2> HIDE DEF created
  <2>3. \A i \in Ids : st[i] = IF i = id THEN created ELSE status[i]
    BY <1>t
  <2>4. \A i \in Ids \ {id} :
            /\ deps'[i] = deps[i]
            /\ st[i] = "PENDING" => status[i] = "PENDING"
            /\ Known(deps', dependents', i) => Known(deps, dependents, i)
    <3>1. \A i \in Ids \ {id} : \A d \in Ids : i \in dependents'[d] => i \in dependents[d]
      BY <1>t, <2>2 DEF Register
    <3>2. \A i \in Ids \ {id} : deps'[i] = deps[i]
      BY <1>t, <2>2
    <3>3. QED
      BY <1>t, <2>3, <3>1, <3>2 DEF Known
  <2>5. \A d \in Ids : st[d] = "COMPLETED" => status[d] = "COMPLETED"
    BY <2>1, <2>3
  <2>6. st[id] = "PENDING" => \E d \in deps'[id] : st[d] # "COMPLETED"
    BY <1>t, <2>1, <2>2, <2>3
  <2> HIDE DEF st
  <2>7. Blocked(st, deps', dependents')
    BY <1>t, <1>i, <2>4, <2>5, <2>6, StayBlocked
  <2>8. Blocked(Fail(st, Victims(st, dependents', id)), deps', dependents')
    BY <1>t, <2>7, FailBlocked
  <2>9. QED
    BY <2>2, <2>7, <2>8
<1>2. ASSUME NEW id \in Ids, NEW D \in SUBSET Ids, UpdateDeps(id, D)
      PROVE  Blocked(status', deps', dependents')
  <2>1. /\ status[id] \in Live /\ ReconcileStatus(status, heap, byStatus, id)
        /\ deps' = [deps EXCEPT ![id] = D]
        /\ dependents' = Register(Unregister(dependents, id, deps[id] \ D), id, D \ deps[id])
    BY <1>2 DEF UpdateDeps
  <2>2. \A i \in Ids \ {id} : deps'[i] = deps[i]
    BY <1>t, <2>1
  <2>3. \A i \in Ids \ {id} : \A d \in Ids : i \in dependents'[d] => i \in dependents[d]
    BY <1>t, <2>1 DEF Register, Unregister
  <2>4. \A i \in Ids \ {id} : Known(deps', dependents', i) => Known(deps, dependents, i)
    BY <1>t, <2>2, <2>3 DEF Known
  <2>5. QED
    BY <1>r, <2>1, <2>2, <2>4
<1>3. ASSUME NEW id \in Ids, UpdateFields(id)
      PROVE  Blocked(status', deps', dependents')
  BY <1>r, <1>3 DEF UpdateFields
<1>4. ASSUME NEW id \in Ids, ResetTask(id)
      PROVE  Blocked(status', deps', dependents')
  <2> DEFINE pending == [status EXCEPT ![id] = "PENDING"]
             h == Dequeue(heap, id)
  <2>1. /\ ReconcileStatus(pending, h, CountStatusChange(byStatus, status[id], "PENDING"), id)
        /\ UNCHANGED <<deps, dependents>>
    BY <1>4 DEF ResetTask
  <2>2. pending \in [Ids -> Statuses \cup {"NONE"}] /\ pending[id] \in Live
    BY <1>t DEF Statuses, Live
  <2>3. [pending EXCEPT ![id] = "RUNNING"] = [status EXCEPT ![id] = "RUNNING"]
    BY <1>t
  <2>4. Blocked([pending EXCEPT ![id] = "RUNNING"], deps, dependents)
    BY <1>t, <1>i, <2>3, RunningBlocked
  <2> HIDE DEF pending, h
  <2>5. QED
    BY <1>t, <2>1, <2>2, <2>4, ReconcileBlocked
<1>5. ASSUME NEW id \in Ids, DeleteTask(id)
      PROVE  Blocked(status', deps', dependents')
  <2> DEFINE failed == Fail(status, Victims(status, dependents, id))
  <2>1. /\ status' = [failed EXCEPT ![id] = "NONE"]
        /\ deps' = [deps EXCEPT ![id] = {}]
        /\ dependents' = [Unregister(dependents, id, deps[id]) EXCEPT ![id] = {}]
    BY <1>5 DEF DeleteTask
  <2>2. Blocked(failed, deps, dependents) /\ failed \in [Ids -> Statuses \cup {"NONE"}]
    BY <1>t, <1>i, FailBlocked, FailType
  <2> HIDE DEF failed
  <2>3. \A i \in Ids \ {id} : \A d \in Ids : i \in dependents'[d] => i \in dependents[d]
    BY <1>t, <2>1 DEF Unregister
  <2>4. \A i \in Ids \ {id} :
            /\ deps'[i] = deps[i]
            /\ status'[i] = "PENDING" => failed[i] = "PENDING"
            /\ Known(deps', dependents', i) => Known(deps, dependents, i)
    BY <1>t, <2>1, <2>2, <2>3 DEF Known
  <2>5. \A d \in Ids : status'[d] = "COMPLETED" => failed[d] = "COMPLETED"
    BY <2>1, <2>2
  <2>6. status'[id] = "NONE"
    BY <2>1, <2>2
  <2>7. QED
    BY <1>t, <2>2, <2>4, <2>5, <2>6, StayBlocked
<1>6. ASSUME NEW id \in Ids, CompleteTask(id)
      PROVE  Blocked(status', deps', dependents')
  <2> DEFINE st == [status EXCEPT ![id] = "COMPLETED"]
  <2>1. /\ status' = Promote(st, Unblocked(st, id))
        /\ UNCHANGED <<deps, dependents>>
    BY <1>6 DEF CompleteTask
  <2>2. /\ st \in [Ids -> Statuses \cup {"NONE"}] /\ st[id] = "COMPLETED"
        /\ \A i \in Ids \ {id} : st[i] = status[i]
    BY <1>t DEF Statuses, Terminal
  <2> HIDE DEF st
  <2>3. Blocked(Promote(st, Unblocked(st, id)), deps, dependents)
    BY <1>t, <1>i, <2>2, PromoteBlocked DEF Unblocked
  <2>4. QED
    BY <2>1, <2>3
<1>7. ASSUME NEW id \in Ids, NEW how \in {"FAILED", "CANCELLED"}, Abandon(id, how)
      PROVE  Blocked(status', deps', dependents')
  <2> DEFINE st == [status EXCEPT ![id] = how]
  <2>1. /\ status' = Fail(st, Victims(st, dependents, id))
        /\ UNCHANGED <<deps, dependents>>
    BY <1>7 DEF Abandon
  <2>2. \A i \in Ids : st[i] = IF i = id THEN how ELSE status[i]
    BY <1>t
  <2> HIDE DEF st
  <2>3. Blocked(st, deps, dependents)
    BY <1>t, <1>i, <2>2, StayBlocked
  <2>4. QED
    BY <1>t, <2>1, <2>3, FailBlocked
<1>8. ASSUME NEW id \in heap, NEW dropped \in SUBSET heap, ClaimNext(id, dropped)
      PROVE  Blocked(status', deps', dependents')
  <2>1. /\ id \in Ids /\ status' = [status EXCEPT ![id] = "RUNNING"]
        /\ UNCHANGED <<deps, dependents>>
    BY <1>8 DEF ClaimNext, TypeOK, Existing
  <2>2. QED
    BY <1>t, <1>i, <2>1, RunningBlocked
<1>9. CASE FindNothing \/ UNCHANGED vars
  BY <1>i, <1>9 DEF FindNothing, vars
<1>10. CASE Clear \/ Dispose
  BY <1>10 DEF Clear, Dispose, ClearInternal, Blocked
<1>11. CASE RunSucceeds
  <2> DEFINE st == Settled("COMPLETED")
  <2>1. /\ status' = Promote(st, Unblocked(st, Top.id))
        /\ UNCHANGED <<deps, dependents>> /\ frames # <<>>
    BY <1>11 DEF RunSucceeds
  <2>2. Top.id \in Ids
    BY <2>1, TopKnown
  <2>3. /\ st \in [Ids -> Statuses \cup {"NONE"}]
        /\ st[Top.id] = status[Top.id] \/ st[Top.id] = "COMPLETED"
        /\ \A i \in Ids \ {Top.id} : st[i] = status[i]
    BY <1>t, <2>2 DEF Settled, Statuses, Terminal
  <2> HIDE DEF st
  <2>4. Blocked(Promote(st, Unblocked(st, Top.id)), deps, dependents)
    BY <1>t, <1>i, <2>2, <2>3, PromoteBlocked DEF Unblocked
  <2>5. QED
    BY <2>1, <2>4
<1>12. CASE RunFails
  <2> DEFINE st == Settled("FAILED")
  <2>1. /\ \/ status' = st
           \/ status' = Fail(st, Victims(st, dependents, Top.id))
        /\ UNCHANGED <<deps, dependents>> /\ frames # <<>>
    BY <1>12 DEF RunFails
  <2>2. Top.id \in Ids
    BY <2>1, TopKnown
  <2>3. /\ st[Top.id] = status[Top.id] \/ st[Top.id] = "FAILED"
        /\ \A i \in Ids \ {Top.id} : st[i] = status[i]
    BY <1>t, <2>2 DEF Settled
  <2> HIDE DEF st
  <2>4. Blocked(st, deps, dependents)
    <3>1. \A d \in Ids : st[d] = "COMPLETED" => status[d] = "COMPLETED"
      BY <2>3
    <3>2. \A i \in Ids : st[i] = "PENDING" => status[i] = "PENDING"
      BY <2>3
    <3>3. SUFFICES ASSUME NEW i \in Ids, st[i] = "PENDING", Known(deps, dependents, i)
                   PROVE  \E d \in deps[i] : st[d] # "COMPLETED"
      BY DEF Blocked
    <3>4. PICK d \in deps[i] : status[d] # "COMPLETED"
      BY <1>i, <3>2, <3>3 DEF Blocked
    <3>5. d \in Ids
      BY <1>t, <3>4
    <3>6. QED
      BY <3>1, <3>4, <3>5
  <2>5. QED
    BY <1>t, <2>1, <2>4, FailBlocked
<1>13. QED
  BY <1>1, <1>2, <1>3, <1>4, <1>5, <1>6, <1>7, <1>8, <1>9, <1>10, <1>11, <1>12
  DEF Next, FailTask, CancelTask

\* No lost wakeup: whatever completes, fails, is reset, deleted or re-added, with or
\* without a runner, a PENDING task whose edges the reverse index has all is waiting
\* for a task that is not COMPLETED.
THEOREM NoLostWakeup == Spec => []PendingIsBlocked
<1>1. Init => BlockedInv
    BY DEF Init, BlockedInv, Blocked
<1>2. TypeOK /\ TypeOK' /\ GraphInv /\ BlockedInv /\ [Next]_vars => BlockedInv'
    BY BlockedStep
<1>3. BlockedInv => PendingIsBlocked
    BY DEF BlockedInv, Blocked, Known, PendingIsBlocked, Linked
<1>4. QED
    BY <1>1, <1>2, <1>3, TypeCorrect, GraphInvariant, PTL DEF Spec
-----------------------------------------------------------------------------
(* Terminal statuses *)

\* A status that was terminal in id changes only if the task ends or is reset.
Stands(id) == status[id] \in Terminal /\ status'[id] # status[id]
                  => status'[id] = "NONE" \/ ResetTask(id)

\* Failing victims leaves every task alone that was not live.
LEMMA FailSpares ==
    ASSUME NEW st, NEW rev, NEW origin, NEW i \in Ids, st[i] \notin Live
    PROVE  Fail(st, Victims(st, rev, origin))[i] = st[i]
  BY DEF Fail, Victims

\* Reconciling a live task leaves every other task alone that was not live.
LEMMA ReconcileSpares ==
    ASSUME NEW st \in [Ids -> Statuses \cup {"NONE"}], NEW h, NEW c, NEW id \in Ids,
           ReconcileStatus(st, h, c, id),
           NEW i \in Ids, i # id, st[i] \notin Live
    PROVE  status'[i] = st[i]
<1> DEFINE new == Reconciled(st, st[id], deps'[id])
           st1 == [st EXCEPT ![id] = new]
<1>1. status' = IF new = "FAILED" THEN Fail(st1, Victims(st1, dependents', id)) ELSE st1
    BY DEF ReconcileStatus
<1>2. st1[i] = st[i]
    OBVIOUS
<1> HIDE DEF st1
<1>3. QED
    BY <1>1, <1>2, FailSpares

Idle == frames = <<>>

\* Without a runner no execution is ever open.
LEMMA NoFrames == ASSUME ~HasRunner PROVE Spec => []Idle
<1>1. Init => Idle
    BY DEF Init, Idle
<1>2. Idle /\ [Next]_vars => Idle'
  <2> SUFFICES ASSUME frames = <<>>, [Next]_vars PROVE frames' = <<>>
    BY DEF Idle
  <2>1. ASSUME NEW gone PROVE Orphan(gone) = <<>>
    BY DEF Orphan
  <2>2. QED
    BY <2>1 DEF Next, vars, AddTask, UpdateDeps, UpdateFields, DeleteTask, CompleteTask,
                FailTask, CancelTask, Abandon, ResetTask, ClaimNext, FindNothing, Clear,
                Dispose, ClearInternal, RunSucceeds, RunFails
<1>3. QED
    BY <1>1, <1>2, PTL DEF Spec

\* Without a runner, no step but resetTask gives a terminal task another status.
LEMMA StandsStep ==
    ASSUME TypeOK, frames = <<>>, [Next]_vars, NEW i \in Ids
    PROVE  Stands(i)
<1> SUFFICES ASSUME status[i] \in Terminal, status'[i] # status[i]
             PROVE  status'[i] = "NONE" \/ ResetTask(i)
    BY DEF Stands
<1>t. /\ status \in [Ids -> Statuses \cup {"NONE"}]
      /\ dependents \in [Ids -> SUBSET Ids] /\ heap \in SUBSET Ids
      /\ status[i] \notin Live /\ status[i] # "NONE"
    BY DEF TypeOK, Existing, Terminal, Live
<1>1. ASSUME NEW id \in Ids, NEW D \in SUBSET Ids, AddTask(id, D) PROVE FALSE
  <2> DEFINE st == [status EXCEPT ![id] = Reconciled(status, "PENDING", D)]
  <2>1. /\ \/ status' = Fail(st, Victims(st, dependents', id))
           \/ status' = st
        /\ status[id] = "NONE"
    BY <1>1 DEF AddTask
  <2>2. st[i] = status[i]
    BY <1>t, <2>1
  <2> HIDE DEF st
  <2>3. QED
    BY <1>t, <2>1, <2>2, FailSpares
<1>2. ASSUME NEW id \in Ids, status[id] \in Live, ReconcileStatus(status, heap, byStatus, id)
      PROVE  FALSE
    BY <1>t, <1>2, ReconcileSpares
<1>3. ASSUME NEW id \in Ids, DeleteTask(id) PROVE status'[i] = "NONE"
  <2>1. status' = [Fail(status, Victims(status, dependents, id)) EXCEPT ![id] = "NONE"]
    BY <1>3 DEF DeleteTask
  <2>2. Fail(status, Victims(status, dependents, id))[i] = status[i]
    BY <1>t, FailSpares
  <2>3. QED
    BY <2>1, <2>2 DEF Fail
<1>4. ASSUME NEW id \in Ids, CompleteTask(id) PROVE FALSE
  <2> DEFINE st == [status EXCEPT ![id] = "COMPLETED"]
  <2>1. status[id] \in Live /\ status' = Promote(st, Unblocked(st, id))
    BY <1>4 DEF CompleteTask, Live
  <2>2. st[i] = status[i]
    BY <1>t, <2>1
  <2> HIDE DEF st
  <2>3. QED
    BY <1>t, <2>1, <2>2 DEF Promote, Unblocked, Live
<1>5. ASSUME NEW id \in Ids, NEW how, Abandon(id, how) PROVE FALSE
  <2> DEFINE st == [status EXCEPT ![id] = how]
  <2>1. status[id] \in Live /\ status' = Fail(st, Victims(st, dependents, id))
    BY <1>5 DEF Abandon
  <2>2. st[i] = status[i]
    BY <1>t, <2>1
  <2> HIDE DEF st
  <2>3. QED
    BY <1>t, <2>1, <2>2, FailSpares
<1>6. ASSUME NEW id \in Ids, ResetTask(id) PROVE ResetTask(i)
  <2> DEFINE st == [status EXCEPT ![id] = "PENDING"]
  <2>1. ReconcileStatus(st, Dequeue(heap, id), CountStatusChange(byStatus, status[id], "PENDING"), id)
    BY <1>6 DEF ResetTask
  <2>2. st \in [Ids -> Statuses \cup {"NONE"}] /\ (i # id => st[i] = status[i])
    BY <1>t DEF Statuses, Live
  <2> HIDE DEF st
  <2>3. i # id => FALSE
    BY <1>t, <2>1, <2>2, ReconcileSpares
  <2>4. QED
    BY <1>6, <2>3
<1>7. ASSUME NEW id \in heap, NEW dropped \in SUBSET heap, ClaimNext(id, dropped) PROVE FALSE
  <2>1. status[id] = "READY" /\ status' = [status EXCEPT ![id] = "RUNNING"]
    BY <1>7 DEF ClaimNext, Executable
  <2>2. QED
    BY <1>t, <2>1 DEF Live
<1>8. CASE Clear \/ Dispose
    BY <1>8 DEF Clear, Dispose, ClearInternal
<1>9. ~RunSucceeds /\ ~RunFails
    BY DEF RunSucceeds, RunFails
<1>10. CASE FindNothing \/ UNCHANGED vars
    BY <1>10 DEF FindNothing, vars
<1>11. QED
  <2>1. ASSUME NEW id \in Ids, NEW D \in SUBSET Ids, UpdateDeps(id, D) PROVE FALSE
    BY <1>2, <2>1 DEF UpdateDeps, Live
  <2>2. ASSUME NEW id \in Ids, UpdateFields(id) PROVE FALSE
    BY <1>2, <2>2 DEF UpdateFields
  <2>3. QED
    BY <1>1, <2>1, <2>2, <1>3, <1>4, <1>5, <1>6, <1>7, <1>8, <1>9, <1>10
    DEF Next, FailTask, CancelTask

\* A scheduler without a runner never takes a COMPLETED, FAILED or CANCELLED task
\* out of its status, except by resetTask or by removing the task: propagation,
\* unblocking and reconciliation of other tasks all leave it alone.
THEOREM TerminalIsFinal == ASSUME ~HasRunner PROVE Spec => TerminalStands
<1>1. TypeOK /\ Idle /\ [Next]_vars
          => [\A i \in Ids : status[i] \in Terminal /\ status'[i] # status[i]
                               => status'[i] = "NONE" \/ ResetTask(i)]_vars
    BY StandsStep DEF Stands, Idle
<1>2. QED
    BY <1>1, TypeCorrect, NoFrames, PTL DEF Spec, TerminalStands
-----------------------------------------------------------------------------
(* Counters *)

\* The ids that have the status s under st; the counts c are exact for st.
At(st, s) == {i \in Ids : st[i] = s}

Exact(c, st) == \A s \in Statuses : c[s] = Cardinality(At(st, s))

\* _countStatusChange carries exact counts over the change that it is told of.
LEMMA CountOneExact ==
    ASSUME NEW st \in [Ids -> Statuses \cup {"NONE"}], NEW c \in [Statuses -> Int],
           NEW id \in Ids, NEW next, Exact(c, st)
    PROVE  Exact(CountStatusChange(c, st[id], next), [st EXCEPT ![id] = next])
<1> DEFINE new == [st EXCEPT ![id] = next]
<1> SUFFICES ASSUME NEW s \in Statuses
             PROVE  CountStatusChange(c, st[id], next)[s] = Cardinality(At(new, s))
    BY DEF Exact
<1> DEFINE S == At(st, s)
<1>1. IsFiniteSet(S) /\ Cardinality(S) \in Nat
    BY SizeOfIds, AgnesAssumption, FS_Subset DEF At
<1>2. /\ IsFiniteSet(S \ {id})
      /\ Cardinality(S \ {id}) = IF id \in S THEN Cardinality(S) - 1 ELSE Cardinality(S)
    BY <1>1, FS_RemoveElement
<1>3. id \in S <=> s = st[id]
    BY DEF At
<1>4. Cardinality((S \ {id}) \cup {id}) = Cardinality(S \ {id}) + 1
    BY <1>2, FS_AddElement
<1>5. At(new, s) = IF s = next THEN (S \ {id}) \cup {id} ELSE S \ {id}
    BY DEF At
<1>6. c[s] = Cardinality(S) /\ c[s] \in Int
    BY DEF Exact
<1>7. CountStatusChange(c, st[id], next)[s]
          = c[s] - (IF s = st[id] THEN 1 ELSE 0) + (IF s = next THEN 1 ELSE 0)
    BY DEF CountStatusChange
<1> HIDE DEF S, new
<1>8. QED
    BY <1>1, <1>2, <1>3, <1>4, <1>5, <1>6, <1>7

\* So do the calls that a loop makes for several tasks.
LEMMA CountEachExact ==
    ASSUME NEW st \in [Ids -> Statuses \cup {"NONE"}], NEW c \in [Statuses -> Int],
           NEW ids \in SUBSET Ids, NEW next, Exact(c, st)
    PROVE  Exact(CountEach(c, st, ids, next), [i \in Ids |-> IF i \in ids THEN next ELSE st[i]])
<1> DEFINE new == [i \in Ids |-> IF i \in ids THEN next ELSE st[i]]
<1> SUFFICES ASSUME NEW s \in Statuses
             PROVE  CountEach(c, st, ids, next)[s] = Cardinality(At(new, s))
    BY DEF Exact
<1> DEFINE S == At(st, s)
           both == {i \in ids : st[i] = s}
<1>1. /\ IsFiniteSet(S) /\ Cardinality(S) \in Nat
      /\ IsFiniteSet(ids) /\ Cardinality(ids) \in Nat /\ Cardinality(both) \in Nat
    BY SizeOfIds, AgnesAssumption, FS_Subset DEF At
<1>2. S \cap ids = both
    BY DEF At
<1>3. /\ IsFiniteSet(S \ ids)
      /\ Cardinality(S \ ids) = Cardinality(S) - Cardinality(both)
    BY <1>1, <1>2, FS_Difference
<1>4. Cardinality((S \ ids) \cup ids) = Cardinality(S \ ids) + Cardinality(ids)
  <2>1. Cardinality((S \ ids) \cup ids)
            = Cardinality(S \ ids) + Cardinality(ids) - Cardinality((S \ ids) \cap ids)
    BY <1>1, <1>3, FS_Union
  <2>2. (S \ ids) \cap ids = {}
    OBVIOUS
  <2>3. Cardinality((S \ ids) \cap ids) = 0
    BY <2>2, FS_EmptySet
  <2> HIDE DEF S, both
  <2>4. QED
    BY <1>1, <1>3, <2>1, <2>3
<1>5. At(new, s) = IF s = next THEN (S \ ids) \cup ids ELSE S \ ids
    BY DEF At
<1>6. c[s] = Cardinality(S) /\ c[s] \in Int
    BY DEF Exact
<1>7. CountEach(c, st, ids, next)[s]
          = c[s] - Cardinality(both) + (IF s = next THEN Cardinality(ids) ELSE 0)
    BY DEF CountEach
<1> HIDE DEF S, both, new
<1>8. QED
    BY <1>1, <1>3, <1>4, <1>5, <1>6, <1>7

\* Propagated failures and promotions are changes of several tasks.
LEMMA FailExact ==
    ASSUME NEW st \in [Ids -> Statuses \cup {"NONE"}], NEW c \in [Statuses -> Int],
           NEW rev, NEW origin, Exact(c, st)
    PROVE  Exact(CountEach(c, st, Victims(st, rev, origin), "FAILED"),
                 Fail(st, Victims(st, rev, origin)))
<1>1. Victims(st, rev, origin) \in SUBSET Ids
    BY VictimsType
<1>2. QED
    BY <1>1, CountEachExact DEF Fail

\* What _reconcileStatus counts is what it changes.
LEMMA ReconcileExact ==
    ASSUME NEW st \in [Ids -> Statuses \cup {"NONE"}], NEW c \in [Statuses -> Int],
           NEW h, NEW id \in Ids, st[id] \in Live, Exact(c, st), ReconcileStatus(st, h, c, id)
    PROVE  Exact(byStatus', status')
<1> DEFINE new == Reconciled(st, st[id], deps'[id])
           st1 == [st EXCEPT ![id] = new]
           c1 == IF new = st[id] THEN c ELSE CountStatusChange(c, st[id], new)
           failed == Victims(st1, dependents', id)
<1>1. /\ byStatus' = IF new = "FAILED" THEN CountEach(c1, st1, failed, "FAILED") ELSE c1
      /\ status' = IF new = "FAILED" THEN Fail(st1, failed) ELSE st1
    BY DEF ReconcileStatus
<1>2. new \in {"FAILED", "READY", "PENDING", "RUNNING"}
    BY DEF Reconciled, Live
<1> HIDE DEF new
<1>3. st1 \in [Ids -> Statuses \cup {"NONE"}] /\ c1 \in [Statuses -> Int]
    BY <1>2, CountType DEF Statuses, Live, Terminal
<1>4. Exact(c1, st1)
  <2>1. CASE new = st[id]
    <3>1. st1 = st
      BY <2>1
    <3> HIDE DEF st1
    <3>2. QED
      BY <2>1, <3>1
  <2>2. CASE new # st[id]
    BY <2>2, CountOneExact
  <2>3. QED
    BY <2>1, <2>2
<1> HIDE DEF st1, c1
<1>5. QED
    BY <1>1, <1>3, <1>4, FailExact

\* The two kinds of count can be taken in either order.
LEMMA CountsCommute ==
    ASSUME NEW c \in [Statuses -> Int], NEW st, NEW ids \in SUBSET Ids, NEW prev, NEW next, NEW s
    PROVE  CountStatusChange(CountEach(c, st, ids, s), prev, next)
               = CountEach(CountStatusChange(c, prev, next), st, ids, s)
<1>1. /\ Cardinality(ids) \in Nat
      /\ \A t \in Statuses : Cardinality({i \in ids : st[i] = t}) \in Nat
    BY SizeOfIds
<1> DEFINE L == CountStatusChange(CountEach(c, st, ids, s), prev, next)
           R == CountEach(CountStatusChange(c, prev, next), st, ids, s)
<1>2. ASSUME NEW t \in Statuses PROVE L[t] = R[t]
  <2> DEFINE x == Cardinality({i \in ids : st[i] = t})
             y == IF t = s THEN Cardinality(ids) ELSE 0
             p == IF t = prev THEN 1 ELSE 0
             n == IF t = next THEN 1 ELSE 0
  <2>1. CountEach(c, st, ids, s)[t] = c[t] - x + y
    BY DEF CountEach
  <2>2. L[t] = CountEach(c, st, ids, s)[t] - p + n
    BY DEF CountStatusChange
  <2>3. CountStatusChange(c, prev, next)[t] = c[t] - p + n
    BY DEF CountStatusChange
  <2>4. R[t] = CountStatusChange(c, prev, next)[t] - x + y
    BY DEF CountEach
  <2>5. c[t] \in Int /\ x \in Int /\ y \in Int /\ p \in Int /\ n \in Int
    BY <1>1
  <2> DEFINE l == CountEach(c, st, ids, s)[t]
             r == CountStatusChange(c, prev, next)[t]
  <2>6. l = c[t] - x + y /\ L[t] = l - p + n /\ r = c[t] - p + n /\ R[t] = r - x + y
    BY <2>1, <2>2, <2>3, <2>4
  <2> HIDE DEF L, R, x, y, p, n, l, r
  <2>7. QED
    BY <2>5, <2>6
<1>3. L = [t \in Statuses |-> L[t]] /\ R = [t \in Statuses |-> R[t]]
    BY DEF CountStatusChange, CountEach
<1> HIDE DEF L, R
<1>4. L = R
    BY <1>2, <1>3
<1>5. QED
    BY <1>4 DEF L, R

\* Every step of a scheduler without a runner counts what it changes.
LEMMA CountStep ==
    ASSUME TypeOK, Idle, Exact(byStatus, status), [Next]_vars
    PROVE  Exact(byStatus', status')
<1>t. /\ status \in [Ids -> Statuses \cup {"NONE"}] /\ heap \in SUBSET Ids
      /\ dependents \in [Ids -> SUBSET Ids]
      /\ byStatus \in [Statuses -> Int]
    BY DEF TypeOK, Existing
<1>1. ASSUME NEW id \in Ids, NEW D \in SUBSET Ids, AddTask(id, D)
      PROVE  Exact(byStatus', status')
  <2> DEFINE created == Reconciled(status, "PENDING", D)
             st == [status EXCEPT ![id] = created]
             failed == Victims(st, dependents', id)
             c == CountStatusChange(byStatus, "NONE", created)
  <2>1. /\ status[id] = "NONE"
        /\ status' = IF created = "FAILED" THEN Fail(st, failed) ELSE st
        /\ byStatus' = CountStatusChange(
               IF created = "FAILED" THEN CountEach(byStatus, st, failed, "FAILED") ELSE byStatus,
               "NONE", created)
    BY <1>1 DEF AddTask
  <2>2. created \in {"FAILED", "READY", "PENDING"}
    BY DEF Reconciled
  <2>3. failed \in SUBSET Ids
    BY VictimsType
  <2> HIDE DEF created
  <2>4. Exact(c, st)
    BY <1>t, <2>1, CountOneExact
  <2>5. c \in [Statuses -> Int] /\ st \in [Ids -> Statuses \cup {"NONE"}]
    BY <1>t, <2>2, CountType DEF Statuses, Live, Terminal
  <2>6. CASE created = "FAILED"
    <3>1. byStatus' = CountEach(c, st, failed, "FAILED")
      <4> HIDE DEF st, failed
      <4>1. QED
        BY <1>t, <2>1, <2>3, <2>6, CountsCommute
    <3>2. status' = Fail(st, failed)
      BY <2>1, <2>6
    <3> HIDE DEF st, c
    <3>3. QED
      BY <2>4, <2>5, <3>1, <3>2, FailExact
  <2>7. CASE created # "FAILED"
    BY <2>1, <2>4, <2>7
  <2>8. QED
    BY <2>6, <2>7
<1>2. ASSUME NEW id \in Ids, NEW D \in SUBSET Ids, UpdateDeps(id, D) \/ UpdateFields(id)
      PROVE  Exact(byStatus', status')
  <2>1. status[id] \in Live /\ ReconcileStatus(status, heap, byStatus, id)
    BY <1>2 DEF UpdateDeps, UpdateFields
  <2>2. QED
    BY <1>t, <2>1, ReconcileExact
<1>3. ASSUME NEW id \in Ids, ResetTask(id)
      PROVE  Exact(byStatus', status')
  <2> DEFINE st == [status EXCEPT ![id] = "PENDING"]
             c == CountStatusChange(byStatus, status[id], "PENDING")
             h == Dequeue(heap, id)
  <2>1. ReconcileStatus(st, h, c, id)
    BY <1>3 DEF ResetTask
  <2>2. /\ st \in [Ids -> Statuses \cup {"NONE"}] /\ st[id] \in Live
        /\ c \in [Statuses -> Int]
    BY <1>t, CountType DEF Statuses, Live
  <2>3. Exact(c, st)
    BY <1>t, CountOneExact
  <2> HIDE DEF st, c, h
  <2>4. QED
    BY <2>1, <2>2, <2>3, ReconcileExact
<1>4. ASSUME NEW id \in Ids, DeleteTask(id)
      PROVE  Exact(byStatus', status')
  <2> DEFINE failed == Victims(status, dependents, id)
             st == Fail(status, failed)
             c == CountEach(byStatus, status, failed, "FAILED")
  <2>1. /\ status' = [st EXCEPT ![id] = "NONE"]
        /\ byStatus' = CountStatusChange(c, status[id], "NONE")
    BY <1>4 DEF DeleteTask
  <2>2. failed \in SUBSET Ids /\ id \notin failed
    BY VictimsType DEF Victims
  <2>3. Exact(c, st)
    BY <1>t, FailExact
  <2>4. st \in [Ids -> Statuses \cup {"NONE"}] /\ c \in [Statuses -> Int]
    BY <1>t, <2>2, FailType, CountEachType
  <2>5. st[id] = status[id]
    BY <2>2 DEF Fail
  <2> HIDE DEF st, c
  <2>6. QED
    BY <2>1, <2>3, <2>4, <2>5, CountOneExact
<1>5. ASSUME NEW id \in Ids, CompleteTask(id)
      PROVE  Exact(byStatus', status')
  <2> DEFINE st == [status EXCEPT ![id] = "COMPLETED"]
             promoted == Unblocked(st, id)
             c == CountStatusChange(byStatus, status[id], "COMPLETED")
  <2>1. /\ status' = Promote(st, promoted)
        /\ byStatus' = CountEach(c, st, promoted, "READY")
    BY <1>5 DEF CompleteTask
  <2>2. promoted \in SUBSET Ids
    BY <1>t DEF Unblocked
  <2>3. st \in [Ids -> Statuses \cup {"NONE"}] /\ c \in [Statuses -> Int] /\ Exact(c, st)
    BY <1>t, CountType, CountOneExact DEF Statuses, Terminal
  <2> HIDE DEF st, promoted, c
  <2>4. QED
    BY <2>1, <2>2, <2>3, CountEachExact DEF Promote
<1>6. ASSUME NEW id \in Ids, NEW how \in {"FAILED", "CANCELLED"}, Abandon(id, how)
      PROVE  Exact(byStatus', status')
  <2> DEFINE st == [status EXCEPT ![id] = how]
             failed == Victims(st, dependents, id)
             c == CountStatusChange(byStatus, status[id], how)
  <2>1. /\ status' = Fail(st, failed)
        /\ byStatus' = CountEach(c, st, failed, "FAILED")
    BY <1>6 DEF Abandon
  <2>2. st \in [Ids -> Statuses \cup {"NONE"}] /\ c \in [Statuses -> Int] /\ Exact(c, st)
    BY <1>t, CountType, CountOneExact DEF Statuses, Terminal
  <2> HIDE DEF st, c
  <2>3. QED
    BY <2>1, <2>2, FailExact
<1>7. ASSUME NEW id \in heap, NEW dropped \in SUBSET heap, ClaimNext(id, dropped)
      PROVE  Exact(byStatus', status')
  BY <1>t, <1>7, CountOneExact DEF ClaimNext
<1>8. CASE Clear \/ Dispose
  <2>1. status' = [i \in Ids |-> "NONE"] /\ byStatus' = [s \in Statuses |-> 0]
    BY <1>8 DEF Clear, Dispose, ClearInternal
  <2>2. \A s \in Statuses : At(status', s) = {}
    BY <2>1 DEF At, Statuses, Live, Terminal
  <2>3. QED
    BY <2>1, <2>2, FS_EmptySet DEF Exact
<1>9. CASE FindNothing \/ UNCHANGED vars
  BY <1>9 DEF FindNothing, vars
<1>10. ~RunSucceeds /\ ~RunFails
  BY DEF Idle, RunSucceeds, RunFails
<1>11. QED
  BY <1>1, <1>2, <1>3, <1>4, <1>5, <1>6, <1>7, <1>8, <1>9, <1>10
  DEF Next, FailTask, CancelTask

\* Without a runner the incremental status counters are the numbers of tasks: every
\* call of _countStatusChange is told the status a task had and the one it gets, and
\* no change of a status, the propagated and promoted ones included, goes uncounted
\* or is counted twice.
THEOREM CountersAgree == ASSUME ~HasRunner PROVE Spec => []CountersExact
<1> DEFINE Right == Exact(byStatus, status)
<1>1. Init => Right
  <2> SUFFICES ASSUME Init, NEW s \in Statuses PROVE byStatus[s] = Cardinality(At(status, s))
    BY DEF Exact
  <2>1. At(status, s) = {}
    BY DEF Init, At, Statuses, Live, Terminal
  <2>2. QED
    BY <2>1, FS_EmptySet DEF Init
<1>2. TypeOK /\ Idle /\ Right /\ [Next]_vars => Right'
  BY CountStep
<1>3. Right => CountersExact
  BY DEF Exact, At, CountersExact, CountOf
<1> HIDE DEF Right
<1>4. QED
    BY <1>1, <1>2, <1>3, TypeCorrect, NoFrames, PTL DEF Spec
=============================================================================
