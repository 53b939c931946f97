-------------------------- MODULE SchedulersProofs --------------------------
(***************************************************************************)
(* Theorems about the schedulers that Schedulers composes, for every       *)
(* finite set of ids and every value of the bounds: the task graphs of     *)
(* "bigbang" and "kat" (BigbangScheduler, KatScheduler), which do not      *)
(* depend on the order in which heaps hand out tasks; what the heaps of    *)
(* "kat", "agnes flash" and "qwen 3.8 27b" (AgnesDispatch, QwenDispatch)   *)
(* hold and hand out, by HeapLemmas; and the types of all four.            *)
(***************************************************************************)
EXTENDS Schedulers, HeapLemmas, FiniteSetTheorems

-----------------------------------------------------------------------------
(* bigbang: what the methods work on *)

BigbangStatuses == {"NONE", "PENDING", "READY", "COMPLETED", "FAILED"}

BigbangTyped ==
    /\ bigbangStatus \in [Ids -> BigbangStatuses]
    /\ bigbangDeps \in [Ids -> SUBSET Ids]
    /\ bigbangAdjacency \in [Ids -> SUBSET Ids]
    /\ bigbangFrames \in Seq(Bigbang!Frame)
    /\ \A i \in Ids : bigbangStatus[i] = "NONE" => bigbangDeps[i] = {}

\* A dependency on which a task may still wait.
Holds(d) == bigbangStatus[d] # "COMPLETED" \/ d \in bigbangInterrupted \/ Bigbang!Announcing(d)

\* The innermost execution, and what is left under it.
LEMMA BigbangTop ==
    ASSUME BigbangTyped, bigbangFrames # <<>>
    PROVE  /\ Len(bigbangFrames) \in Nat \ {0} /\ DOMAIN bigbangFrames = 1..Len(bigbangFrames)
           /\ Bigbang!Top = bigbangFrames[Len(bigbangFrames)]
           /\ Bigbang!Top \in Bigbang!Frame /\ Bigbang!Top.found \in Ids
           /\ Bigbang!PopFrame =>
                 /\ bigbangFrames' \in Seq(Bigbang!Frame)
                 /\ DOMAIN bigbangFrames' = 1..Len(bigbangFrames) - 1
                 /\ \A k \in 1..Len(bigbangFrames) - 1 : bigbangFrames'[k] = bigbangFrames[k]
<1>1. /\ Len(bigbangFrames) \in Nat \ {0} /\ DOMAIN bigbangFrames = 1..Len(bigbangFrames)
      /\ \A k \in 1..Len(bigbangFrames) : bigbangFrames[k] \in Bigbang!Frame
    BY DEF BigbangTyped
<1>2. Bigbang!Top = bigbangFrames[Len(bigbangFrames)] /\ Bigbang!Top \in Bigbang!Frame
    BY <1>1 DEF Bigbang!Top
<1>3. Bigbang!Top.found \in Ids
    BY <1>2 DEF Bigbang!Frame
<1>4. ASSUME Bigbang!PopFrame
      PROVE  /\ bigbangFrames' \in Seq(Bigbang!Frame)
             /\ DOMAIN bigbangFrames' = 1..Len(bigbangFrames) - 1
             /\ \A k \in 1..Len(bigbangFrames) - 1 : bigbangFrames'[k] = bigbangFrames[k]
  <2>1. bigbangFrames' = SubSeq(bigbangFrames, 1, Len(bigbangFrames) - 1)
    BY <1>4 DEF Bigbang!PopFrame
  <2>2. bigbangFrames' = [k \in 1..Len(bigbangFrames) - 1 |-> bigbangFrames[k]]
    BY <1>1, <2>1
  <2>3. QED
    BY <1>1, <2>2
<1>5. QED
    BY <1>1, <1>2, <1>3, <1>4

\* Marking frames whose task is gone changes nothing else in them.
LEMMA BigbangOrphaned ==
    ASSUME BigbangTyped, NEW ids \in SUBSET Ids, bigbangFrames' = Bigbang!Orphaned(ids)
    PROVE  /\ bigbangFrames' \in Seq(Bigbang!Frame)
           /\ DOMAIN bigbangFrames' = DOMAIN bigbangFrames
           /\ \A k \in DOMAIN bigbangFrames :
                 /\ bigbangFrames'[k].found = bigbangFrames[k].found
                 /\ bigbangFrames'[k].hook = bigbangFrames[k].hook
                 /\ bigbangFrames'[k].gone <=> bigbangFrames[k].gone \/ bigbangFrames[k].found \in ids
<1>1. /\ Len(bigbangFrames) \in Nat /\ DOMAIN bigbangFrames = 1..Len(bigbangFrames)
      /\ \A k \in DOMAIN bigbangFrames : bigbangFrames[k] \in Bigbang!Frame
    BY DEF BigbangTyped
<1>2. bigbangFrames' = [k \in DOMAIN bigbangFrames |->
          [bigbangFrames[k] EXCEPT !.gone = @ \/ bigbangFrames[k].found \in ids]]
    BY DEF Bigbang!Orphaned
<1>3. ASSUME NEW k \in DOMAIN bigbangFrames
      PROVE  /\ bigbangFrames'[k] \in Bigbang!Frame
             /\ bigbangFrames'[k].found = bigbangFrames[k].found
             /\ bigbangFrames'[k].hook = bigbangFrames[k].hook
             /\ bigbangFrames'[k].gone <=> bigbangFrames[k].gone \/ bigbangFrames[k].found \in ids
  <2> DEFINE f == bigbangFrames[k]
             g == f.gone \/ f.found \in ids
  <2>1. f \in Bigbang!Frame /\ bigbangFrames'[k] = [f EXCEPT !.gone = g] /\ g \in BOOLEAN
    BY <1>1, <1>2
  <2> HIDE DEF f, g
  <2>2. [f EXCEPT !.gone = g] \in Bigbang!Frame
    BY <2>1 DEF Bigbang!Frame
  <2>3. /\ [f EXCEPT !.gone = g].found = f.found /\ [f EXCEPT !.gone = g].hook = f.hook
        /\ [f EXCEPT !.gone = g].gone = g
    BY <2>1 DEF Bigbang!Frame
  <2>4. bigbangFrames'[k].gone = g
    BY <2>1, <2>3
  <2>5. QED
    BY <2>1, <2>2, <2>3, <2>4 DEF f, g
<1>4. bigbangFrames' \in Seq(Bigbang!Frame)
  <2>1. bigbangFrames' = [k \in 1..Len(bigbangFrames) |-> bigbangFrames'[k]]
    BY <1>1, <1>2
  <2>2. QED
    BY <1>1, <1>3, <2>1
<1>5. QED
    BY <1>2, <1>3, <1>4

\* Registering and unregistering touch the edges from a task to the dependencies given.
LEMMA BigbangRegisters ==
    ASSUME NEW adj \in [Ids -> SUBSET Ids], NEW id \in Ids, NEW D \in SUBSET Ids
    PROVE  /\ Bigbang!Register(adj, id, D) \in [Ids -> SUBSET Ids]
           /\ \A i, d \in Ids : i \in Bigbang!Register(adj, id, D)[d]
                                    <=> i \in adj[d] \/ (i = id /\ d \in D)
           /\ Bigbang!Unregister(adj, id, D) \in [Ids -> SUBSET Ids]
           /\ \A i, d \in Ids : i \in Bigbang!Unregister(adj, id, D)[d]
                                    <=> i \in adj[d] /\ ~(i = id /\ d \in D)
<1>1. /\ Bigbang!Register(adj, id, D) \in [Ids -> SUBSET Ids]
      /\ \A i, d \in Ids : i \in Bigbang!Register(adj, id, D)[d]
                               <=> i \in adj[d] \/ (i = id /\ d \in D)
    BY DEF Bigbang!Register
<1>2. /\ Bigbang!Unregister(adj, id, D) \in [Ids -> SUBSET Ids]
      /\ \A i, d \in Ids : i \in Bigbang!Unregister(adj, id, D)[d]
                               <=> i \in adj[d] /\ ~(i = id /\ d \in D)
    BY DEF Bigbang!Unregister
<1>3. QED
    BY <1>1, <1>2

\* Cleaning up removes all edges from a task.
LEMMA BigbangCleansUp ==
    ASSUME NEW adj \in [Ids -> SUBSET Ids], NEW id \in Ids
    PROVE  /\ Bigbang!CleanedUp(adj, id) \in [Ids -> SUBSET Ids]
           /\ \A i, d \in Ids : i \in Bigbang!CleanedUp(adj, id)[d] <=> i \in adj[d] /\ i # id
  BY DEF Bigbang!CleanedUp

\* Unblocking makes PENDING tasks READY, and leaves the others alone.
LEMMA BigbangUnblocked ==
    ASSUME NEW st \in [Ids -> BigbangStatuses], NEW id \in Ids
    PROVE  LET new == Bigbang!Unblocked(st, id)
           IN  /\ new \in [Ids -> BigbangStatuses]
               /\ \A i \in Ids : new[i] = st[i] \/ (st[i] = "PENDING" /\ new[i] = "READY")
               /\ \A i \in Ids : new[i] = "PENDING" => /\ st[i] = "PENDING"
                                                       /\ i \in bigbangAdjacency[id] =>
                                                             ~Bigbang!Met(st, bigbangDeps[i])
  BY DEF Bigbang!Unblocked, BigbangStatuses

\* What bigbang works on keeps its types.
LEMMA BigbangTypeStep ==
    ASSUME BigbangTyped, Bigbang!Next
    PROVE  BigbangTyped'
<1>t. /\ bigbangStatus \in [Ids -> BigbangStatuses]
      /\ bigbangDeps \in [Ids -> SUBSET Ids]
      /\ bigbangAdjacency \in [Ids -> SUBSET Ids]
      /\ bigbangFrames \in Seq(Bigbang!Frame)
      /\ \A i \in Ids : bigbangStatus[i] = "NONE" => bigbangDeps[i] = {}
    BY DEF BigbangTyped
<1>s. /\ "NONE" \in BigbangStatuses /\ "PENDING" \in BigbangStatuses /\ "READY" \in BigbangStatuses
      /\ "COMPLETED" \in BigbangStatuses /\ "FAILED" \in BigbangStatuses
    BY DEF BigbangStatuses
\* a task that has dependencies exists, if every task that existed before still does
<1>b. ASSUME bigbangDeps' = bigbangDeps,
             \A i \in Ids : bigbangStatus'[i] = "NONE" => bigbangStatus[i] = "NONE"
      PROVE  \A i \in Ids : bigbangStatus'[i] = "NONE" => bigbangDeps'[i] = {}
    BY <1>t, <1>b
<1>0. ASSUME NEW id \in Ids, NEW D \in SUBSET Ids, NEW s \in BigbangStatuses \ {"NONE"},
             bigbangStatus' = [bigbangStatus EXCEPT ![id] = s],
             bigbangDeps' = [bigbangDeps EXCEPT ![id] = D],
             bigbangAdjacency' \in [Ids -> SUBSET Ids], UNCHANGED bigbangFrames
      PROVE  BigbangTyped'
  <2>1. bigbangStatus' \in [Ids -> BigbangStatuses] /\ bigbangDeps' \in [Ids -> SUBSET Ids]
    BY <1>t, <1>0
  <2>2. \A i \in Ids : bigbangStatus'[i] = "NONE" => bigbangDeps'[i] = {}
    BY <1>t, <1>0
  <2>3. QED
    BY <1>t, <1>0, <2>1, <2>2 DEF BigbangTyped
<1>1. ASSUME NEW id \in Ids, NEW D \in SUBSET Ids, Bigbang!AddTask(id, D)
      PROVE  BigbangTyped'
  <2> DEFINE added == [bigbangStatus EXCEPT ![id] = "PENDING"]
             s     == IF Bigbang!Met(added, D) THEN "READY" ELSE "PENDING"
  <2>1. /\ bigbangDeps' = [bigbangDeps EXCEPT ![id] = D]
        /\ bigbangAdjacency' = Bigbang!Register(bigbangAdjacency, id, D)
        /\ bigbangStatus' = IF Bigbang!Met(added, D) THEN [added EXCEPT ![id] = "READY"] ELSE added
        /\ UNCHANGED bigbangFrames
    BY <1>1 DEF Bigbang!AddTask
  <2>2. bigbangStatus' = [bigbangStatus EXCEPT ![id] = s] /\ s \in BigbangStatuses \ {"NONE"}
    BY <1>t, <1>s, <2>1
  <2>3. bigbangAdjacency' \in [Ids -> SUBSET Ids]
    BY <1>t, <2>1, BigbangRegisters
  <2> HIDE DEF s
  <2>4. QED
    BY <1>0, <2>1, <2>2, <2>3
<1>u. ASSUME NEW id \in Ids, NEW D, bigbangStatus[id] # "NONE"
      PROVE  Bigbang!UpdatedStatus(id, D) \in BigbangStatuses \ {"NONE"}
    BY <1>t, <1>s, <1>u DEF Bigbang!UpdatedStatus
<1>11. ASSUME NEW id \in Ids, NEW D \in SUBSET Ids, Bigbang!UpdateDeps(id, D)
       PROVE  BigbangTyped'
  <2> DEFINE without == Bigbang!Unregister(bigbangAdjacency, id, bigbangDeps[id])
  <2>1. /\ bigbangStatus[id] # "NONE"
        /\ bigbangDeps' = [bigbangDeps EXCEPT ![id] = D]
        /\ bigbangAdjacency' = Bigbang!Register(without, id, D)
        /\ bigbangStatus' = [bigbangStatus EXCEPT ![id] = Bigbang!UpdatedStatus(id, D)]
        /\ UNCHANGED bigbangFrames
    BY <1>11 DEF Bigbang!UpdateDeps
  <2>2. without \in [Ids -> SUBSET Ids]
    BY <1>t, BigbangRegisters
  <2> HIDE DEF without
  <2>3. bigbangAdjacency' \in [Ids -> SUBSET Ids]
    BY <2>1, <2>2, BigbangRegisters
  <2>4. QED
    BY <1>u, <1>0, <2>1, <2>3
<1>12. ASSUME NEW id \in Ids, Bigbang!UpdateFields(id)
       PROVE  BigbangTyped'
  <2>1. /\ bigbangStatus[id] # "NONE"
        /\ bigbangStatus' = [bigbangStatus EXCEPT ![id] = Bigbang!UpdatedStatus(id, bigbangDeps[id])]
        /\ UNCHANGED <<bigbangDeps, bigbangAdjacency, bigbangFrames>>
    BY <1>12 DEF Bigbang!UpdateFields
  <2>2. bigbangDeps' = [bigbangDeps EXCEPT ![id] = bigbangDeps[id]] /\ bigbangDeps[id] \in SUBSET Ids
    BY <1>t, <2>1
  <2>3. QED
    BY <1>t, <1>u, <1>0, <2>1, <2>2
<1>2. ASSUME NEW id \in Ids, Bigbang!DeleteTask(id)
      PROVE  BigbangTyped'
  <2> DEFINE without == Bigbang!Unregister(bigbangAdjacency, id, bigbangDeps[id])
  <2>1. /\ bigbangStatus' = [bigbangStatus EXCEPT ![id] = "NONE"]
        /\ bigbangDeps' = [bigbangDeps EXCEPT ![id] = {}]
        /\ bigbangAdjacency' = Bigbang!CleanedUp(without, id)
        /\ bigbangFrames' = Bigbang!Orphaned({id})
    BY <1>2 DEF Bigbang!DeleteTask
  <2>2. bigbangFrames' \in Seq(Bigbang!Frame)
    BY <2>1, BigbangOrphaned
  <2>3. without \in [Ids -> SUBSET Ids]
    BY <1>t, BigbangRegisters
  <2> HIDE DEF without
  <2>4. bigbangAdjacency' \in [Ids -> SUBSET Ids]
    BY <2>1, <2>3, BigbangCleansUp
  <2>5. QED
    BY <1>t, <1>s, <2>1, <2>2, <2>4 DEF BigbangTyped
<1>3. CASE Bigbang!Clear
  <2>1. bigbangFrames' \in Seq(Bigbang!Frame)
    BY <1>3, BigbangOrphaned DEF Bigbang!Clear
  <2>2. QED
    BY <1>s, <1>3, <2>1 DEF Bigbang!Clear, BigbangTyped
<1>4. ASSUME NEW id \in Ids, Bigbang!CompleteTask(id)
      PROVE  BigbangTyped'
  <2> DEFINE st == [bigbangStatus EXCEPT ![id] = "COMPLETED"]
  <2>1. bigbangStatus' = Bigbang!Unblocked(st, id)
        /\ UNCHANGED <<bigbangDeps, bigbangAdjacency, bigbangFrames>>
    BY <1>4 DEF Bigbang!CompleteTask
  <2>2. st \in [Ids -> BigbangStatuses]
    BY <1>t, <1>s
  <2>3. \A i \in Ids : st[i] = "NONE" => bigbangStatus[i] = "NONE"
    BY <1>t
  <2> HIDE DEF st
  <2>4. /\ bigbangStatus' \in [Ids -> BigbangStatuses]
        /\ \A i \in Ids : bigbangStatus'[i] = "NONE" => bigbangStatus[i] = "NONE"
    BY <2>1, <2>2, <2>3, BigbangUnblocked
  <2>5. QED
    BY <1>t, <1>b, <2>1, <2>4 DEF BigbangTyped
<1>5. ASSUME NEW id \in Ids, Bigbang!FailTask(id)
      PROVE  BigbangTyped'
  <2>1. /\ bigbangStatus' = [bigbangStatus EXCEPT ![id] = "FAILED"]
        /\ UNCHANGED <<bigbangDeps, bigbangAdjacency, bigbangFrames>>
    BY <1>5 DEF Bigbang!FailTask
  <2>2. /\ bigbangStatus' \in [Ids -> BigbangStatuses]
        /\ \A i \in Ids : bigbangStatus'[i] = "NONE" => bigbangStatus[i] = "NONE"
    BY <1>t, <1>s, <2>1
  <2>3. QED
    BY <1>t, <1>b, <2>1, <2>2 DEF BigbangTyped
<1>6. ASSUME NEW id \in Ids, Bigbang!ExecuteNextTask(id)
      PROVE  BigbangTyped'
  <2>1. [found |-> id, hook |-> "onTaskExecute", gone |-> FALSE] \in Bigbang!Frame
    BY DEF Bigbang!Frame
  <2>2. bigbangFrames' \in Seq(Bigbang!Frame)
    BY <1>t, <1>6, <2>1 DEF Bigbang!ExecuteNextTask
  <2>3. QED
    BY <1>t, <1>6, <2>2 DEF Bigbang!ExecuteNextTask, BigbangTyped
<1>7. CASE Bigbang!OnTaskExecuteReturns
  <2>0. bigbangFrames # <<>>
    BY <1>7 DEF Bigbang!OnTaskExecuteReturns
  <2>1. /\ Bigbang!Top.found \in Ids /\ Len(bigbangFrames) \in Nat \ {0}
        /\ bigbangFrames[Len(bigbangFrames)] \in Bigbang!Frame
    BY <2>0, BigbangTop
  <2>2. [bigbangFrames[Len(bigbangFrames)] EXCEPT !.hook = "onTaskComplete"] \in Bigbang!Frame
    BY <2>1 DEF Bigbang!Frame
  <2>3. bigbangFrames' \in Seq(Bigbang!Frame)
    BY <1>t, <1>7, <2>1, <2>2 DEF Bigbang!OnTaskExecuteReturns
  <2>4. /\ bigbangStatus' \in [Ids -> BigbangStatuses]
        /\ \A i \in Ids : bigbangStatus'[i] = "NONE" => bigbangStatus[i] = "NONE"
    BY <1>t, <1>s, <1>7, <2>1 DEF Bigbang!OnTaskExecuteReturns
  <2>5. QED
    BY <1>t, <1>b, <1>7, <2>3, <2>4 DEF Bigbang!OnTaskExecuteReturns, BigbangTyped
<1>8. CASE Bigbang!OnTaskCompleteReturns
  <2>1. /\ Bigbang!Top.found \in Ids /\ bigbangFrames' \in Seq(Bigbang!Frame)
        /\ bigbangStatus' = Bigbang!Unblocked(bigbangStatus, Bigbang!Top.found)
        /\ UNCHANGED <<bigbangDeps, bigbangAdjacency>>
    BY <1>8, BigbangTop DEF Bigbang!OnTaskCompleteReturns
  <2>2. /\ bigbangStatus' \in [Ids -> BigbangStatuses]
        /\ \A i \in Ids : bigbangStatus'[i] = "NONE" => bigbangStatus[i] = "NONE"
    BY <1>t, <2>1, BigbangUnblocked
  <2>3. QED
    BY <1>t, <1>b, <2>1, <2>2 DEF BigbangTyped
<1>9. CASE Bigbang!HookThrows
  <2>1. bigbangFrames' \in Seq(Bigbang!Frame)
    BY <1>9, BigbangTop DEF Bigbang!HookThrows
  <2>2. QED
    BY <1>t, <1>9, <2>1 DEF Bigbang!HookThrows, BigbangTyped
<1>10. QED
  BY <1>1, <1>2, <1>3, <1>4, <1>5, <1>6, <1>7, <1>8, <1>9, <1>11, <1>12 DEF Bigbang!Next

\* The reverse graph stays the graph reversed.
LEMMA BigbangAdjacencyStep ==
    ASSUME BigbangTyped, Bigbang!AdjacencyExact, Bigbang!Next
    PROVE  Bigbang!AdjacencyExact'
<1>t. /\ bigbangDeps \in [Ids -> SUBSET Ids] /\ bigbangAdjacency \in [Ids -> SUBSET Ids]
      /\ \A i, d \in Ids : i \in bigbangAdjacency[d] <=> d \in bigbangDeps[i]
    BY DEF BigbangTyped, Bigbang!AdjacencyExact
<1>1. ASSUME NEW id \in Ids, NEW D \in SUBSET Ids,
             bigbangDeps' = [bigbangDeps EXCEPT ![id] = D],
             \A i, d \in Ids : i \in bigbangAdjacency'[d] <=>
                                  IF i = id THEN d \in D ELSE i \in bigbangAdjacency[d]
      PROVE  Bigbang!AdjacencyExact'
  <2>1. \A i \in Ids : bigbangDeps'[i] = IF i = id THEN D ELSE bigbangDeps[i]
    BY <1>t, <1>1
  <2>2. QED
    BY <1>t, <1>1, <2>1 DEF Bigbang!AdjacencyExact
\* a task that is not there is registered nowhere, so that _registerDeps is enough
<1>2. ASSUME NEW id \in Ids, NEW D \in SUBSET Ids, Bigbang!AddTask(id, D)
      PROVE  Bigbang!AdjacencyExact'
  <2>1. /\ bigbangDeps[id] = {} /\ bigbangDeps' = [bigbangDeps EXCEPT ![id] = D]
        /\ bigbangAdjacency' = Bigbang!Register(bigbangAdjacency, id, D)
    BY <1>2 DEF Bigbang!AddTask, BigbangTyped
  <2>2. \A i, d \in Ids : i \in bigbangAdjacency'[d]
                              <=> i \in bigbangAdjacency[d] \/ (i = id /\ d \in D)
    BY <1>t, <2>1, BigbangRegisters
  <2>3. \A d \in Ids : id \notin bigbangAdjacency[d]
    BY <1>t, <2>1
  <2>4. \A i, d \in Ids : i \in bigbangAdjacency'[d] <=>
                              IF i = id THEN d \in D ELSE i \in bigbangAdjacency[d]
    BY <2>2, <2>3
  <2>5. QED
    BY <1>1, <2>1, <2>4
\* _unregisterDeps goes through the old dependencies, which are all the edges there are
<1>u. ASSUME NEW id \in Ids
      PROVE  LET without == Bigbang!Unregister(bigbangAdjacency, id, bigbangDeps[id])
             IN  /\ without \in [Ids -> SUBSET Ids]
                 /\ \A i, d \in Ids : i \in without[d] <=> i # id /\ i \in bigbangAdjacency[d]
  <2> DEFINE without == Bigbang!Unregister(bigbangAdjacency, id, bigbangDeps[id])
  <2>1. /\ without \in [Ids -> SUBSET Ids]
        /\ \A i, d \in Ids : i \in without[d] <=> /\ i \in bigbangAdjacency[d]
                                                  /\ ~(i = id /\ d \in bigbangDeps[id])
    BY <1>t, BigbangRegisters
  <2> HIDE DEF without
  <2>2. \A i, d \in Ids : i \in without[d] <=> i # id /\ i \in bigbangAdjacency[d]
    BY <1>t, <2>1
  <2>3. QED
    BY <2>1, <2>2 DEF without
<1>7. ASSUME NEW id \in Ids, NEW D \in SUBSET Ids, Bigbang!UpdateDeps(id, D)
      PROVE  Bigbang!AdjacencyExact'
  <2> DEFINE without == Bigbang!Unregister(bigbangAdjacency, id, bigbangDeps[id])
  <2>1. /\ bigbangDeps' = [bigbangDeps EXCEPT ![id] = D]
        /\ bigbangAdjacency' = Bigbang!Register(without, id, D)
    BY <1>7 DEF Bigbang!UpdateDeps
  <2>2. /\ without \in [Ids -> SUBSET Ids]
        /\ \A i, d \in Ids : i \in without[d] <=> i # id /\ i \in bigbangAdjacency[d]
    BY <1>u
  <2> HIDE DEF without
  <2>3. \A i, d \in Ids : i \in bigbangAdjacency'[d] <=> i \in without[d] \/ (i = id /\ d \in D)
    BY <2>1, <2>2, BigbangRegisters
  <2>4. \A i, d \in Ids : i \in bigbangAdjacency'[d] <=>
                              IF i = id THEN d \in D ELSE i \in bigbangAdjacency[d]
    BY <2>2, <2>3
  <2>5. QED
    BY <1>1, <2>1, <2>4
<1>3. ASSUME NEW id \in Ids, Bigbang!DeleteTask(id)
      PROVE  Bigbang!AdjacencyExact'
  <2> DEFINE without == Bigbang!Unregister(bigbangAdjacency, id, bigbangDeps[id])
  <2>1. /\ bigbangDeps' = [bigbangDeps EXCEPT ![id] = {}]
        /\ bigbangAdjacency' = Bigbang!CleanedUp(without, id)
    BY <1>3 DEF Bigbang!DeleteTask
  <2>2. /\ without \in [Ids -> SUBSET Ids]
        /\ \A i, d \in Ids : i \in without[d] <=> i # id /\ i \in bigbangAdjacency[d]
    BY <1>u
  <2> HIDE DEF without
  <2>3. \A i, d \in Ids : i \in bigbangAdjacency'[d] <=> i \in without[d] /\ i # id
    BY <2>1, <2>2, BigbangCleansUp
  <2>4. PICK D \in SUBSET Ids : D = {}
    OBVIOUS
  <2>5. \A i, d \in Ids : i \in bigbangAdjacency'[d] <=>
                              IF i = id THEN d \in D ELSE i \in bigbangAdjacency[d]
    BY <2>2, <2>3, <2>4
  <2>6. bigbangDeps' = [bigbangDeps EXCEPT ![id] = D]
    BY <2>1, <2>4
  <2>7. QED
    BY <1>1, <2>5, <2>6
<1>4. CASE Bigbang!Clear
  BY <1>4 DEF Bigbang!Clear, Bigbang!AdjacencyExact
<1>5. CASE UNCHANGED <<bigbangDeps, bigbangAdjacency>>
  BY <1>5 DEF Bigbang!AdjacencyExact
<1>6. QED
  BY <1>2, <1>3, <1>4, <1>5, <1>7
  DEF Bigbang!Next, Bigbang!UpdateFields, Bigbang!CompleteTask, Bigbang!FailTask, Bigbang!ExecuteNextTask,
      Bigbang!OnTaskExecuteReturns, Bigbang!OnTaskCompleteReturns, Bigbang!HookThrows
-----------------------------------------------------------------------------
(* bigbang: waiting tasks *)

\* A task that waits has something to wait for.
Waits(i) == bigbangStatus[i] = "PENDING" => \E d \in bigbangDeps[i] : Holds(d)

\* It goes on waiting for the same things when the step lets go of none of them.
LEMMA WaitsStill ==
    ASSUME NEW i \in Ids, Waits(i), bigbangDeps'[i] = bigbangDeps[i],
           bigbangStatus'[i] = "PENDING" => bigbangStatus[i] = "PENDING",
           \A d \in bigbangDeps[i] : Holds(d) => Holds(d)'
    PROVE  Waits(i)'
  BY DEF Waits

\* A dependency goes on holding unless it is completed or its announcement ends.
LEMMA HoldsStill ==
    ASSUME NEW d, bigbangStatus[d] # "COMPLETED" => bigbangStatus'[d] # "COMPLETED",
           d \in bigbangInterrupted => d \in bigbangInterrupted' \/ bigbangStatus'[d] # "COMPLETED",
           Bigbang!Announcing(d) => Bigbang!Announcing(d)' \/ bigbangStatus'[d] # "COMPLETED"
    PROVE  Holds(d) => Holds(d)'
  BY DEF Holds

\* A hook that ends may let go only of the task that it was about.
LEMMA AnnouncingPop ==
    ASSUME BigbangTyped, bigbangFrames # <<>>, Bigbang!PopFrame,
           NEW d, Bigbang!Announcing(d)
    PROVE  \/ Bigbang!Announcing(d)'
           \/ Bigbang!Top.found = d /\ Bigbang!Top.hook = "onTaskComplete" /\ ~Bigbang!Top.gone
<1>1. PICK n \in DOMAIN bigbangFrames : /\ bigbangFrames[n].found = d
                                        /\ bigbangFrames[n].hook = "onTaskComplete"
                                        /\ ~bigbangFrames[n].gone
    BY DEF Bigbang!Announcing
<1>2. /\ Len(bigbangFrames) \in Nat \ {0} /\ DOMAIN bigbangFrames = 1..Len(bigbangFrames)
      /\ Bigbang!Top = bigbangFrames[Len(bigbangFrames)]
      /\ DOMAIN bigbangFrames' = 1..Len(bigbangFrames) - 1
      /\ \A k \in 1..Len(bigbangFrames) - 1 : bigbangFrames'[k] = bigbangFrames[k]
    BY BigbangTop
<1>3. CASE n = Len(bigbangFrames)
    BY <1>1, <1>2, <1>3
<1>4. CASE n # Len(bigbangFrames)
  <2>1. n \in 1..Len(bigbangFrames) - 1
    BY <1>2, <1>4
  <2>2. n \in DOMAIN bigbangFrames' /\ bigbangFrames'[n] = bigbangFrames[n]
    BY <1>2, <2>1
  <2>3. QED
    BY <1>1, <2>2 DEF Bigbang!Announcing
<1>5. QED
    BY <1>3, <1>4

\* Every step leaves every waiting task something to wait for.
LEMMA WaitsStep ==
    ASSUME BigbangTyped, Bigbang!AdjacencyExact, \A i \in Ids : Waits(i), Bigbang!Next
    PROVE  \A i \in Ids : Waits(i)'
<1> SUFFICES ASSUME NEW i \in Ids PROVE Waits(i)'
    OBVIOUS
<1>t. /\ bigbangStatus \in [Ids -> BigbangStatuses]
      /\ bigbangDeps \in [Ids -> SUBSET Ids] /\ bigbangDeps[i] \subseteq Ids
      /\ bigbangFrames \in Seq(Bigbang!Frame)
      /\ \A d \in Ids : i \in bigbangAdjacency[d] <=> d \in bigbangDeps[i]
      /\ Waits(i)
    BY DEF BigbangTyped, Bigbang!AdjacencyExact
\* frames and history as they were
<1>u. ASSUME UNCHANGED <<bigbangFrames, bigbangInterrupted>>,
             NEW d, bigbangStatus[d] # "COMPLETED" => bigbangStatus'[d] # "COMPLETED"
      PROVE  Holds(d) => Holds(d)'
    BY <1>u, HoldsStill DEF Bigbang!Announcing
<1>1. ASSUME NEW id \in Ids, NEW D \in SUBSET Ids, Bigbang!AddTask(id, D)
      PROVE  Waits(i)'
  <2> DEFINE added == [bigbangStatus EXCEPT ![id] = "PENDING"]
  <2>1. /\ bigbangStatus' = IF Bigbang!Met(added, D) THEN [added EXCEPT ![id] = "READY"] ELSE added
        /\ bigbangDeps' = [bigbangDeps EXCEPT ![id] = D]
        /\ UNCHANGED <<bigbangFrames, bigbangInterrupted>>
    BY <1>1 DEF Bigbang!AddTask
  <2>2. \A d \in Ids : bigbangStatus'[d] = IF d # id THEN bigbangStatus[d]
                                           ELSE IF Bigbang!Met(added, D) THEN "READY" ELSE "PENDING"
    BY <1>t, <2>1
  <2>3. CASE i = id
    <3>1. SUFFICES ASSUME ~Bigbang!Met(added, D) PROVE \E d \in D : bigbangStatus'[d] # "COMPLETED"
      BY <1>t, <2>1, <2>2, <2>3 DEF Waits, Holds
    <3>2. QED
      BY <2>1, <3>1 DEF Bigbang!Met
  <2>4. CASE i # id
    <3>1. bigbangDeps'[i] = bigbangDeps[i] /\ bigbangStatus'[i] = bigbangStatus[i]
      BY <1>t, <2>1, <2>2, <2>4
    <3>2. \A d \in bigbangDeps[i] : Holds(d) => Holds(d)'
      BY <1>t, <1>u, <2>1, <2>2
    <3>3. QED
      BY <1>t, <3>1, <3>2, WaitsStill
  <2>5. QED
    BY <2>3, <2>4
<1>2. ASSUME NEW id \in Ids, NEW D \in SUBSET Ids,
             \/ Bigbang!UpdateDeps(id, D)
             \/ Bigbang!UpdateFields(id) /\ D = bigbangDeps[id]
      PROVE  Waits(i)'
  <2>1. /\ bigbangStatus' = [bigbangStatus EXCEPT ![id] = Bigbang!UpdatedStatus(id, D)]
        /\ bigbangDeps' = [bigbangDeps EXCEPT ![id] = D]
        /\ UNCHANGED <<bigbangFrames, bigbangInterrupted>>
    BY <1>t, <1>2 DEF Bigbang!UpdateDeps, Bigbang!UpdateFields
  <2>2. \A d \in Ids : bigbangStatus[d] # "COMPLETED" => bigbangStatus'[d] # "COMPLETED"
    BY <1>t, <2>1 DEF Bigbang!UpdatedStatus
  <2>3. CASE i = id
    <3>1. CASE bigbangStatus'[i] = "PENDING"
      <4>1. ~Bigbang!Met(bigbangStatus, D)
        BY <1>t, <2>1, <2>3, <3>1 DEF Bigbang!UpdatedStatus
      <4>2. PICK d \in D : bigbangStatus[d] # "COMPLETED"
        BY <4>1 DEF Bigbang!Met
      <4>3. d \in bigbangDeps'[i] /\ Holds(d)'
        BY <1>t, <2>1, <2>2, <2>3, <4>2 DEF Holds
      <4>4. QED
        BY <4>3 DEF Waits
    <3>2. QED
      BY <3>1 DEF Waits
  <2>4. CASE i # id
    <3>1. bigbangDeps'[i] = bigbangDeps[i] /\ bigbangStatus'[i] = bigbangStatus[i]
      BY <1>t, <2>1, <2>4
    <3>2. \A d \in bigbangDeps[i] : Holds(d) => Holds(d)'
      BY <1>t, <1>u, <2>1, <2>2
    <3>3. QED
      BY <1>t, <3>1, <3>2, WaitsStill
  <2>5. QED
    BY <2>3, <2>4
<1>3. ASSUME NEW id \in Ids, Bigbang!DeleteTask(id)
      PROVE  Waits(i)'
  <2>1. /\ bigbangStatus' = [bigbangStatus EXCEPT ![id] = "NONE"]
        /\ bigbangDeps' = [bigbangDeps EXCEPT ![id] = {}]
        /\ bigbangFrames' = Bigbang!Orphaned({id})
        /\ bigbangInterrupted' = bigbangInterrupted \ {id}
    BY <1>3 DEF Bigbang!DeleteTask
  <2>2. \A d \in Ids : bigbangStatus'[d] = IF d = id THEN "NONE" ELSE bigbangStatus[d]
    BY <1>t, <2>1
  <2>3. ASSUME NEW d \in Ids, d # id, Bigbang!Announcing(d)
        PROVE  Bigbang!Announcing(d)'
    <3>1. PICK n \in DOMAIN bigbangFrames : /\ bigbangFrames[n].found = d
                                            /\ bigbangFrames[n].hook = "onTaskComplete"
                                            /\ ~bigbangFrames[n].gone
      BY <2>3 DEF Bigbang!Announcing
    <3>2. {id} \in SUBSET Ids
      OBVIOUS
    <3>3. /\ n \in DOMAIN bigbangFrames'
          /\ bigbangFrames'[n].found = bigbangFrames[n].found
          /\ bigbangFrames'[n].hook = bigbangFrames[n].hook
          /\ bigbangFrames'[n].gone <=> bigbangFrames[n].gone \/ bigbangFrames[n].found \in {id}
      BY <2>1, <3>1, <3>2, BigbangOrphaned
    <3>4. QED
      BY <2>3, <3>1, <3>3 DEF Bigbang!Announcing
  <2>4. \A d \in bigbangDeps[i] : Holds(d) => Holds(d)'
    BY <1>t, <2>1, <2>2, <2>3, HoldsStill
  <2>5. CASE i = id
    BY <2>2, <2>5 DEF Waits
  <2>6. CASE i # id
    <3>1. bigbangDeps'[i] = bigbangDeps[i] /\ bigbangStatus'[i] = bigbangStatus[i]
      BY <1>t, <2>1, <2>2, <2>6
    <3>2. QED
      BY <1>t, <2>4, <3>1, WaitsStill
  <2>7. QED
    BY <2>5, <2>6
<1>4. CASE Bigbang!Clear
  BY <1>4 DEF Bigbang!Clear, Waits
\* unblocking after a completion: what no longer holds was met, so the task is READY
\* or waits for another dependency
<1>5. ASSUME NEW st \in [Ids -> BigbangStatuses], NEW id \in Ids,
             bigbangStatus' = Bigbang!Unblocked(st, id), bigbangDeps' = bigbangDeps,
             st[i] = "PENDING" => bigbangStatus[i] = "PENDING",
             \A d \in Ids \ {id} : Holds(d) => Holds(d)'
      PROVE  Waits(i)'
  <2>1. SUFFICES ASSUME bigbangStatus'[i] = "PENDING" PROVE \E d \in bigbangDeps[i] : Holds(d)'
    BY <1>5 DEF Waits
  <2>2. /\ st[i] = "PENDING"
        /\ i \in bigbangAdjacency[id] => ~Bigbang!Met(st, bigbangDeps[i])
        /\ \A d \in Ids : st[d] # "COMPLETED" => bigbangStatus'[d] # "COMPLETED"
    BY <1>5, <2>1, BigbangUnblocked
  <2>3. CASE id \in bigbangDeps[i]
    <3>1. PICK d \in bigbangDeps[i] : st[d] # "COMPLETED"
      BY <1>t, <2>2, <2>3 DEF Bigbang!Met
    <3>2. Holds(d)'
      BY <1>t, <2>2, <3>1 DEF Holds
    <3>3. QED
      BY <3>2
  <2>4. CASE id \notin bigbangDeps[i]
    <3>1. PICK d \in bigbangDeps[i] : Holds(d)
      BY <1>t, <1>5, <2>2 DEF Waits
    <3>2. Holds(d)'
      BY <1>t, <1>5, <2>4, <3>1
    <3>3. QED
      BY <3>2
  <2>5. QED
    BY <2>3, <2>4
<1>6. ASSUME NEW id \in Ids, Bigbang!CompleteTask(id)
      PROVE  Waits(i)'
  <2> DEFINE st == [bigbangStatus EXCEPT ![id] = "COMPLETED"]
  <2>1. /\ bigbangStatus' = Bigbang!Unblocked(st, id)
        /\ UNCHANGED <<bigbangDeps, bigbangFrames, bigbangInterrupted>>
    BY <1>6 DEF Bigbang!CompleteTask
  <2>2. /\ st \in [Ids -> BigbangStatuses]
        /\ \A d \in Ids : st[d] = IF d = id THEN "COMPLETED" ELSE bigbangStatus[d]
    BY <1>t DEF BigbangStatuses
  <2> HIDE DEF st
  <2>3. \A d \in Ids \ {id} : bigbangStatus[d] # "COMPLETED" => bigbangStatus'[d] # "COMPLETED"
    BY <2>1, <2>2, BigbangUnblocked
  <2>4. \A d \in Ids \ {id} : Holds(d) => Holds(d)'
    BY <1>u, <2>1, <2>3
  <2>5. QED
    BY <1>5, <2>1, <2>2, <2>4
<1>7. ASSUME NEW id \in Ids, Bigbang!FailTask(id)
      PROVE  Waits(i)'
  <2>1. /\ bigbangStatus' = [bigbangStatus EXCEPT ![id] = "FAILED"]
        /\ UNCHANGED <<bigbangDeps, bigbangFrames, bigbangInterrupted>>
    BY <1>7 DEF Bigbang!FailTask
  <2>2. \A d \in Ids : bigbangStatus'[d] = IF d = id THEN "FAILED" ELSE bigbangStatus[d]
    BY <1>t, <2>1
  <2>3. \A d \in bigbangDeps[i] : Holds(d) => Holds(d)'
    BY <1>t, <1>u, <2>1, <2>2
  <2>4. QED
    BY <1>t, <2>1, <2>2, <2>3, WaitsStill
<1>8. ASSUME NEW id \in Ids, Bigbang!ExecuteNextTask(id)
      PROVE  Waits(i)'
  <2>1. /\ bigbangFrames' = Append(bigbangFrames,
                                   [found |-> id, hook |-> "onTaskExecute", gone |-> FALSE])
        /\ UNCHANGED <<bigbangStatus, bigbangDeps, bigbangInterrupted>>
    BY <1>8 DEF Bigbang!ExecuteNextTask
  <2>2. \A n \in DOMAIN bigbangFrames : n \in DOMAIN bigbangFrames' /\ bigbangFrames'[n] = bigbangFrames[n]
    BY <1>t, <2>1
  <2>3. \A d \in bigbangDeps[i] : Holds(d) => Holds(d)'
    BY <2>1, <2>2, HoldsStill DEF Bigbang!Announcing
  <2>4. QED
    BY <1>t, <2>1, <2>3, WaitsStill
<1>9. CASE Bigbang!OnTaskExecuteReturns
  <2>1. /\ bigbangFrames # <<>> /\ Bigbang!Top.hook = "onTaskExecute"
        /\ bigbangStatus' = IF Bigbang!Top.gone THEN bigbangStatus
                            ELSE [bigbangStatus EXCEPT ![Bigbang!Top.found] = "COMPLETED"]
        /\ bigbangFrames' = [bigbangFrames EXCEPT ![Len(bigbangFrames)].hook = "onTaskComplete"]
        /\ UNCHANGED <<bigbangDeps, bigbangInterrupted>>
    BY <1>9 DEF Bigbang!OnTaskExecuteReturns
  <2>a. /\ Len(bigbangFrames) \in Nat \ {0} /\ DOMAIN bigbangFrames = 1..Len(bigbangFrames)
        /\ Bigbang!Top = bigbangFrames[Len(bigbangFrames)]
        /\ Bigbang!Top \in Bigbang!Frame /\ Bigbang!Top.found \in Ids
    BY <2>1, BigbangTop
  <2>2. /\ Len(bigbangFrames) \in DOMAIN bigbangFrames
        /\ Bigbang!Top = bigbangFrames[Len(bigbangFrames)]
        /\ Bigbang!Top \in Bigbang!Frame /\ Bigbang!Top.found \in Ids
    BY <2>a
  <2>3. /\ DOMAIN bigbangFrames' = DOMAIN bigbangFrames
        /\ \A n \in DOMAIN bigbangFrames \ {Len(bigbangFrames)} : bigbangFrames'[n] = bigbangFrames[n]
        /\ bigbangFrames'[Len(bigbangFrames)] = [Bigbang!Top EXCEPT !.hook = "onTaskComplete"]
    BY <1>t, <2>1, <2>2
  <2>4. /\ bigbangFrames'[Len(bigbangFrames)].found = Bigbang!Top.found
        /\ bigbangFrames'[Len(bigbangFrames)].hook = "onTaskComplete"
        /\ bigbangFrames'[Len(bigbangFrames)].gone = Bigbang!Top.gone
    BY <2>2, <2>3 DEF Bigbang!Frame
  <2>5. \A d \in Ids : Bigbang!Announcing(d) => Bigbang!Announcing(d)'
    BY <2>1, <2>2, <2>3 DEF Bigbang!Announcing
  <2>6. ~Bigbang!Top.gone => \A d \in Ids : d = Bigbang!Top.found => Bigbang!Announcing(d)'
    BY <2>2, <2>3, <2>4 DEF Bigbang!Announcing
  <2>7. /\ bigbangStatus'[i] = "PENDING" => bigbangStatus[i] = "PENDING"
        /\ \A d \in Ids : bigbangStatus'[d] # bigbangStatus[d] => ~Bigbang!Top.gone /\ d = Bigbang!Top.found
    BY <1>t, <2>1, <2>2
  <2>8. \A d \in Ids : Holds(d) => Holds(d)'
    BY <2>1, <2>5, <2>6, <2>7 DEF Holds
  <2>9. QED
    BY <1>t, <2>1, <2>7, <2>8, WaitsStill
<1>10. CASE Bigbang!OnTaskCompleteReturns
  <2>1. /\ bigbangFrames # <<>> /\ Bigbang!PopFrame /\ Bigbang!Top.found \in Ids
        /\ bigbangStatus' = Bigbang!Unblocked(bigbangStatus, Bigbang!Top.found)
        /\ UNCHANGED <<bigbangDeps, bigbangInterrupted>>
    BY <1>10, BigbangTop DEF Bigbang!OnTaskCompleteReturns
  <2>2. \A d \in Ids : bigbangStatus[d] # "COMPLETED" => bigbangStatus'[d] # "COMPLETED"
    BY <1>t, <2>1, BigbangUnblocked
  <2>3. \A d \in Ids \ {Bigbang!Top.found} : Holds(d) => Holds(d)'
    BY <2>1, <2>2, AnnouncingPop, HoldsStill
  <2>4. QED
    BY <1>t, <1>5, <2>1, <2>3
<1>11. CASE Bigbang!HookThrows
  <2>1. /\ bigbangFrames # <<>> /\ Bigbang!PopFrame /\ Bigbang!Top.found \in Ids
        /\ bigbangInterrupted' = IF Bigbang!Top.hook = "onTaskComplete" /\ ~Bigbang!Top.gone
                                 THEN bigbangInterrupted \cup {Bigbang!Top.found}
                                 ELSE bigbangInterrupted
        /\ UNCHANGED <<bigbangStatus, bigbangDeps>>
    BY <1>11, BigbangTop DEF Bigbang!HookThrows
  <2>2. \A d \in Ids : Holds(d) => Holds(d)'
    BY <2>1, AnnouncingPop DEF Holds
  <2>3. QED
    BY <1>t, <2>1, <2>2, WaitsStill
<1>12. \A id \in Ids : bigbangDeps[id] \in SUBSET Ids
  BY <1>t
<1>13. QED
  BY <1>1, <1>2, <1>3, <1>4, <1>6, <1>7, <1>8, <1>9, <1>10, <1>11, <1>12 DEF Bigbang!Next

\* bigbang: the adjacency is the graph reversed, and a PENDING task waits for something,
\* through nested executions and whatever the hooks call.
THEOREM BigbangSound == Spec => []BigbangGraphSound
<1> DEFINE Inv == program = "bigbang" =>
                     BigbangTyped /\ Bigbang!AdjacencyExact /\ \A i \in Ids : Waits(i)
<1>1. Init => Inv
  <2>1. SUFFICES ASSUME Bigbang!Init
                 PROVE  BigbangTyped /\ Bigbang!AdjacencyExact /\ \A i \in Ids : Waits(i)
    BY DEF Init
  <2>2. BigbangTyped
    BY <2>1 DEF Bigbang!Init, BigbangTyped, BigbangStatuses
  <2>3. QED
    BY <2>1, <2>2 DEF Bigbang!Init, Bigbang!AdjacencyExact, Waits
<1>2. Inv /\ [Next]_vars => Inv'
  <2>1. SUFFICES ASSUME Inv, [Next]_vars, program' = "bigbang"
                 PROVE  (BigbangTyped /\ Bigbang!AdjacencyExact /\ \A i \in Ids : Waits(i))'
    OBVIOUS
  <2>2. program = "bigbang" /\ (Bigbang!Next \/ UNCHANGED bigbangVars)
    BY <2>1 DEF Next, vars
  <2>3. CASE Bigbang!Next
    BY <2>1, <2>2, <2>3, BigbangTypeStep, BigbangAdjacencyStep, WaitsStep
  <2>4. CASE UNCHANGED bigbangVars
    BY <2>1, <2>2, <2>4
    DEF bigbangVars, BigbangTyped, Bigbang!AdjacencyExact, Waits, Holds, Bigbang!Announcing
  <2>5. QED
    BY <2>2, <2>3, <2>4
<1>3. Inv => BigbangGraphSound
    BY DEF BigbangGraphSound, Bigbang!PendingIsBlocked, Waits, Holds
<1>4. QED
    BY <1>1, <1>2, <1>3, PTL DEF Spec
-----------------------------------------------------------------------------
(* kat *)

KatTyped ==
    /\ katStatus \in [Ids -> {"NONE", "pending", "completed"}]
    /\ katDeps \in [Ids -> SUBSET Ids]
    /\ katDependents \in [Ids -> SUBSET Ids]

\* Both ends of every edge exist and know it; a task that is gone has no edges, so
\* that removeTask, which only goes through dependents that exist, misses none.
KatEdgesKnown ==
    \A i, d \in Ids : d \in katDeps[i] =>
        katStatus[i] # "NONE" /\ katStatus[d] # "NONE" /\ i \in katDependents[d]

KatInv == KatTyped /\ KatEdgesKnown /\ IsAcyclic(katDeps)

\* KatScheduler's words for graphs are those of Reachability.
LEMMA KatWords ==
    ASSUME NEW succ, NEW from
    PROVE  /\ Kat!ReachableFrom(succ, from) = ReachableFrom(succ, from)
           /\ Kat!IsAcyclic(succ) <=> IsAcyclic(succ)
  BY DEF Kat!ReachableFrom, ReachableFrom, Kat!ClosedUnder, ClosedUnder, Kat!IsAcyclic, IsAcyclic

\* An addition closes no cycle: nothing leads to a task that was not there.
LEMMA KatAddAcyclic ==
    ASSUME KatInv, NEW id \in Ids, NEW D \in SUBSET Kat!Existing, katStatus[id] = "NONE"
    PROVE  IsAcyclic([katDeps EXCEPT ![id] = D])
<1>t. katDeps \in [Ids -> SUBSET Ids] /\ IsAcyclic(katDeps)
    BY DEF KatInv, KatTyped
<1>e. Kat!Existing \in SUBSET Ids /\ id \notin Kat!Existing
    BY DEF Kat!Existing
<1>1. ClosedUnder(katDeps, Kat!Existing)
  <2>1. ASSUME NEW n \in Kat!Existing, NEW d \in katDeps[n]
        PROVE  d \in Kat!Existing
    <3>1. n \in Ids /\ d \in Ids
      BY <1>t, <1>e
    <3>2. QED
      BY <3>1 DEF KatInv, KatEdgesKnown, Kat!Existing
  <2>2. QED
    BY <2>1 DEF ClosedUnder
<1>2. ASSUME NEW d \in D
      PROVE  id \notin ReachableFrom(katDeps, {d})
  <2>1. {d} \subseteq Kat!Existing
    OBVIOUS
  <2>2. ReachableFrom(katDeps, {d}) \subseteq Kat!Existing
    BY <1>t, <1>e, <1>1, <2>1, ReachLeast
  <2>3. QED
    BY <1>e, <2>2
<1>3. D \in SUBSET Ids
    BY <1>e
<1>4. QED
    BY <1>t, <1>2, <1>3, AcyclicUpdate

\* addDependency closes no cycle: the walk along dependencies has not met the task,
\* and it meets it from an old dependency only where there is a cycle already.
LEMMA KatEdgeAcyclic ==
    ASSUME KatInv, NEW id \in Ids, NEW d \in Ids, ~Kat!WouldCreateCycle(id, d)
    PROVE  IsAcyclic([katDeps EXCEPT ![id] = @ \cup {d}])
<1>t. katDeps \in [Ids -> SUBSET Ids] /\ IsAcyclic(katDeps)
    BY DEF KatInv, KatTyped
<1>1. \A e \in katDeps[id] : id \notin ReachableFrom(katDeps, {e})
    BY <1>t, AcyclicNoReturn
<1>2. \A e \in katDeps[id] \cup {d} : id \notin ReachableFrom(katDeps, {e})
    BY <1>1, KatWords DEF Kat!WouldCreateCycle
<1>3. katDeps[id] \cup {d} \in SUBSET Ids
    BY <1>t
<1>4. IsAcyclic([katDeps EXCEPT ![id] = katDeps[id] \cup {d}])
    BY <1>t, <1>2, <1>3, AcyclicUpdate
<1>5. QED
    BY <1>4

\* Every step keeps kat's graph sound.
LEMMA KatStep ==
    ASSUME KatInv, Kat!Next
    PROVE  KatInv'
<1>t. /\ katStatus \in [Ids -> {"NONE", "pending", "completed"}]
      /\ katDeps \in [Ids -> SUBSET Ids] /\ katDependents \in [Ids -> SUBSET Ids]
      /\ KatEdgesKnown /\ IsAcyclic(katDeps)
    BY DEF KatInv, KatTyped
<1>1. ASSUME NEW id \in Ids, NEW k, NEW D \in SUBSET Ids, Kat!AddTask(id, k, D)
      PROVE  KatInv'
  <2>1. /\ katStatus[id] = "NONE" /\ D \subseteq Kat!Existing
        /\ katStatus' = [katStatus EXCEPT ![id] = "pending"]
        /\ katDeps' = [katDeps EXCEPT ![id] = D]
        /\ katDependents' = [d \in Ids |-> IF d \in D THEN katDependents[d] \cup {id}
                                           ELSE katDependents[d]]
    BY <1>1 DEF Kat!AddTask
  <2>2. KatTyped'
    BY <1>t, <2>1 DEF KatTyped
  <2>3. IsAcyclic(katDeps')
    BY <2>1, KatAddAcyclic
  <2>4. ASSUME NEW i \in Ids, NEW d \in Ids, d \in katDeps'[i]
        PROVE  katStatus'[i] # "NONE" /\ katStatus'[d] # "NONE" /\ i \in katDependents'[d]
    <3>1. CASE i = id
      <4>1. d \in D
        BY <1>t, <2>1, <2>4, <3>1
      <4>2. QED
        BY <1>t, <2>1, <3>1, <4>1 DEF Kat!Existing
    <3>2. CASE i # id
      <4>1. d \in katDeps[i]
        BY <1>t, <2>1, <2>4, <3>2
      <4>2. QED
        BY <1>t, <2>1, <4>1 DEF KatEdgesKnown
    <3>3. QED
      BY <3>1, <3>2
  <2>5. QED
    BY <2>2, <2>3, <2>4 DEF KatInv, KatEdgesKnown
<1>2. ASSUME NEW id \in Ids, Kat!CompleteTask(id)
      PROVE  KatInv'
  <2>1. /\ katStatus' = [katStatus EXCEPT ![id] = "completed"] /\ katStatus[id] # "NONE"
        /\ UNCHANGED <<katDeps, katDependents>>
    BY <1>2 DEF Kat!CompleteTask
  <2>2. KatTyped' /\ \A i \in Ids : katStatus[i] # "NONE" => katStatus'[i] # "NONE"
    BY <1>t, <2>1 DEF KatTyped
  <2>3. QED
    BY <1>t, <2>1, <2>2 DEF KatInv, KatEdgesKnown
<1>3. ASSUME NEW id \in Ids, NEW k, Kat!UpdateTaskPriority(id, k) \/ Kat!UpdateTaskTimestamp(id, k)
      PROVE  KatInv'
  <2>1. UNCHANGED <<katStatus, katDeps, katDependents>>
    BY <1>3 DEF Kat!UpdateTaskPriority, Kat!UpdateTaskTimestamp, Kat!Rekey
  <2>2. QED
    BY <1>t, <2>1 DEF KatInv, KatTyped, KatEdgesKnown
<1>4. ASSUME NEW id \in Ids, NEW d \in Ids, Kat!AddDependency(id, d)
      PROVE  KatInv'
  <2>1. /\ id \in Kat!Existing /\ d \in Kat!Existing /\ ~Kat!WouldCreateCycle(id, d)
        /\ katDeps' = [katDeps EXCEPT ![id] = @ \cup {d}]
        /\ katDependents' = [katDependents EXCEPT ![d] = @ \cup {id}]
        /\ UNCHANGED katStatus
    BY <1>4 DEF Kat!AddDependency
  <2>2. KatTyped'
    BY <1>t, <2>1 DEF KatTyped
  <2>3. IsAcyclic(katDeps')
    BY <2>1, KatEdgeAcyclic
  <2>4. KatEdgesKnown'
    BY <1>t, <2>1 DEF KatEdgesKnown, Kat!Existing
  <2>5. QED
    BY <2>2, <2>3, <2>4 DEF KatInv
<1>5. ASSUME NEW id \in Ids, NEW d \in Ids, Kat!RemoveDependency(id, d)
      PROVE  KatInv'
  <2>1. /\ katDeps' = [katDeps EXCEPT ![id] = @ \ {d}]
        /\ katDependents' = IF d \in Kat!Existing THEN [katDependents EXCEPT ![d] = @ \ {id}]
                            ELSE katDependents
        /\ UNCHANGED katStatus
    BY <1>5 DEF Kat!RemoveDependency
  <2>2. KatTyped'
    BY <1>t, <2>1 DEF KatTyped
  <2>3. katDeps' \in [Ids -> SUBSET Ids] /\ \A n \in Ids : katDeps'[n] \subseteq katDeps[n]
    BY <1>t, <2>1
  <2>4. IsAcyclic(katDeps')
    BY <1>t, <2>3, AcyclicSubgraph
  <2>5. KatEdgesKnown'
    BY <1>t, <2>1 DEF KatEdgesKnown
  <2>6. QED
    BY <2>2, <2>4, <2>5 DEF KatInv
<1>6. ASSUME NEW id \in Ids, Kat!RemoveTask(id)
      PROVE  KatInv'
  <2>1. /\ katDeps' = [i \in Ids |-> IF i = id THEN {}
                                     ELSE IF i \in Kat!Released(id) THEN katDeps[i] \ {id}
                                     ELSE katDeps[i]]
        /\ katDependents' = [katDependents EXCEPT ![id] = {}]
        /\ katStatus' = [katStatus EXCEPT ![id] = "NONE"]
    BY <1>6 DEF Kat!RemoveTask
  <2>2. KatTyped'
    BY <1>t, <2>1 DEF KatTyped
  <2>3. katDeps' \in [Ids -> SUBSET Ids] /\ \A n \in Ids : katDeps'[n] \subseteq katDeps[n]
    BY <1>t, <2>1
  <2>4. IsAcyclic(katDeps')
    BY <1>t, <2>3, AcyclicSubgraph
  <2>5. ASSUME NEW i \in Ids, NEW d \in Ids, d \in katDeps'[i]
        PROVE  katStatus'[i] # "NONE" /\ katStatus'[d] # "NONE" /\ i \in katDependents'[d]
    <3>1. d \in katDeps[i] /\ i # id
      BY <2>1, <2>3, <2>5
    <3>2. katStatus[i] # "NONE" /\ katStatus[d] # "NONE" /\ i \in katDependents[d]
      BY <1>t, <3>1 DEF KatEdgesKnown
    <3>3. d # id
      BY <2>1, <2>5, <3>1, <3>2 DEF Kat!Released
    <3>4. QED
      BY <1>t, <2>1, <3>1, <3>2, <3>3
  <2>6. QED
    BY <2>2, <2>4, <2>5 DEF KatInv, KatEdgesKnown
<1>7. QED
  BY <1>1, <1>2, <1>3, <1>4, <1>5, <1>6 DEF Kat!Next

\* kat's edges are sound in every behaviour.
THEOREM KatInvariant == Spec => [](program = "kat" => KatInv)
<1> DEFINE Inv == program = "kat" => KatInv
<1>1. Init => Inv
  <2>1. SUFFICES ASSUME Kat!Init PROVE KatInv
    BY DEF Init
  <2>2. katDeps = [i \in Ids |-> {}] /\ KatTyped /\ KatEdgesKnown
    BY <2>1 DEF Kat!Init, KatTyped, KatEdgesKnown
  <2>3. IsAcyclic(katDeps)
    BY <2>2 DEF IsAcyclic
  <2>4. QED
    BY <2>2, <2>3 DEF KatInv
<1>2. Inv /\ [Next]_vars => Inv'
  <2>1. SUFFICES ASSUME Inv, [Next]_vars, program' = "kat" PROVE KatInv'
    OBVIOUS
  <2>2. program = "kat" /\ (Kat!Next \/ UNCHANGED katVars)
    BY <2>1 DEF Next, vars
  <2>3. CASE Kat!Next
    BY <2>1, <2>2, <2>3, KatStep
  <2>4. CASE UNCHANGED katVars
    BY <2>1, <2>2, <2>4 DEF katVars, KatInv, KatTyped, KatEdgesKnown
  <2>5. QED
    BY <2>2, <2>3, <2>4
<1>3. QED
    BY <1>1, <1>2, PTL DEF Spec

\* kat: edges are known at both ends, lead to tasks that exist and close no cycle,
\* through removals of tasks and additions of the same ids.
THEOREM KatSound == Spec => []KatGraphSound
<1>1. (program = "kat" => KatInv) => KatGraphSound
    BY KatWords DEF KatInv, KatEdgesKnown, KatGraphSound, Kat!GraphSound, Kat!Existing
<1>2. QED
    BY <1>1, KatInvariant, PTL

\* KatScheduler's heap operations are those of AgnesHeap.
LEMMA KatSame ==
    /\ \A h, at, before : Kat!H!SiftDown(h, at, before) = SiftDown(h, at, before)
    /\ \A h, k : Kat!H!Vacate(h, k) = Vacate(h, k)
    /\ \A h, k, before : Kat!H!Push(h, k, before) = Push(h, k, before)
    /\ \A h : Kat!H!Size(h) = Size(h)
    /\ \A h : Kat!H!Coherent(h) <=> Coherent(h)
<1>1. \A h, at, before : Kat!H!SiftUp(h, at, before) = SiftUp(h, at, before)
    BY DEF Kat!H!SiftUp, SiftUp, Kat!H!Swap, Swap, Kat!H!Sifts, Sifts, Kat!H!Arrays, Arrays
<1>2. \A h, at, before : Kat!H!SiftDown(h, at, before) = SiftDown(h, at, before)
    BY DEF Kat!H!SiftDown, SiftDown, Kat!H!Swap, Swap, Kat!H!Sifts, Sifts,
           Kat!H!Arrays, Arrays, Kat!H!Best, Best
<1>3. \A h, k : Kat!H!Vacate(h, k) = Vacate(h, k)
    BY DEF Kat!H!Vacate, Vacate, Kat!H!Size, Size
<1>4. \A h, at, before : Kat!H!Reseat(h, at, before) = Reseat(h, at, before)
    BY <1>1, <1>2 DEF Kat!H!Reseat, Reseat
<1>5. \A h, k, before : Kat!H!Push(h, k, before) = Push(h, k, before)
    BY <1>1, <1>4 DEF Kat!H!Push, Push, Kat!H!HeapContains, HeapContains, Kat!H!Size, Size
<1>6. QED
    BY <1>2, <1>3, <1>5 DEF Kat!H!Size, Size, Kat!H!Coherent, Coherent

\* Taking a node out keeps the index right, whatever the order.
LEMMA KatHeapRemoved ==
    ASSUME NEW h \in Heaps(Ids), NEW id \in Ids, h.index[id] # 0, NEW t
    PROVE  /\ Kat!HeapRemove(h, id, t) \in Heaps(Ids)
           /\ KeysIn(Kat!HeapRemove(h, id, t)) = KeysIn(h) \ {id}
<1> DEFINE rest == Vacate(h, id)
           at == h.index[id]
<1>1. /\ rest \in Heaps(Ids) /\ KeysIn(rest) = KeysIn(h) \ {id}
      /\ Size(rest) \in Nat /\ at \in Nat
      /\ at <= Size(rest) => at \in 1..Size(rest)
    BY VacatedIndexed, ArraysRight DEF Heaps
<1>2. Kat!HeapRemove(h, id, t)
        = IF at > Size(rest) THEN rest ELSE SiftDown(rest, at, Kat!Above(t))[1]
    BY KatSame DEF Kat!HeapRemove
<1> HIDE DEF rest, at
<1>3. ~(at > Size(rest)) => at \in 1..Size(rest)
    BY <1>1
<1>4. QED
    BY <1>1, <1>2, <1>3, SiftedIndexed

\* The keys that tasks may have.
KatKeys == [priority : Priorities, executeAt : Times, createdAt : CreationTimes]

\* The heap holds the tasks that exist, and they have keys.
KatHeapInv ==
    /\ KatTyped
    /\ \A i \in Ids : IF katStatus[i] = "NONE" THEN katTask[i] = Kat!Unset ELSE katTask[i] \in KatKeys
    /\ DOMAIN katTask = Ids
    /\ katHeap \in Heaps(Ids)
    /\ KeysIn(katHeap) = Kat!Existing

\* Every method keeps the heap and the tasks together.
LEMMA KatHeapStep ==
    ASSUME KatHeapInv, Kat!Next
    PROVE  KatHeapInv'
<1>t. /\ katStatus \in [Ids -> {"NONE", "pending", "completed"}]
      /\ katDeps \in [Ids -> SUBSET Ids] /\ katDependents \in [Ids -> SUBSET Ids]
      /\ katHeap \in Heaps(Ids) /\ KeysIn(katHeap) = Kat!Existing
      /\ DOMAIN katTask = Ids /\ DOMAIN katHeap.index = Ids
      /\ \A i \in Ids : i \in Kat!Existing <=> katStatus[i] # "NONE"
      /\ \A i \in Ids : i \in Kat!Existing <=> katHeap.index[i] # 0
      /\ \A i \in Ids : IF katStatus[i] = "NONE" THEN katTask[i] = Kat!Unset ELSE katTask[i] \in KatKeys
  <2>1. DOMAIN katHeap.index = Ids
    BY ArraysRight DEF KatHeapInv, Heaps
  <2>2. QED
    BY <2>1 DEF KatHeapInv, KatTyped, KeysIn, Kat!Existing
<1>1. ASSUME NEW id \in Ids, NEW k \in KatKeys, NEW D \in SUBSET Ids, Kat!AddTask(id, k, D)
      PROVE  KatHeapInv'
  <2>1. /\ katStatus[id] = "NONE" /\ D \subseteq Kat!Existing
        /\ katStatus' = [katStatus EXCEPT ![id] = "pending"]
        /\ katTask' = [katTask EXCEPT ![id] = k]
        /\ katDeps' = [katDeps EXCEPT ![id] = D]
        /\ katDependents' = [d \in Ids |-> IF d \in D THEN katDependents[d] \cup {id}
                                           ELSE katDependents[d]]
        /\ katHeap' = Push(katHeap, id, Kat!Above(katTask'))
    BY <1>1, KatSame DEF Kat!AddTask, Kat!HeapAdd
  <2>2. KatTyped'
    BY <1>t, <2>1 DEF KatTyped
  <2>3. katHeap' \in Heaps(Ids) /\ KeysIn(katHeap') = KeysIn(katHeap) \cup {id}
    <3>1. PICK before : katHeap' = Push(katHeap, id, before)
      BY <2>1
    <3>2. katHeap \in Heaps(Ids)
      BY <1>t
    <3>3. QED
      BY <3>1, <3>2, PushedIndexed
  <2>4. Kat!Existing' = Kat!Existing \cup {id}
    BY <1>t, <2>1 DEF Kat!Existing
  <2>5. /\ DOMAIN katTask' = Ids
        /\ \A i \in Ids : IF katStatus'[i] = "NONE" THEN katTask'[i] = Kat!Unset ELSE katTask'[i] \in KatKeys
    BY <1>t, <2>1
  <2>6. QED
    BY <1>t, <2>2, <2>3, <2>4, <2>5 DEF KatHeapInv, Kat!Unset
<1>2. ASSUME NEW id \in Ids, Kat!CompleteTask(id)
      PROVE  KatHeapInv'
  <2>1. /\ katStatus' = [katStatus EXCEPT ![id] = "completed"] /\ katStatus[id] # "NONE"
        /\ UNCHANGED <<katTask, katDeps, katDependents, katHeap>>
    BY <1>2 DEF Kat!CompleteTask
  <2>2. KatTyped' /\ Kat!Existing' = Kat!Existing
    BY <1>t, <2>1 DEF KatTyped, Kat!Existing
  <2>3. QED
    BY <1>t, <2>1, <2>2 DEF KatHeapInv, Kat!Unset
<1>3. ASSUME NEW id \in Ids, NEW k, k \in KatKeys, Kat!Rekey(id, k)
      PROVE  KatHeapInv'
  <2> DEFINE rest == Kat!HeapRemove(katHeap, id, katTask)
  <2>1. /\ katStatus[id] # "NONE" /\ katTask' = [katTask EXCEPT ![id] = k]
        /\ katHeap' = Push(rest, id, Kat!Above(katTask'))
        /\ UNCHANGED <<katStatus, katDeps, katDependents>>
    BY <1>3, KatSame DEF Kat!Rekey, Kat!HeapAdd
  <2>2. rest \in Heaps(Ids) /\ KeysIn(rest) = KeysIn(katHeap) \ {id}
    BY <1>t, <2>1, KatHeapRemoved
  <2> HIDE DEF rest
  <2>3. katHeap' \in Heaps(Ids) /\ KeysIn(katHeap') = KeysIn(rest) \cup {id}
    <3>1. PICK before : katHeap' = Push(rest, id, before)
      BY <2>1
    <3>2. QED
      BY <2>2, <3>1, PushedIndexed
  <2>4. KatTyped' /\ Kat!Existing' = Kat!Existing /\ id \in Kat!Existing
    BY <1>t, <2>1 DEF KatTyped, Kat!Existing
  <2>5. KeysIn(katHeap') = Kat!Existing'
    BY <1>t, <2>2, <2>3, <2>4
  <2>6. /\ DOMAIN katTask' = Ids
        /\ \A i \in Ids : IF katStatus'[i] = "NONE" THEN katTask'[i] = Kat!Unset ELSE katTask'[i] \in KatKeys
    BY <1>t, <1>3, <2>1
  <2>7. QED
    BY <1>t, <2>3, <2>4, <2>5, <2>6 DEF KatHeapInv, Kat!Unset
<1>4. ASSUME NEW id \in Ids, NEW k \in KatKeys,
             Kat!UpdateTaskPriority(id, k) \/ Kat!UpdateTaskTimestamp(id, k)
      PROVE  KatHeapInv'
    BY <1>3, <1>4 DEF Kat!UpdateTaskPriority, Kat!UpdateTaskTimestamp
<1>5. ASSUME NEW id \in Ids, NEW d \in Ids, Kat!AddDependency(id, d) \/ Kat!RemoveDependency(id, d)
      PROVE  KatHeapInv'
  <2>1. UNCHANGED <<katStatus, katTask, katHeap>>
    BY <1>5 DEF Kat!AddDependency, Kat!RemoveDependency
  <2>2. katDeps' \in [Ids -> SUBSET Ids] /\ katDependents' \in [Ids -> SUBSET Ids]
    BY <1>t, <1>5 DEF Kat!AddDependency, Kat!RemoveDependency
  <2>3. KatTyped' /\ Kat!Existing' = Kat!Existing
    BY <1>t, <2>1, <2>2 DEF KatTyped, Kat!Existing
  <2>4. QED
    BY <1>t, <2>1, <2>3 DEF KatHeapInv, Kat!Unset
<1>6. ASSUME NEW id \in Ids, Kat!RemoveTask(id)
      PROVE  KatHeapInv'
  <2>1. /\ katDeps' = [i \in Ids |-> IF i = id THEN {}
                                     ELSE IF i \in Kat!Released(id) THEN katDeps[i] \ {id}
                                     ELSE katDeps[i]]
        /\ katDependents' = [katDependents EXCEPT ![id] = {}]
        /\ katStatus' = [katStatus EXCEPT ![id] = "NONE"]
        /\ katStatus[id] # "NONE"
        /\ katTask' = [katTask EXCEPT ![id] = Kat!Unset]
        /\ katHeap' = Kat!HeapRemove(katHeap, id, katTask)
    BY <1>6 DEF Kat!RemoveTask
  <2>2. KatTyped'
    BY <1>t, <2>1 DEF KatTyped
  <2>3. katHeap' \in Heaps(Ids) /\ KeysIn(katHeap') = KeysIn(katHeap) \ {id}
    BY <1>t, <2>1, KatHeapRemoved
  <2>4. Kat!Existing' = Kat!Existing \ {id}
    BY <1>t, <2>1 DEF Kat!Existing
  <2>5. /\ DOMAIN katTask' = Ids
        /\ \A i \in Ids : IF katStatus'[i] = "NONE" THEN katTask'[i] = Kat!Unset ELSE katTask'[i] \in KatKeys
    BY <1>t, <2>1
  <2>6. QED
    BY <1>t, <2>2, <2>3, <2>4, <2>5 DEF KatHeapInv, Kat!Unset
<1>7. QED
    BY <1>1, <1>2, <1>4, <1>5, <1>6 DEF Kat!Next, KatKeys

\* kat's heap and tasks stay together in every behaviour.
THEOREM KatHeapSound == Spec => [](program = "kat" => KatHeapInv)
<1> DEFINE Inv == program = "kat" => KatHeapInv
<1>1. Init => Inv
  <2>1. SUFFICES ASSUME Kat!Init PROVE KatHeapInv
    BY DEF Init
  <2> DEFINE none == [items |-> <<>>, index |-> [k \in Ids |-> 0]]
  <2>2. katHeap = none
    BY <2>1 DEF Kat!Init, Kat!H!Empty
  <2>3. none.items = <<>> /\ none.index = [k \in Ids |-> 0] /\ none \in Arrays(Ids) /\ Size(none) = 0
    BY DEF Arrays, Size
  <2>4. /\ katTask = [i \in Ids |-> Kat!Unset] /\ katStatus = [i \in Ids |-> "NONE"]
        /\ katDeps = [i \in Ids |-> {}] /\ katDependents = [i \in Ids |-> {}]
    BY <2>1 DEF Kat!Init
  <2> HIDE DEF none
  <2>5. katHeap \in Heaps(Ids) /\ KeysIn(katHeap) = {}
    BY <2>2, <2>3 DEF Heaps, Coherent, KeysIn
  <2>6. KatTyped /\ Kat!Existing = {}
    BY <2>4 DEF KatTyped, Kat!Existing
  <2>7. QED
    BY <2>4, <2>5, <2>6 DEF KatHeapInv
<1>2. Inv /\ [Next]_vars => Inv'
  <2>1. SUFFICES ASSUME Inv, [Next]_vars, program' = "kat" PROVE KatHeapInv'
    OBVIOUS
  <2>2. program = "kat" /\ (Kat!Next \/ UNCHANGED katVars)
    BY <2>1 DEF Next, vars
  <2>3. CASE Kat!Next
    BY <2>1, <2>2, <2>3, KatHeapStep
  <2>4. CASE UNCHANGED katVars
    BY <2>1, <2>2, <2>4 DEF katVars, KatHeapInv, KatTyped, Kat!Existing, Kat!Unset
  <2>5. QED
    BY <2>2, <2>3, <2>4
<1>3. QED
    BY <1>1, <1>2, PTL DEF Spec

\* What an executable task is found by: a position of the heap's array.
LEMMA KatPlaces ==
    ASSUME KatHeapInv, NEW now, NEW i \in Ids, Kat!Executable(i, now)
    PROVE  \E n \in DOMAIN katHeap.items : katHeap.items[n] = i
<1>1. /\ katHeap \in Arrays(Ids) /\ Coherent(katHeap) /\ DOMAIN katHeap.index = Ids
      /\ DOMAIN katHeap.items = 1..Size(katHeap)
    BY ArraysRight DEF KatHeapInv, Heaps
<1>2. i \in KeysIn(katHeap)
    BY DEF KatHeapInv, Kat!Existing, Kat!Executable
<1>3. QED
    BY <1>1, <1>2 DEF KeysIn, Coherent

\* Once all pending tasks are due there is an answer: some pending task depends on no
\* pending one, since there is no cycle; what it depends on exists and is thus completed;
\* and the heap holds its node.
LEMMA KatProgress ==
    ASSUME KatInv, KatHeapInv, NEW now
    PROVE  Kat!NeverStuck(now)
<1> DEFINE pending == {i \in Ids : katStatus[i] = "pending"}
           nodes   == {n \in DOMAIN katHeap.items : Kat!Executable(katHeap.items[n], now)}
<1>1. SUFFICES ASSUME pending # {}, \A i \in pending : katTask[i].executeAt <= now
               PROVE  Kat!Answer(now) # <<>>
    BY DEF Kat!NeverStuck
<1>t. /\ katStatus \in [Ids -> {"NONE", "pending", "completed"}]
      /\ katDeps \in [Ids -> SUBSET Ids] /\ IsAcyclic(katDeps) /\ KatEdgesKnown
    BY DEF KatInv, KatTyped
<1>2. PICK i \in pending : katDeps[i] \cap pending = {}
    BY <1>t, <1>1 DEF IsAcyclic
<1>3. ASSUME NEW d \in katDeps[i]
      PROVE  katStatus[d] = "completed"
  <2>1. d \in Ids /\ katStatus[d] # "NONE"
    BY <1>t DEF KatEdgesKnown
  <2>2. katStatus[d] # "pending"
    BY <1>2, <2>1
  <2>3. QED
    BY <1>t, <2>1, <2>2
<1>4. i \in Ids /\ Kat!Executable(i, now)
    BY <1>1, <1>3 DEF Kat!Executable
<1>5. nodes # {}
    BY <1>4, KatPlaces
<1>6. QED
    BY <1>5 DEF Kat!Answer

\* kat: once all pending tasks are due, getNextExecutableTask answers until none is left,
\* whatever additions, updates and removals came before.
THEOREM KatGetsThrough == Spec => []KatNeverStuck
<1>1. Spec => [](program = "kat" => KatInv)
    BY KatInvariant
<1>2. (program = "kat" => KatInv) /\ (program = "kat" => KatHeapInv) => KatNeverStuck
    BY KatProgress DEF KatNeverStuck
<1>3. QED
    BY <1>1, <1>2, KatHeapSound, PTL

-----------------------------------------------------------------------------
(* agnes flash: the heap and its loops *)

\* AgnesDispatch's heap operations are those of AgnesHeap.
LEMMA AgnesSame ==
    /\ \A h, k, before : Agnes!Push(h, k, before) = Push(h, k, before)
    /\ \A h, k, before : Agnes!RemoveEntry(h, k, before) = RemoveEntry(h, k, before)
    /\ \A h, before : Agnes!Pop(h, before) = Pop(h, before)
    /\ \A h : Agnes!Size(h) = Size(h)
    /\ \A h : Agnes!Coherent(h) <=> Coherent(h)
    /\ \A h, k : Agnes!HeapContains(h, k) <=> h.index[k] # 0
    /\ \A K : Agnes!Heaps(K) = Heaps(K)
    /\ \A K : Agnes!Empty(K) = Empty(K)
<1>1. \A h, at, before : Agnes!SiftUp(h, at, before) = SiftUp(h, at, before)
    BY DEF Agnes!SiftUp, SiftUp, Agnes!Swap, Swap, Agnes!Sifts, Sifts, Agnes!Arrays, Arrays
<1>2. \A h, at, before : Agnes!SiftDown(h, at, before) = SiftDown(h, at, before)
    BY DEF Agnes!SiftDown, SiftDown, Agnes!Swap, Swap, Agnes!Sifts, Sifts,
           Agnes!Arrays, Arrays, Agnes!Best, Best
<1>3. \A h, k : Agnes!Vacate(h, k) = Vacate(h, k)
    BY DEF Agnes!Vacate, Vacate, Agnes!Size, Size
<1>4. \A h, at, before : Agnes!Reseat(h, at, before) = Reseat(h, at, before)
    BY <1>1, <1>2 DEF Agnes!Reseat, Reseat
<1>5. /\ \A h, k, before : Agnes!Push(h, k, before) = Push(h, k, before)
      /\ \A h, k, before : Agnes!RemoveEntry(h, k, before) = RemoveEntry(h, k, before)
      /\ \A h, before : Agnes!Pop(h, before) = Pop(h, before)
  <2>1. \A h, k, before : Agnes!Push(h, k, before) = Push(h, k, before)
    BY <1>1, <1>4
    DEF Agnes!Push, Push, Agnes!HeapContains, HeapContains, Agnes!Size, Size
  <2>2. \A h, k, before : Agnes!RemoveEntry(h, k, before) = RemoveEntry(h, k, before)
    BY <1>3, <1>4
    DEF Agnes!RemoveEntry, RemoveEntry, Agnes!HeapContains, HeapContains, Agnes!Size, Size
  <2>3. \A h, before : Agnes!Pop(h, before) = Pop(h, before)
    BY <1>2, <1>3 DEF Agnes!Pop, Pop, Agnes!Size, Size
  <2>4. QED
    BY <2>1, <2>2, <2>3
<1>6. QED
    BY <1>5 DEF Agnes!Size, Size, Agnes!Coherent, Coherent, Agnes!HeapContains,
                Agnes!Arrays, Arrays,
                Agnes!Heaps, Heaps, Agnes!Empty, Empty

AgnesIds == 1..MaxId

AgnesKeys == [priority : Int, executeTime : Int, createdAt : Int]

\* compareIds orders the ids, whatever keys the tasks have; a change of one task's keys
\* concerns that task only.
LEMMA AgnesOrders ==
    ASSUME NEW t \in [AgnesIds -> AgnesKeys]
    PROVE  /\ IsOrder(AgnesIds, Agnes!Order(t))
           /\ \A a, b \in AgnesIds : a # b => <<a, b>> \in Agnes!Order(t) \/ <<b, a>> \in Agnes!Order(t)
           /\ \A k \in AgnesIds : AgreeBut(AgnesIds, k, Agnes!Order(t), Agnes!Order(t))
           /\ \A id \in AgnesIds, u \in [AgnesIds -> AgnesKeys] :
                 (\A i \in AgnesIds \ {id} : u[i] = t[i])
                    => AgreeBut(AgnesIds, id, Agnes!Order(t), Agnes!Order(u))
<1>1. /\ \A i \in AgnesIds : t[i].priority \in Int /\ t[i].executeTime \in Int /\ t[i].createdAt \in Int
      /\ \A i \in AgnesIds : i \in Nat
    BY SchedulersAssumption DEF AgnesIds, AgnesKeys
<1>2. \A u : \A a, b \in AgnesIds : <<a, b>> \in Agnes!Order(u) <=>
        \/ u[a].priority > u[b].priority /\ u[a].priority # u[b].priority
        \/ u[a].priority = u[b].priority
           /\ \/ u[a].executeTime < u[b].executeTime /\ u[a].executeTime # u[b].executeTime
              \/ u[a].executeTime = u[b].executeTime
                 /\ \/ u[a].createdAt < u[b].createdAt /\ u[a].createdAt # u[b].createdAt
                    \/ u[a].createdAt = u[b].createdAt /\ a < b
    BY DEF Agnes!Order, Agnes!Before, Agnes!TaskIds, AgnesIds
<1>3. \A a, b \in AgnesIds : <<a, b>> \in Agnes!Order(t) => <<b, a>> \notin Agnes!Order(t)
    BY <1>1, <1>2
<1>4. \A a, b \in AgnesIds : a # b => <<a, b>> \in Agnes!Order(t) \/ <<b, a>> \in Agnes!Order(t)
    BY <1>1, <1>2
<1>5. \A a, b, c \in AgnesIds : <<b, a>> \notin Agnes!Order(t) /\ <<c, b>> \notin Agnes!Order(t)
                                   => <<c, a>> \notin Agnes!Order(t)
    BY <1>1, <1>2
<1>6. ASSUME NEW id \in AgnesIds, NEW u \in [AgnesIds -> AgnesKeys],
             \A i \in AgnesIds \ {id} : u[i] = t[i]
      PROVE  AgreeBut(AgnesIds, id, Agnes!Order(t), Agnes!Order(u))
  <2>1. SUFFICES ASSUME NEW a \in AgnesIds \ {id}, NEW b \in AgnesIds \ {id}
                 PROVE  <<a, b>> \in Agnes!Order(t) <=> <<a, b>> \in Agnes!Order(u)
    BY DEF AgreeBut
  <2>2. u[a] = t[a] /\ u[b] = t[b]
    BY <1>6
  <2>3. QED
    BY <1>2, <2>2
<1>7. QED
    BY <1>3, <1>4, <1>5, <1>6 DEF IsOrder, AgreeBut

AgnesStatuses == {"NONE", "PENDING", "READY", "RUNNING", "TERMINAL"}

\* What the pop loop goes through, from the heap that executeNextTask finds.
Pops == [popped : Seq(AgnesIds), rest : Heaps(AgnesIds)]

AgnesOrder == Agnes!Order(agnesTask)

\* The popped and the other entries are those of the heap; none but the last popped is
\* due; and of a heap in order, nothing that is left comes before a popped entry.
PopsRight(s, now) ==
    /\ \A k : k \in KeysIn(agnesHeap) <=> k \in KeysIn(s.rest) \/ \E j \in 1..Len(s.popped) : s.popped[j] = k
    /\ \A j \in 1..Len(s.popped) : s.popped[j] \notin KeysIn(s.rest)
    /\ \A i, j \in 1..Len(s.popped) : s.popped[i] = s.popped[j] => i = j
    /\ \A j \in 1..Len(s.popped) : j # Len(s.popped) => ~Agnes!Due(s.popped[j], now)
    /\ SoundHeap(agnesHeap, AgnesIds, AgnesOrder) =>
          /\ SoundHeap(s.rest, AgnesIds, AgnesOrder)
          /\ \A j \in 1..Len(s.popped), k \in KeysIn(s.rest) : <<k, s.popped[j]>> \notin AgnesOrder

PopsOn(s) == [popped |-> Append(s.popped, s.rest.items[1]), rest |-> Agnes!Popped(s.rest, agnesTask)]

\* One round of the pop loop.
LEMMA PopsStep ==
    ASSUME agnesTask \in [AgnesIds -> AgnesKeys], NEW s \in Pops, Size(s.rest) # 0
    PROVE  /\ PopsOn(s) \in Pops /\ Size(PopsOn(s).rest) < Size(s.rest) /\ Size(s.rest) \in Nat
           /\ \A now : PopsRight(s, now) /\ ~Agnes!Found(s.popped, now) => PopsRight(PopsOn(s), now)
<1> DEFINE top == s.rest.items[1]
           g == Pop(s.rest, AgnesOrder)
           p == s.popped
           q == Append(p, top)
           u == PopsOn(s)
<1>1. p \in Seq(AgnesIds) /\ s.rest \in Heaps(AgnesIds) /\ Len(p) \in Nat
    BY DEF Pops
<1>2. /\ g \in Heaps(AgnesIds) /\ top \in KeysIn(s.rest) /\ KeysIn(g) = KeysIn(s.rest) \ {top}
      /\ Size(g) = Size(s.rest) - 1 /\ Size(s.rest) \in Nat
    BY <1>1, PoppedIndexed
<1>3. top \in AgnesIds
  <2>1. DOMAIN s.rest.index = AgnesIds
    BY <1>1, ArraysRight DEF Heaps
  <2>2. QED
    BY <1>2, <2>1 DEF KeysIn
<1>4. u = [popped |-> q, rest |-> g]
    BY AgnesSame DEF PopsOn, Agnes!Popped, AgnesOrder
<1> HIDE DEF top, g, u
<1>5. /\ q \in Seq(AgnesIds) /\ Len(q) = Len(p) + 1 /\ q[Len(p) + 1] = top
      /\ \A j \in 1..Len(p) : q[j] = p[j]
    BY <1>1, <1>3
<1> HIDE DEF p, q
<1>6. u \in Pops /\ u.popped = q /\ u.rest = g
    BY <1>2, <1>4, <1>5 DEF Pops
<1>7. ASSUME NEW now, PopsRight(s, now), ~Agnes!Found(s.popped, now)
      PROVE  PopsRight(u, now)
  <2>1. \A j \in 1..Len(q) : j \in 1..Len(p) \/ j = Len(p) + 1
    BY <1>1, <1>5
  <2>2. /\ \A k : k \in KeysIn(agnesHeap) <=> k \in KeysIn(s.rest) \/ \E j \in 1..Len(p) : p[j] = k
        /\ \A j \in 1..Len(p) : p[j] \notin KeysIn(s.rest)
        /\ \A i, j \in 1..Len(p) : p[i] = p[j] => i = j
    BY <1>7 DEF PopsRight, p
  <2>3. \A j \in 1..Len(p) : ~Agnes!Due(p[j], now)
    <3>1. \A j \in 1..Len(p) : j # Len(p) => ~Agnes!Due(p[j], now)
      BY <1>7 DEF PopsRight, p
    <3>2. Len(p) # 0 => ~Agnes!Due(p[Len(p)], now)
      BY <1>1, <1>7 DEF Agnes!Found, p
    <3>3. QED
      BY <1>1, <3>1, <3>2
  <2>4. \A k : k \in KeysIn(agnesHeap) <=> k \in KeysIn(g) \/ \E j \in 1..Len(q) : q[j] = k
    <3>1. \A j \in 1..Len(p) : j \in 1..Len(q)
      BY <1>1, <1>5
    <3>2. Len(p) + 1 \in 1..Len(q)
      BY <1>1, <1>5
    <3>3. \A k : (\E j \in 1..Len(q) : q[j] = k) <=> k = top \/ \E j \in 1..Len(p) : p[j] = k
      BY <1>5, <2>1, <3>1, <3>2
    <3>4. QED
      BY <1>2, <2>2, <3>3
  <2>5. \A j \in 1..Len(q) : q[j] \notin KeysIn(g)
    BY <1>2, <1>5, <2>1, <2>2
  <2>6. \A i, j \in 1..Len(q) : q[i] = q[j] => i = j
    BY <1>2, <1>5, <2>1, <2>2
  <2>7. \A j \in 1..Len(q) : j # Len(q) => ~Agnes!Due(q[j], now)
    BY <1>5, <2>1, <2>3
  <2>8. ASSUME SoundHeap(agnesHeap, AgnesIds, AgnesOrder)
        PROVE  /\ SoundHeap(g, AgnesIds, AgnesOrder)
               /\ \A j \in 1..Len(q), k \in KeysIn(g) : <<k, q[j]>> \notin AgnesOrder
    <3>1. /\ SoundHeap(s.rest, AgnesIds, AgnesOrder)
          /\ \A j \in 1..Len(p), k \in KeysIn(s.rest) : <<k, p[j]>> \notin AgnesOrder
      BY <1>7, <2>8 DEF PopsRight, p
    <3>2. IsOrder(AgnesIds, AgnesOrder)
      BY AgnesOrders DEF AgnesOrder
    <3>3. SoundHeap(g, AgnesIds, AgnesOrder)
      BY <3>1, <3>2, PoppedRight DEF g
    <3>4. \A k \in KeysIn(s.rest) : <<k, top>> \notin AgnesOrder
      BY <3>1, <3>2, RootFirst DEF top
    <3>5. QED
      BY <1>2, <1>5, <2>1, <3>1, <3>3, <3>4
  <2>9. QED
    BY <1>6, <2>4, <2>5, <2>6, <2>7, <2>8 DEF PopsRight
<1>8. Size(g) < Size(s.rest)
    BY <1>2
<1>9. QED
    BY <1>2, <1>6, <1>7, <1>8 DEF u

\* The pop loop of executeNextTask ends: at the first due entry, or with the heap empty.
LEMMA PopLoopEnds ==
    ASSUME agnesTask \in [AgnesIds -> AgnesKeys], agnesHeap \in Heaps(AgnesIds), NEW now
    PROVE  /\ Agnes!PopLoop(now) \in Pops /\ PopsRight(Agnes!PopLoop(now), now)
           /\ Size(Agnes!PopLoop(now).rest) = 0 \/ Agnes!Found(Agnes!PopLoop(now).popped, now)
<1> DEFINE S == Pops
           Ends(s) == Size(s.rest) = 0 \/ Agnes!Found(s.popped, now)
           Solves(f) == f = [s \in S |-> IF Ends(s) THEN s ELSE f[PopsOn(s)]]
           stop == {s \in S : Ends(s)}
           next == [s \in S |-> IF Ends(s) THEN s ELSE PopsOn(s)]
           count == [s \in S |-> Size(s.rest)]
           I == {s \in S : PopsRight(s, now)}
           start == [popped |-> <<>>, rest |-> agnesHeap]
<1>1. next \in [S -> S]
  <2>1. \A s \in S : ~Ends(s) => PopsOn(s) \in S
    BY PopsStep
  <2> HIDE DEF S, Ends
  <2>2. QED
    BY <2>1
<1>2. \E f : f = [s \in S |-> IF s \in stop THEN s ELSE f[next[s]]]
  <2> HIDE DEF stop, next, S
  <2>1. QED
    BY <1>1, LoopExists
<1>3. ASSUME NEW f
      PROVE  Solves(f) <=> f = [s \in S |-> IF s \in stop THEN s ELSE f[next[s]]]
  <2> HIDE DEF S, Ends
  <2>1. \A s \in S : (IF Ends(s) THEN s ELSE f[PopsOn(s)]) = IF s \in stop THEN s ELSE f[next[s]]
    OBVIOUS
  <2> HIDE DEF stop, next
  <2>2. [s \in S |-> IF Ends(s) THEN s ELSE f[PopsOn(s)]]
           = [s \in S |-> IF s \in stop THEN s ELSE f[next[s]]]
    BY <2>1
  <2>3. QED
    BY <2>2
<1>4. Agnes!PopLoop(now) = (CHOOSE f : Solves(f))[start]
    BY AgnesSame DEF Agnes!PopLoop, PopsOn, Pops, Agnes!TaskIds, AgnesIds
<1> HIDE DEF Solves
<1>5. PICK f : f = [s \in S |-> IF s \in stop THEN s ELSE f[next[s]]] /\ Agnes!PopLoop(now) = f[start]
    BY <1>2, <1>3, <1>4
<1>6. count \in [S -> Nat]
  <2>1. \A s \in S : s.rest \in Arrays(AgnesIds)
    BY DEF Pops, Heaps
  <2>2. \A s \in S : Size(s.rest) \in Nat
    BY <2>1, ArraysRight
  <2> HIDE DEF S
  <2>3. QED
    BY <2>2
<1>7. \A s \in I : s \notin stop => next[s] \in I /\ count[next[s]] < count[s]
  <2> SUFFICES ASSUME NEW s \in I, s \notin stop
               PROVE  next[s] \in I /\ count[next[s]] < count[s]
    OBVIOUS
  <2>1. s \in S /\ ~Ends(s) /\ PopsRight(s, now)
    OBVIOUS
  <2>2. PopsOn(s) \in S /\ PopsRight(PopsOn(s), now) /\ Size(PopsOn(s).rest) < Size(s.rest)
    BY <2>1, PopsStep
  <2> HIDE DEF S, Ends
  <2>3. QED
    BY <2>1, <2>2
<1>8. start \in I
  <2>1. start \in S /\ start.popped = <<>> /\ start.rest = agnesHeap
    BY DEF Pops
  <2> HIDE DEF start, S
  <2>2. PopsRight(start, now)
    BY <2>1 DEF PopsRight
  <2>3. QED
    BY <2>1, <2>2
<1>9. f[start] \in I /\ f[start] \in stop
  <2>1. I \in SUBSET S
    OBVIOUS
  <2>2. f = [s \in S |-> IF s \in stop THEN s ELSE f[next[s]]]
    BY <1>5
  <2> HIDE DEF stop, next, count, S, start, I
  <2>3. QED
    BY <1>6, <1>7, <1>8, <2>1, <2>2, LoopEnds
<1>10. QED
    BY <1>5, <1>9

\* The loop that pushes popped entries again: the heap, and how many it has gone through.
Backs(n) == Heaps(AgnesIds) \X (0..n)

BackOn(s, popped) ==
    <<IF agnesStatus[popped[s[2] + 1]] = "READY"
      THEN Agnes!Pushed(s[1], agnesTask, popped[s[2] + 1]) ELSE s[1],
      s[2] + 1>>

\* The READY ones of those gone through are in the heap, which keeps its order.
BackRight(s, h, popped) ==
    /\ \A k : k \in KeysIn(s[1]) <=>
          k \in KeysIn(h) \/ \E j \in 1..s[2] : popped[j] = k /\ agnesStatus[k] = "READY"
    /\ SoundHeap(h, AgnesIds, AgnesOrder) => SoundHeap(s[1], AgnesIds, AgnesOrder)

\* A popped entry that is READY goes back.
LEMMA PushedBack ==
    ASSUME agnesTask \in [AgnesIds -> AgnesKeys], NEW old \in Heaps(AgnesIds), NEW id \in AgnesIds
    PROVE  LET g == IF agnesStatus[id] = "READY" THEN Push(old, id, AgnesOrder) ELSE old
           IN  /\ g \in Heaps(AgnesIds)
               /\ \A k : k \in KeysIn(g) <=> k \in KeysIn(old) \/ (k = id /\ agnesStatus[id] = "READY")
               /\ SoundHeap(old, AgnesIds, AgnesOrder) => SoundHeap(g, AgnesIds, AgnesOrder)
<1> DEFINE g == IF agnesStatus[id] = "READY" THEN Push(old, id, AgnesOrder) ELSE old
<1>1. ASSUME agnesStatus[id] = "READY"
      PROVE  /\ g \in Heaps(AgnesIds) /\ KeysIn(g) = KeysIn(old) \cup {id}
             /\ SoundHeap(old, AgnesIds, AgnesOrder) => SoundHeap(g, AgnesIds, AgnesOrder)
  <2>1. g = Push(old, id, AgnesOrder)
    BY <1>1
  <2> HIDE DEF g
  <2>2. g \in Heaps(AgnesIds) /\ KeysIn(g) = KeysIn(old) \cup {id}
    <3>1. PICK before : g = Push(old, id, before)
      BY <2>1
    <3>2. QED
      BY <3>1, PushedIndexed
  <2>3. IsOrder(AgnesIds, AgnesOrder) /\ AgreeBut(AgnesIds, id, AgnesOrder, AgnesOrder)
    BY AgnesOrders DEF AgnesOrder
  <2>4. SoundHeap(old, AgnesIds, AgnesOrder) => SoundHeap(g, AgnesIds, AgnesOrder)
    BY <2>1, <2>3, PushedRight
  <2>5. QED
    BY <2>2, <2>4
<1>2. agnesStatus[id] # "READY" => g = old
    OBVIOUS
<1> HIDE DEF g
<1>3. /\ g \in Heaps(AgnesIds)
      /\ \A k : k \in KeysIn(g) <=> k \in KeysIn(old) \/ (k = id /\ agnesStatus[id] = "READY")
      /\ SoundHeap(old, AgnesIds, AgnesOrder) => SoundHeap(g, AgnesIds, AgnesOrder)
    BY <1>1, <1>2
<1>4. QED
    BY <1>3 DEF g

\* One round of it.
LEMMA BackStep ==
    ASSUME agnesTask \in [AgnesIds -> AgnesKeys], NEW popped \in Seq(AgnesIds),
           NEW n \in 0..Len(popped), NEW s \in Backs(n), s[2] # n
    PROVE  /\ BackOn(s, popped) \in Backs(n) /\ BackOn(s, popped)[2] = s[2] + 1
           /\ \A h : BackRight(s, h, popped) => BackRight(BackOn(s, popped), h, popped)
<1> DEFINE i == s[2]
           id == popped[i + 1]
           old == s[1]
           g == IF agnesStatus[id] = "READY" THEN Push(old, id, AgnesOrder) ELSE old
           u == BackOn(s, popped)
<1>1. old \in Heaps(AgnesIds) /\ i \in 0..n /\ i # n
    BY DEF Backs
<1>2. i + 1 \in 0..n /\ i + 1 \in 1..Len(popped)
    BY <1>1
<1>3. id \in AgnesIds
    BY <1>2
<1>4. u = <<g, i + 1>>
    BY AgnesSame DEF BackOn, Agnes!Pushed, AgnesOrder
<1> HIDE DEF i, id, old, u
<1>5. /\ g \in Heaps(AgnesIds)
      /\ \A k : k \in KeysIn(g) <=> k \in KeysIn(old) \/ (k = id /\ agnesStatus[id] = "READY")
      /\ SoundHeap(old, AgnesIds, AgnesOrder) => SoundHeap(g, AgnesIds, AgnesOrder)
    BY <1>1, <1>3, PushedBack
<1> HIDE DEF g
<1>6. u \in Backs(n) /\ u[1] = g /\ u[2] = i + 1
    BY <1>2, <1>4, <1>5 DEF Backs
<1>7. ASSUME NEW h, BackRight(s, h, popped)
      PROVE  BackRight(u, h, popped)
  <2>1. /\ \A k : k \in KeysIn(old) <=>
              k \in KeysIn(h) \/ \E j \in 1..i : popped[j] = k /\ agnesStatus[k] = "READY"
        /\ SoundHeap(h, AgnesIds, AgnesOrder) => SoundHeap(old, AgnesIds, AgnesOrder)
    BY <1>7 DEF BackRight, old, i
  <2>2. \A k : (\E j \in 1..(i + 1) : popped[j] = k /\ agnesStatus[k] = "READY")
                  <=> \/ \E j \in 1..i : popped[j] = k /\ agnesStatus[k] = "READY"
                      \/ k = id /\ agnesStatus[id] = "READY"
    <3>1. \A j : j \in 1..(i + 1) <=> j \in 1..i \/ j = i + 1
      BY <1>1
    <3>2. QED
      BY <3>1 DEF id
  <2>3. QED
    BY <1>5, <1>6, <2>1, <2>2 DEF BackRight
<1>8. QED
    BY <1>6, <1>7 DEF u, i

\* The loop's equation has a solution.
LEMMA BackLoop ==
    ASSUME NEW n, NEW next \in [Backs(n) -> Backs(n)], NEW stop
    PROVE  \E f : f = [s \in Backs(n) |-> IF s \in stop THEN s ELSE f[next[s]]]
<1> DEFINE S == Backs(n)
<1>1. next \in [S -> S]
    OBVIOUS
<1> HIDE DEF S
<1>2. \E f : f = [s \in S |-> IF s \in stop THEN s ELSE f[next[s]]]
    BY <1>1, LoopExists
<1>3. QED
    BY <1>2 DEF S

\* The READY ones of the popped entries are in the heap again, and it keeps its order.
LEMMA RepushedEnds ==
    ASSUME agnesTask \in [AgnesIds -> AgnesKeys], NEW popped, NEW n, NEW h,
           popped \in Seq(AgnesIds) /\ n \in 0..Len(popped) /\ h \in Heaps(AgnesIds)
    PROVE  /\ Agnes!Repushed(h, popped, n) \in Heaps(AgnesIds)
           /\ BackRight(<<Agnes!Repushed(h, popped, n), n>>, h, popped)
<1> DEFINE S == Backs(n)
           Solves(f) == f = [s \in S |-> IF s[2] = n THEN s ELSE f[BackOn(s, popped)]]
           stop == {s \in S : s[2] = n}
           next == [s \in S |-> IF s[2] = n THEN s ELSE BackOn(s, popped)]
           count == [s \in S |-> n - s[2]]
           I == {s \in S : BackRight(s, h, popped)}
           start == <<h, 0>>
<1>1. next \in [S -> S]
  <2>1. \A s \in S : s[2] # n => BackOn(s, popped) \in S
    BY BackStep
  <2> HIDE DEF S
  <2>2. QED
    BY <2>1
<1>2. \E f : f = [s \in S |-> IF s \in stop THEN s ELSE f[next[s]]]
  <2> HIDE DEF stop, next
  <2>1. QED
    BY <1>1, BackLoop
<1>3. ASSUME NEW f
      PROVE  Solves(f) <=> f = [s \in S |-> IF s \in stop THEN s ELSE f[next[s]]]
  <2> HIDE DEF S
  <2>1. \A s \in S : (IF s[2] = n THEN s ELSE f[BackOn(s, popped)]) = IF s \in stop THEN s ELSE f[next[s]]
    OBVIOUS
  <2> HIDE DEF stop, next
  <2>2. [s \in S |-> IF s[2] = n THEN s ELSE f[BackOn(s, popped)]]
           = [s \in S |-> IF s \in stop THEN s ELSE f[next[s]]]
    BY <2>1
  <2>3. QED
    BY <2>2
<1>4. Agnes!Repushed(h, popped, n) = (CHOOSE f : Solves(f))[start][1]
    BY AgnesSame DEF Agnes!Repushed, Agnes!RepushedAfter, Backs, BackOn, Agnes!TaskIds, AgnesIds
<1> HIDE DEF Solves
<1>5. PICK f : /\ f = [s \in S |-> IF s \in stop THEN s ELSE f[next[s]]]
               /\ Agnes!Repushed(h, popped, n) = f[start][1]
    BY <1>2, <1>3, <1>4
<1>6. count \in [S -> Nat]
    BY DEF Backs
<1>7. \A s \in I : s \notin stop => next[s] \in I /\ count[next[s]] < count[s]
  <2> SUFFICES ASSUME NEW s \in I, s \notin stop
               PROVE  next[s] \in I /\ count[next[s]] < count[s]
    OBVIOUS
  <2>1. s \in S /\ s[2] # n /\ BackRight(s, h, popped) /\ s[2] \in 0..n
    BY DEF Backs
  <2>2. /\ BackOn(s, popped) \in S /\ BackRight(BackOn(s, popped), h, popped)
        /\ BackOn(s, popped)[2] = s[2] + 1
    BY <2>1, BackStep
  <2>3. n - (s[2] + 1) < n - s[2]
    BY <2>1
  <2> HIDE DEF S
  <2>4. QED
    BY <2>1, <2>2, <2>3
<1>8. start \in I
  <2>1. start \in S /\ start[1] = h /\ start[2] = 0
    BY DEF Backs
  <2> HIDE DEF start, S
  <2>2. BackRight(start, h, popped)
    BY <2>1 DEF BackRight
  <2>3. QED
    BY <2>1, <2>2
<1> DEFINE end == f[start]
<1>9. end \in I /\ end \in stop
  <2>1. I \in SUBSET S
    OBVIOUS
  <2>2. f = [s \in S |-> IF s \in stop THEN s ELSE f[next[s]]]
    BY <1>5
  <2> HIDE DEF stop, next, count, S, start, I
  <2>3. QED
    BY <1>6, <1>7, <1>8, <2>1, <2>2, LoopEnds
<1>10. end \in S /\ BackRight(end, h, popped) /\ end[2] = n
  <2> HIDE DEF end
  <2>1. QED
    BY <1>9 DEF Backs
<1>11. Agnes!Repushed(h, popped, n) = end[1]
    BY <1>5
<1> HIDE DEF end
<1>12. end[1] \in Heaps(AgnesIds) /\ <<end[1], n>> = end
    BY <1>10 DEF Backs
<1>13. QED
    BY <1>10, <1>11, <1>12

\* What moving the entry id does when the keys change from t to u for that task only.
MovesRight(h, t, u, id) ==
    /\ Agnes!Pushed(h, u, id) \in Heaps(AgnesIds)
    /\ KeysIn(Agnes!Pushed(h, u, id)) = KeysIn(h) \cup {id}
    /\ Agnes!Removed(h, u, id) \in Heaps(AgnesIds)
    /\ KeysIn(Agnes!Removed(h, u, id)) = KeysIn(h) \ {id}
    /\ SoundHeap(h, AgnesIds, Agnes!Order(t)) =>
          /\ SoundHeap(Agnes!Pushed(h, u, id), AgnesIds, Agnes!Order(u))
          /\ SoundHeap(Agnes!Removed(h, u, id), AgnesIds, Agnes!Order(u))
          /\ id \notin KeysIn(h) => SoundHeap(h, AgnesIds, Agnes!Order(u))

\* Moving one entry is right in every heap.
LEMMA AgnesMoves ==
    ASSUME NEW t \in [AgnesIds -> AgnesKeys], NEW u \in [AgnesIds -> AgnesKeys],
           NEW id \in AgnesIds, \A i \in AgnesIds \ {id} : u[i] = t[i],
           NEW h \in Heaps(AgnesIds)
    PROVE  MovesRight(h, t, u, id)
<1> DEFINE before == Agnes!Order(t)
           after == Agnes!Order(u)
<1>1. /\ Agnes!Pushed(h, u, id) = Push(h, id, after)
      /\ Agnes!Removed(h, u, id) = RemoveEntry(h, id, after)
    BY AgnesSame DEF Agnes!Pushed, Agnes!Removed
<1>2. IsOrder(AgnesIds, before) /\ IsOrder(AgnesIds, after) /\ AgreeBut(AgnesIds, id, before, after)
    BY AgnesOrders
<1> HIDE DEF before, after
<1>3. /\ Push(h, id, after) \in Heaps(AgnesIds) /\ KeysIn(Push(h, id, after)) = KeysIn(h) \cup {id}
      /\ RemoveEntry(h, id, after) \in Heaps(AgnesIds)
      /\ KeysIn(RemoveEntry(h, id, after)) = KeysIn(h) \ {id}
  <2>1. /\ Push(h, id, after) \in Heaps(AgnesIds)
        /\ KeysIn(Push(h, id, after)) = KeysIn(h) \cup {id}
    BY PushedIndexed
  <2>2. /\ RemoveEntry(h, id, after) \in Heaps(AgnesIds)
        /\ KeysIn(RemoveEntry(h, id, after)) = KeysIn(h) \ {id}
    <3>1. RemoveEntry(h, id, after) \in Heaps(AgnesIds)
      BY RemovedIndexed
    <3>2. KeysIn(RemoveEntry(h, id, after)) = KeysIn(h) \ {id}
      BY RemovedIndexed
    <3>3. QED
      BY <3>1, <3>2
  <2>3. QED
    BY <2>1, <2>2
<1>4. ASSUME SoundHeap(h, AgnesIds, before)
      PROVE  /\ SoundHeap(Push(h, id, after), AgnesIds, after)
             /\ SoundHeap(RemoveEntry(h, id, after), AgnesIds, after)
             /\ id \notin KeysIn(h) => SoundHeap(h, AgnesIds, after)
  <2>1. SoundHeap(Push(h, id, after), AgnesIds, after)
    BY <1>2, <1>4, PushedRight
  <2>2. SoundHeap(RemoveEntry(h, id, after), AgnesIds, after)
    BY <1>2, <1>4, RemovedRight
  <2>3. ASSUME id \notin KeysIn(h) PROVE h.index[id] = 0
    <3>1. DOMAIN h.index = AgnesIds
      BY ArraysRight DEF Heaps
    <3>2. QED
      BY <2>3, <3>1 DEF KeysIn
  <2>4. id \notin KeysIn(h) => SoundHeap(h, AgnesIds, after)
    BY <1>2, <1>4, <2>3, StillSound
  <2>5. QED
    BY <2>1, <2>2, <2>4
<1>5. QED
    BY <1>1, <1>3, <1>4 DEF before, after, MovesRight

\* The types, whatever the heap holds.
AgnesTyped ==
    /\ agnesStatus \in [AgnesIds -> AgnesStatuses]
    /\ agnesTask \in [AgnesIds -> AgnesKeys]
    /\ \A i \in AgnesIds : IF agnesStatus[i] = "NONE" THEN agnesTask[i] = Agnes!Unset
                           ELSE agnesTask[i] \in Agnes!TaskKeys
    /\ agnesUpset \in BOOLEAN

\* The entries of the heap are the READY tasks and tasks that ended without leaving it,
\* and until an update of one of them fails half-way they are in order.
AgnesHeapSound ==
    /\ agnesHeap \in Heaps(AgnesIds)
    /\ \A i \in AgnesIds : agnesStatus[i] = "READY" => i \in KeysIn(agnesHeap)
    /\ \A i \in AgnesIds : i \in KeysIn(agnesHeap) => agnesStatus[i] \in {"READY", "TERMINAL"}
    /\ ~agnesUpset => SoundHeap(agnesHeap, AgnesIds, Agnes!Order(agnesTask))

AgnesInv == AgnesTyped /\ AgnesHeapSound

\* An action that gives one task a new status and new keys and moves only its entry.
LEMMA AgnesOneMoved ==
    ASSUME AgnesInv, NEW id \in AgnesIds, NEW u \in [AgnesIds -> AgnesKeys],
           \A i \in AgnesIds \ {id} : u[i] = agnesTask[i] /\ agnesStatus'[i] = agnesStatus[i],
           agnesTask' = u, agnesStatus' \in [AgnesIds -> AgnesStatuses], UNCHANGED agnesUpset,
           IF agnesStatus'[id] = "NONE" THEN u[id] = Agnes!Unset ELSE u[id] \in Agnes!TaskKeys,
           NEW h, agnesHeap' = h, h \in Heaps(AgnesIds),
           \/ KeysIn(h) = KeysIn(agnesHeap) \cup {id} /\ agnesStatus'[id] = "READY"
           \/ KeysIn(h) = KeysIn(agnesHeap) \ {id} /\ agnesStatus'[id] # "READY",
           SoundHeap(agnesHeap, AgnesIds, Agnes!Order(agnesTask)) => SoundHeap(h, AgnesIds, Agnes!Order(u))
    PROVE  AgnesInv'
<1>1. AgnesTyped'
    BY DEF AgnesInv, AgnesTyped, Agnes!Unset, Agnes!TaskKeys
<1>2. \A i \in AgnesIds : agnesStatus'[i] = "READY" => i \in KeysIn(h)
    BY DEF AgnesInv, AgnesHeapSound
<1>3. \A i \in AgnesIds : i \in KeysIn(h) => agnesStatus'[i] \in {"READY", "TERMINAL"}
    BY DEF AgnesInv, AgnesHeapSound
<1>4. ~agnesUpset' => SoundHeap(h, AgnesIds, Agnes!Order(u))
    BY DEF AgnesInv, AgnesHeapSound
<1>5. QED
    BY <1>1, <1>2, <1>3, <1>4 DEF AgnesInv, AgnesHeapSound

\* Every method but executeNextTask moves the entries of the task it is about.
LEMMA AgnesCallsStep ==
    ASSUME AgnesInv, NEW id \in AgnesIds,
           \/ \E k \in Agnes!TaskKeys, s \in {"PENDING", "READY"} : Agnes!AddTask(id, k, s)
           \/ Agnes!Unblock(id) \/ Agnes!DeleteTask(id) \/ Agnes!Leave(id)
           \/ \E s \in {"PENDING", "READY"} : Agnes!ResetTask(id, s)
           \/ \E p \in Priorities, t \in Times,
                 s \in {"PENDING", "READY", "RUNNING", "TERMINAL"} : Agnes!UpdateTask(id, p, t, s)
    PROVE  AgnesInv'
<1> DEFINE old == agnesHeap
           Same(h) == \/ KeysIn(h) = KeysIn(old) \cup {id} /\ agnesStatus'[id] = "READY"
                      \/ KeysIn(h) = KeysIn(old) \ {id} /\ agnesStatus'[id] # "READY"
           Ok(h, u) == /\ h \in Heaps(AgnesIds)
                       /\ Same(h)
                       /\ SoundHeap(old, AgnesIds, Agnes!Order(agnesTask))
                             => SoundHeap(h, AgnesIds, Agnes!Order(u))
<1>t. /\ agnesStatus \in [AgnesIds -> AgnesStatuses]
      /\ agnesTask \in [AgnesIds -> AgnesKeys] /\ old \in Heaps(AgnesIds)
      /\ \A i \in AgnesIds : IF agnesStatus[i] = "NONE" THEN agnesTask[i] = Agnes!Unset
                             ELSE agnesTask[i] \in Agnes!TaskKeys
      /\ \A i \in AgnesIds : agnesStatus[i] = "READY" => i \in KeysIn(old)
      /\ \A i \in AgnesIds : i \in KeysIn(old) => agnesStatus[i] \in {"READY", "TERMINAL"}
    BY DEF AgnesInv, AgnesTyped, AgnesHeapSound
<1>k. Agnes!Unset \in AgnesKeys /\ \A k \in Agnes!TaskKeys : k \in AgnesKeys
  <2>1. Agnes!Unset \in AgnesKeys
    BY DEF Agnes!Unset, AgnesKeys
  <2>2. \A k \in Agnes!TaskKeys : k \in AgnesKeys
    BY SchedulersAssumption DEF Agnes!TaskKeys, AgnesKeys
  <2>3. QED
    BY <2>1, <2>2
<1>m. ASSUME NEW u \in [AgnesIds -> AgnesKeys], \A i \in AgnesIds \ {id} : u[i] = agnesTask[i],
             NEW h, Ok(h, u), agnesTask' = u, agnesHeap' = h, UNCHANGED agnesUpset,
             agnesStatus' \in [AgnesIds -> AgnesStatuses],
             \A i \in AgnesIds \ {id} : agnesStatus'[i] = agnesStatus[i],
             IF agnesStatus'[id] = "NONE" THEN u[id] = Agnes!Unset ELSE u[id] \in Agnes!TaskKeys
      PROVE  AgnesInv'
  <2>1. \A i \in AgnesIds \ {id} : u[i] = agnesTask[i] /\ agnesStatus'[i] = agnesStatus[i]
    BY <1>m
  <2>2. QED
    BY <1>m, <2>1, AgnesOneMoved
<1>d. AgnesStatuses = {"NONE", "PENDING", "READY", "RUNNING", "TERMINAL"}
    BY DEF AgnesStatuses
<1>1. ASSUME NEW k \in Agnes!TaskKeys, NEW s \in {"PENDING", "READY"}, Agnes!AddTask(id, k, s)
      PROVE  AgnesInv'
  <2> DEFINE u == [agnesTask EXCEPT ![id] = k]
             g == Agnes!Pushed(old, u, id)
  <2>1. /\ agnesStatus[id] = "NONE" /\ agnesTask' = u
        /\ agnesStatus' = [agnesStatus EXCEPT ![id] = s] /\ UNCHANGED agnesUpset
        /\ agnesHeap' = IF s = "READY" THEN g ELSE old
    BY <1>1 DEF Agnes!AddTask
  <2>2. u \in [AgnesIds -> AgnesKeys] /\ u[id] = k /\ \A i \in AgnesIds \ {id} : u[i] = agnesTask[i]
    BY <1>t, <1>k
  <2> HIDE DEF u
  <2>3. /\ g \in Heaps(AgnesIds) /\ KeysIn(g) = KeysIn(old) \cup {id}
        /\ SoundHeap(old, AgnesIds, Agnes!Order(agnesTask)) =>
              /\ SoundHeap(g, AgnesIds, Agnes!Order(u))
              /\ id \notin KeysIn(old) => SoundHeap(old, AgnesIds, Agnes!Order(u))
    <3>1. MovesRight(old, agnesTask, u, id)
      BY <1>t, <2>2, AgnesMoves
    <3>2. QED
      BY <3>1 DEF MovesRight
  <2> HIDE DEF g, Same
  <2>4. id \notin KeysIn(old) /\ KeysIn(old) = KeysIn(old) \ {id}
    BY <1>t, <2>1
  <2>5. CASE s = "READY"
    <3>1. Ok(g, u)
      BY <1>t, <2>1, <2>3, <2>5 DEF Same
    <3>2. QED
      BY <1>t, <1>d, <1>m, <2>1, <2>2, <2>5, <3>1
  <2>6. CASE s = "PENDING"
    <3>1. Ok(old, u)
      BY <1>t, <2>1, <2>3, <2>4, <2>6 DEF Same
    <3>2. QED
      BY <1>t, <1>d, <1>m, <2>1, <2>2, <2>6, <3>1
  <2>7. QED
    BY <2>5, <2>6
<1>2. CASE Agnes!Unblock(id)
  <2> DEFINE u == agnesTask
             g == Agnes!Pushed(old, u, id)
  <2>1. /\ agnesStatus[id] = "PENDING" /\ agnesTask' = u /\ agnesHeap' = g
        /\ agnesStatus' = [agnesStatus EXCEPT ![id] = "READY"] /\ UNCHANGED agnesUpset
    BY <1>2 DEF Agnes!Unblock
  <2>2. /\ g \in Heaps(AgnesIds) /\ KeysIn(g) = KeysIn(old) \cup {id}
        /\ SoundHeap(old, AgnesIds, Agnes!Order(agnesTask)) => SoundHeap(g, AgnesIds, Agnes!Order(u))
    <3>1. MovesRight(old, agnesTask, u, id)
      BY <1>t, AgnesMoves
    <3>2. QED
      BY <3>1 DEF MovesRight
  <2> HIDE DEF g
  <2>3. Ok(g, u)
    BY <1>t, <2>1, <2>2
  <2>4. QED
    BY <1>t, <1>d, <1>m, <2>1, <2>3
<1>3. CASE Agnes!Leave(id)
  <2> DEFINE u == agnesTask
             g == Agnes!Removed(old, u, id)
  <2>1. /\ agnesStatus[id] # "NONE" /\ agnesTask' = u /\ agnesHeap' = g
        /\ agnesStatus' = [agnesStatus EXCEPT ![id] = "TERMINAL"] /\ UNCHANGED agnesUpset
    BY <1>3 DEF Agnes!Leave
  <2>2. /\ g \in Heaps(AgnesIds) /\ KeysIn(g) = KeysIn(old) \ {id}
        /\ SoundHeap(old, AgnesIds, Agnes!Order(agnesTask)) => SoundHeap(g, AgnesIds, Agnes!Order(u))
    <3>1. MovesRight(old, agnesTask, u, id)
      BY <1>t, AgnesMoves
    <3>2. QED
      BY <3>1 DEF MovesRight
  <2> HIDE DEF g
  <2>3. Ok(g, u)
    BY <1>t, <2>1, <2>2
  <2>4. QED
    BY <1>t, <1>d, <1>m, <2>1, <2>3
<1>4. ASSUME NEW s \in {"PENDING", "READY"}, Agnes!ResetTask(id, s)
      PROVE  AgnesInv'
  <2> DEFINE u == agnesTask
             rest == Agnes!Removed(old, u, id)
             g == Agnes!Pushed(rest, u, id)
  <2>1. /\ agnesStatus[id] = "TERMINAL" /\ agnesTask' = u
        /\ agnesHeap' = (IF s = "READY" THEN g ELSE rest)
        /\ agnesStatus' = [agnesStatus EXCEPT ![id] = s] /\ UNCHANGED agnesUpset
    BY <1>4 DEF Agnes!ResetTask
  <2>2. /\ rest \in Heaps(AgnesIds) /\ KeysIn(rest) = KeysIn(old) \ {id}
        /\ SoundHeap(old, AgnesIds, Agnes!Order(agnesTask)) => SoundHeap(rest, AgnesIds, Agnes!Order(u))
    <3>1. MovesRight(old, agnesTask, u, id)
      BY <1>t, AgnesMoves
    <3>2. QED
      BY <3>1 DEF MovesRight
  <2> HIDE DEF rest
  <2>3. /\ g \in Heaps(AgnesIds) /\ KeysIn(g) = KeysIn(rest) \cup {id}
        /\ SoundHeap(rest, AgnesIds, Agnes!Order(u)) => SoundHeap(g, AgnesIds, Agnes!Order(u))
    <3>1. MovesRight(rest, u, u, id)
      BY <1>t, <2>2, AgnesMoves
    <3>2. QED
      BY <3>1 DEF MovesRight
  <2> HIDE DEF g, Same
  <2>4. CASE s = "READY"
    <3>1. KeysIn(g) = KeysIn(old) \cup {id}
      BY <2>2, <2>3
    <3>2. Ok(g, u)
      BY <1>t, <2>1, <2>2, <2>3, <2>4, <3>1 DEF Same
    <3>3. QED
      BY <1>t, <1>d, <1>m, <2>1, <2>4, <3>2
  <2>5. CASE s = "PENDING"
    <3>1. Ok(rest, u)
      BY <1>t, <2>1, <2>2, <2>5 DEF Same
    <3>2. QED
      BY <1>t, <1>d, <1>m, <2>1, <2>5, <3>1
  <2>6. QED
    BY <2>4, <2>5
<1>5. CASE Agnes!DeleteTask(id)
  <2> DEFINE u == [agnesTask EXCEPT ![id] = Agnes!Unset]
             g == Agnes!Removed(old, agnesTask, id)
  <2>1. /\ agnesTask' = u /\ agnesHeap' = g
        /\ agnesStatus' = [agnesStatus EXCEPT ![id] = "NONE"] /\ UNCHANGED agnesUpset
    BY <1>5 DEF Agnes!DeleteTask
  <2>2. u \in [AgnesIds -> AgnesKeys] /\ u[id] = Agnes!Unset /\ \A i \in AgnesIds \ {id} : u[i] = agnesTask[i]
    BY <1>t, <1>k
  <2> HIDE DEF u
  <2>3. /\ g \in Heaps(AgnesIds) /\ KeysIn(g) = KeysIn(old) \ {id}
        /\ SoundHeap(old, AgnesIds, Agnes!Order(agnesTask)) => SoundHeap(g, AgnesIds, Agnes!Order(agnesTask))
    <3>1. MovesRight(old, agnesTask, agnesTask, id)
      BY <1>t, AgnesMoves
    <3>2. QED
      BY <3>1 DEF MovesRight
  <2> HIDE DEF g
  <2>4. SoundHeap(g, AgnesIds, Agnes!Order(agnesTask)) => SoundHeap(g, AgnesIds, Agnes!Order(u))
    <3>1. MovesRight(g, agnesTask, u, id)
      BY <1>t, <2>2, <2>3, AgnesMoves
    <3>2. id \notin KeysIn(g)
      BY <2>3
    <3>3. QED
      BY <3>1, <3>2 DEF MovesRight
  <2>5. Ok(g, u)
    BY <1>t, <2>1, <2>3, <2>4
  <2>6. QED
    BY <1>t, <1>d, <1>m, <2>1, <2>2, <2>5
<1>6. ASSUME NEW p \in Priorities, NEW t \in Times,
             NEW s \in {"PENDING", "READY", "RUNNING", "TERMINAL"}, Agnes!UpdateTask(id, p, t, s)
      PROVE  AgnesInv'
  <2> DEFINE k == [agnesTask[id] EXCEPT !.priority = p, !.executeTime = t]
             u == [agnesTask EXCEPT ![id] = k]
             mid == Agnes!Reconciled(id, s, u)
             rest == Agnes!Removed(mid, u, id)
             g == Agnes!Pushed(rest, u, id)
  <2>1. /\ agnesStatus[id] \in {"PENDING", "READY", "RUNNING"} /\ agnesTask' = u
        /\ agnesHeap' = (IF s = "READY" /\ mid.index[id] # 0 THEN g ELSE mid)
        /\ agnesStatus' = [agnesStatus EXCEPT ![id] = s] /\ UNCHANGED agnesUpset
    <3> DEFINE w == [agnesTask EXCEPT ![id].priority = p, ![id].executeTime = t]
    <3>1. /\ agnesStatus[id] \in {"PENDING", "READY", "RUNNING"} /\ agnesTask' = w
          /\ agnesHeap' = Agnes!MovedAfterUpdate(Agnes!Reconciled(id, s, agnesTask'), agnesTask', id, s)
          /\ agnesStatus' = [agnesStatus EXCEPT ![id] = s] /\ UNCHANGED agnesUpset
      BY <1>6 DEF Agnes!UpdateTask
    <3>2. w = u
      BY <1>t DEF AgnesKeys
    <3> HIDE DEF w, u, mid
    <3>3. Agnes!MovedAfterUpdate(mid, u, id, s) = IF s = "READY" /\ mid.index[id] # 0 THEN g ELSE mid
      BY AgnesSame DEF Agnes!MovedAfterUpdate
    <3>4. QED
      BY <3>1, <3>2, <3>3 DEF mid
  <2>2. k \in Agnes!TaskKeys
    BY <1>t, <2>1 DEF Agnes!TaskKeys
  <2> HIDE DEF k
  <2>3. u \in [AgnesIds -> AgnesKeys] /\ u[id] = k /\ \A i \in AgnesIds \ {id} : u[i] = agnesTask[i]
    BY <1>t, <1>k, <2>2
  <2> HIDE DEF u
  <2>a. mid = IF s = agnesStatus[id] THEN old
              ELSE IF s = "READY" THEN Agnes!Pushed(old, u, id) ELSE Agnes!Removed(old, u, id)
    BY DEF Agnes!Reconciled
  <2>b. /\ Agnes!Pushed(old, u, id) \in Heaps(AgnesIds)
        /\ KeysIn(Agnes!Pushed(old, u, id)) = KeysIn(old) \cup {id}
        /\ Agnes!Removed(old, u, id) \in Heaps(AgnesIds)
        /\ KeysIn(Agnes!Removed(old, u, id)) = KeysIn(old) \ {id}
        /\ SoundHeap(old, AgnesIds, Agnes!Order(agnesTask)) =>
              /\ SoundHeap(Agnes!Pushed(old, u, id), AgnesIds, Agnes!Order(u))
              /\ SoundHeap(Agnes!Removed(old, u, id), AgnesIds, Agnes!Order(u))
              /\ id \notin KeysIn(old) => SoundHeap(old, AgnesIds, Agnes!Order(u))
    <3>1. MovesRight(old, agnesTask, u, id)
      BY <1>t, <2>3, AgnesMoves
    <3>2. QED
      BY <3>1 DEF MovesRight
\* where the task is READY afterwards its entry is taken out and pushed again
  <2>c. ASSUME s = "READY"
        PROVE  /\ mid \in Heaps(AgnesIds) /\ KeysIn(mid) = KeysIn(old) \cup {id}
               /\ rest \in Heaps(AgnesIds) /\ KeysIn(rest) = KeysIn(old) \ {id}
               /\ SoundHeap(old, AgnesIds, Agnes!Order(agnesTask)) => SoundHeap(rest, AgnesIds, Agnes!Order(u))
    <3>1. CASE agnesStatus[id] = "READY"
      <4>1. mid = old /\ id \in KeysIn(old) /\ KeysIn(old) = KeysIn(old) \cup {id}
        BY <1>t, <2>a, <2>c, <3>1
      <4>2. rest = Agnes!Removed(old, u, id)
        BY <4>1
      <4>3. /\ mid \in Heaps(AgnesIds) /\ KeysIn(mid) = KeysIn(old) \cup {id}
        BY <1>t, <4>1
      <4> HIDE DEF mid, rest
      <4>4. QED
        BY <2>b, <4>2, <4>3
    <3>2. CASE agnesStatus[id] # "READY"
      <4>1. mid = Agnes!Pushed(old, u, id)
        BY <2>a, <2>c, <3>2
      <4> HIDE DEF mid
      <4>2. mid \in Heaps(AgnesIds) /\ KeysIn(mid) = KeysIn(old) \cup {id}
        BY <2>b, <4>1
      <4>3. MovesRight(mid, u, u, id)
        BY <2>3, <4>2, AgnesMoves
      <4>4. /\ rest \in Heaps(AgnesIds) /\ KeysIn(rest) = KeysIn(mid) \ {id}
            /\ SoundHeap(mid, AgnesIds, Agnes!Order(u)) => SoundHeap(rest, AgnesIds, Agnes!Order(u))
        BY <4>3 DEF MovesRight
      <4>5. id \notin KeysIn(old)
        BY <1>t, <2>1, <3>2
      <4>6. KeysIn(rest) = KeysIn(old) \ {id}
        BY <4>2, <4>4
      <4>7. SoundHeap(old, AgnesIds, Agnes!Order(agnesTask)) => SoundHeap(mid, AgnesIds, Agnes!Order(u))
        BY <2>b, <4>1
      <4> HIDE DEF rest
      <4>8. QED
        BY <4>2, <4>4, <4>6, <4>7
    <3>3. QED
      BY <3>1, <3>2
  <2> HIDE DEF mid
  <2>d. \A i \in AgnesIds \ {id} : agnesStatus'[i] = agnesStatus[i]
    BY <1>t, <2>1
  <2>e. /\ agnesStatus' \in [AgnesIds -> AgnesStatuses] /\ agnesStatus'[id] = s
        /\ IF agnesStatus'[id] = "NONE" THEN u[id] = Agnes!Unset ELSE u[id] \in Agnes!TaskKeys
    BY <1>t, <1>d, <2>1, <2>2, <2>3
  <2>6. CASE s = "READY"
    <3>1. /\ rest \in Heaps(AgnesIds) /\ KeysIn(rest) = KeysIn(old) \ {id}
          /\ SoundHeap(old, AgnesIds, Agnes!Order(agnesTask)) => SoundHeap(rest, AgnesIds, Agnes!Order(u))
          /\ id \in KeysIn(mid)
      BY <2>c, <2>6
    <3> HIDE DEF rest
    <3>2. MovesRight(rest, u, u, id)
      BY <2>3, <3>1, AgnesMoves
    <3>3. /\ g \in Heaps(AgnesIds) /\ KeysIn(g) = KeysIn(rest) \cup {id}
          /\ SoundHeap(rest, AgnesIds, Agnes!Order(u)) => SoundHeap(g, AgnesIds, Agnes!Order(u))
      BY <3>2 DEF MovesRight
    <3> HIDE DEF g
    <3>4. agnesHeap' = g
      BY <2>1, <2>6, <3>1 DEF KeysIn
    <3>5. KeysIn(g) = KeysIn(old) \cup {id}
      BY <3>1, <3>3
    <3>6. Ok(g, u)
      BY <2>e, <2>6, <3>1, <3>3, <3>5
    <3> HIDE DEF Ok
    <3>7. QED
      BY <1>m, <2>1, <2>3, <2>d, <2>e, <3>4, <3>6
  <2>7. CASE s # "READY"
    <3>1. agnesHeap' = mid
      BY <2>1, <2>7
    <3>2. CASE s = agnesStatus[id]
      <4>1. id \notin KeysIn(old) /\ mid = old
        BY <1>t, <2>1, <2>a, <2>7, <3>2
      <4>2. KeysIn(old) = KeysIn(old) \ {id}
        BY <4>1
      <4>3. Ok(old, u)
        BY <1>t, <2>b, <2>e, <2>7, <4>1, <4>2
      <4> HIDE DEF Ok
      <4>4. QED
        BY <1>m, <2>1, <2>3, <2>d, <2>e, <3>1, <4>1, <4>3
    <3>3. CASE s # agnesStatus[id]
      <4>1. mid = Agnes!Removed(old, u, id)
        BY <2>a, <2>7, <3>3
      <4>2. Ok(mid, u)
        BY <2>b, <2>e, <2>7, <4>1
      <4> HIDE DEF Ok
      <4>3. QED
        BY <1>m, <2>1, <2>3, <2>d, <2>e, <3>1, <4>2
    <3>4. QED
      BY <3>2, <3>3
  <2>8. QED
    BY <2>6, <2>7
<1>7. QED
    BY <1>1, <1>2, <1>3, <1>4, <1>5, <1>6

\* executeNextTask has popped as s says, pushed the READY ones of the first n again, and
\* starts the last of them if it is due.
Executed(s, g, n, now) ==
    /\ n \in 0..Len(s.popped)
    /\ PopsRight(s, now) /\ agnesHeap' = g /\ BackRight(<<g, n>>, s.rest, s.popped)
    /\ UNCHANGED <<agnesTask, agnesUpset>>
    /\ \/ /\ Agnes!Found(s.popped, now) /\ n = Len(s.popped) - 1 /\ Len(s.popped) # 0
          /\ agnesStatus' = [agnesStatus EXCEPT ![s.popped[Len(s.popped)]] = "RUNNING"]
       \/ /\ ~Agnes!Found(s.popped, now) /\ n = Len(s.popped) /\ Size(s.rest) = 0
          /\ agnesStatus' = agnesStatus

\* That is what it does.
LEMMA AgnesExecutes ==
    ASSUME AgnesInv, NEW now, Agnes!ExecuteNextTask(now)
    PROVE  \E s \in Pops, g \in Heaps(AgnesIds), n \in Nat : Executed(s, g, n, now)
<1> DEFINE s == Agnes!PopLoop(now)
           found == Agnes!Found(s.popped, now)
           n == IF found THEN Len(s.popped) - 1 ELSE Len(s.popped)
           g == Agnes!Repushed(s.rest, s.popped, n)
<1>1. agnesTask \in [AgnesIds -> AgnesKeys] /\ agnesHeap \in Heaps(AgnesIds)
    BY DEF AgnesInv, AgnesTyped, AgnesHeapSound
<1>2. /\ agnesHeap' = g /\ UNCHANGED <<agnesTask, agnesUpset>>
      /\ agnesStatus' = IF found THEN [agnesStatus EXCEPT ![s.popped[Len(s.popped)]] = "RUNNING"]
                        ELSE agnesStatus
    BY DEF Agnes!ExecuteNextTask
<1>3. s \in Pops /\ PopsRight(s, now) /\ (Size(s.rest) = 0 \/ found)
    BY <1>1, PopLoopEnds
<1> HIDE DEF s
<1>4. s.popped \in Seq(AgnesIds) /\ Len(s.popped) \in Nat /\ s.rest \in Heaps(AgnesIds)
    BY <1>3 DEF Pops
<1>5. found => Len(s.popped) # 0
    BY <1>4 DEF Agnes!Found
<1> HIDE DEF found
<1>6. n \in 0..Len(s.popped) /\ (found => n = Len(s.popped) - 1) /\ (~found => n = Len(s.popped))
    BY <1>4, <1>5
<1> HIDE DEF n
<1>7. g \in Heaps(AgnesIds) /\ BackRight(<<g, n>>, s.rest, s.popped)
    BY <1>1, <1>4, <1>6, RepushedEnds
<1> HIDE DEF g
<1>8. \/ /\ found /\ n = Len(s.popped) - 1 /\ Len(s.popped) # 0
         /\ agnesStatus' = [agnesStatus EXCEPT ![s.popped[Len(s.popped)]] = "RUNNING"]
      \/ /\ ~found /\ n = Len(s.popped) /\ Size(s.rest) = 0
         /\ agnesStatus' = agnesStatus
    BY <1>2, <1>3, <1>5, <1>6
<1>9. QED
  <2>1. n \in Nat
    BY <1>4, <1>6
  <2>2. Executed(s, g, n, now)
    BY <1>2, <1>3, <1>6, <1>7, <1>8 DEF Executed, found
  <2>3. QED
    BY <1>3, <1>7, <2>1, <2>2

\* executeNextTask keeps every READY task but the one it starts queued.
LEMMA AgnesExecuteStep ==
    ASSUME AgnesInv, NEW now, Agnes!ExecuteNextTask(now)
    PROVE  AgnesInv'
<1>t. /\ agnesStatus \in [AgnesIds -> AgnesStatuses]
      /\ agnesTask \in [AgnesIds -> AgnesKeys] /\ agnesHeap \in Heaps(AgnesIds) /\ agnesUpset \in BOOLEAN
      /\ \A i \in AgnesIds : IF agnesStatus[i] = "NONE" THEN agnesTask[i] = Agnes!Unset
                             ELSE agnesTask[i] \in Agnes!TaskKeys
      /\ \A i \in AgnesIds : agnesStatus[i] = "READY" => i \in KeysIn(agnesHeap)
      /\ \A i \in AgnesIds : i \in KeysIn(agnesHeap) => agnesStatus[i] \in {"READY", "TERMINAL"}
      /\ ~agnesUpset => SoundHeap(agnesHeap, AgnesIds, AgnesOrder)
    BY DEF AgnesInv, AgnesTyped, AgnesHeapSound, AgnesOrder
<1>d. AgnesStatuses = {"NONE", "PENDING", "READY", "RUNNING", "TERMINAL"}
    BY DEF AgnesStatuses
<1>1. PICK s \in Pops, g \in Heaps(AgnesIds), n \in Nat : Executed(s, g, n, now)
    BY AgnesExecutes
<1>e. /\ n \in 0..Len(s.popped)
      /\ PopsRight(s, now) /\ agnesHeap' = g /\ BackRight(<<g, n>>, s.rest, s.popped)
      /\ UNCHANGED <<agnesTask, agnesUpset>>
      /\ \/ /\ n = Len(s.popped) - 1 /\ Len(s.popped) # 0
            /\ agnesStatus' = [agnesStatus EXCEPT ![s.popped[Len(s.popped)]] = "RUNNING"]
         \/ n = Len(s.popped) /\ agnesStatus' = agnesStatus
    BY <1>1 DEF Executed
<1> DEFINE p == s.popped
<1>2. /\ \A k : k \in KeysIn(agnesHeap) <=> k \in KeysIn(s.rest) \/ \E j \in 1..Len(p) : p[j] = k
      /\ \A j \in 1..Len(p) : p[j] \notin KeysIn(s.rest)
      /\ \A i, j \in 1..Len(p) : p[i] = p[j] => i = j
      /\ SoundHeap(agnesHeap, AgnesIds, AgnesOrder) => SoundHeap(s.rest, AgnesIds, AgnesOrder)
    BY <1>e DEF PopsRight
<1>3. /\ \A k : k \in KeysIn(g) <=>
            k \in KeysIn(s.rest) \/ \E j \in 1..n : p[j] = k /\ agnesStatus[k] = "READY"
      /\ SoundHeap(s.rest, AgnesIds, AgnesOrder) => SoundHeap(g, AgnesIds, AgnesOrder)
    BY <1>e DEF BackRight
<1>4. Len(p) \in Nat /\ \A j \in 1..Len(p) : p[j] \in AgnesIds
    BY DEF Pops
<1>5. \/ /\ n = Len(p) - 1 /\ Len(p) # 0
         /\ agnesStatus' = [agnesStatus EXCEPT ![p[Len(p)]] = "RUNNING"]
      \/ n = Len(p) /\ agnesStatus' = agnesStatus
    BY <1>e
<1> HIDE DEF p
<1>6. AgnesTyped'
  <2>1. agnesStatus' \in [AgnesIds -> AgnesStatuses]
    BY <1>t, <1>d, <1>5
  <2>2. \A i \in AgnesIds : agnesStatus'[i] = "NONE" <=> agnesStatus[i] = "NONE"
    <3>1. Len(p) # 0 => p[Len(p)] \in AgnesIds /\ agnesStatus[p[Len(p)]] # "NONE"
      <4>1. SUFFICES ASSUME Len(p) # 0
                     PROVE  p[Len(p)] \in AgnesIds /\ agnesStatus[p[Len(p)]] # "NONE"
        OBVIOUS
      <4>2. Len(p) \in 1..Len(p)
        BY <1>4, <4>1
      <4>3. QED
        BY <1>t, <1>2, <1>4, <4>2
    <3>2. QED
      BY <1>t, <1>5, <3>1
  <2>3. QED
    BY <1>t, <1>e, <2>1, <2>2 DEF AgnesTyped, Agnes!Unset, Agnes!TaskKeys
<1>7. ASSUME NEW i \in AgnesIds, agnesStatus'[i] = "READY"
      PROVE  i \in KeysIn(g)
  <2>1. agnesStatus[i] = "READY" /\ (n = Len(p) - 1 => p[Len(p)] # i)
    BY <1>t, <1>4, <1>5, <1>7
  <2>2. CASE i \in KeysIn(s.rest)
    BY <1>3, <2>2
  <2>3. CASE i \notin KeysIn(s.rest)
    <3>1. PICK j \in 1..Len(p) : p[j] = i
      BY <1>t, <1>2, <2>1, <2>3
    <3>2. j \in 1..n
      BY <1>4, <1>5, <2>1, <3>1
    <3>3. QED
      BY <1>3, <2>1, <3>1, <3>2
  <2>4. QED
    BY <2>2, <2>3
<1>8. ASSUME NEW i \in AgnesIds, i \in KeysIn(g)
      PROVE  agnesStatus'[i] \in {"READY", "TERMINAL"}
  <2>1. i \in KeysIn(s.rest) \/ \E j \in 1..n : p[j] = i
    BY <1>3, <1>8
  <2>2. \A j \in 1..n : j \in 1..Len(p) /\ (n = Len(p) - 1 => j # Len(p))
    BY <1>4, <1>5
  <2>3. n = Len(p) - 1 /\ Len(p) # 0 => Len(p) \in 1..Len(p)
    BY <1>4
  <2>4. i \in KeysIn(agnesHeap) /\ (n = Len(p) - 1 /\ Len(p) # 0 => p[Len(p)] # i)
    BY <1>2, <2>1, <2>2, <2>3
  <2>5. QED
    BY <1>t, <1>4, <1>5, <2>4
<1>9. ~agnesUpset' => SoundHeap(g, AgnesIds, AgnesOrder) /\ AgnesOrder = Agnes!Order(agnesTask')
    BY <1>t, <1>e, <1>2, <1>3 DEF AgnesOrder
<1>10. AgnesHeapSound'
  <2>1. SoundHeap(g, AgnesIds, AgnesOrder) /\ AgnesOrder = Agnes!Order(agnesTask')
           => SoundHeap(agnesHeap', AgnesIds, Agnes!Order(agnesTask'))
    BY <1>e
  <2>2. ~agnesUpset' => SoundHeap(agnesHeap', AgnesIds, Agnes!Order(agnesTask'))
    BY <1>9, <2>1
  <2>3. QED
    BY <1>e, <1>7, <1>8, <2>2 DEF AgnesHeapSound
<1>11. QED
    BY <1>6, <1>10 DEF AgnesInv

\* What leaves an entry where it is: a victim's becomes stale, that of a task whose update
\* fails half-way keeps its place under a new priority, and a READY task stays queued
\* when a dependency is reset.
LEMMA AgnesLeavesEntry ==
    ASSUME AgnesInv, NEW id \in AgnesIds,
           \/ Agnes!MarkVictim(id) \/ \E p \in Priorities : Agnes!UpdateRejected(id, p)
           \/ Agnes!DependencyReset(id) \/ Agnes!DependencyBack(id)
    PROVE  AgnesInv'
<1>t. /\ agnesStatus \in [AgnesIds -> AgnesStatuses]
      /\ agnesTask \in [AgnesIds -> AgnesKeys] /\ agnesHeap \in Heaps(AgnesIds) /\ agnesUpset \in BOOLEAN
      /\ \A i \in AgnesIds : IF agnesStatus[i] = "NONE" THEN agnesTask[i] = Agnes!Unset
                             ELSE agnesTask[i] \in Agnes!TaskKeys
      /\ \A i \in AgnesIds : agnesStatus[i] = "READY" => i \in KeysIn(agnesHeap)
      /\ \A i \in AgnesIds : i \in KeysIn(agnesHeap) => agnesStatus[i] \in {"READY", "TERMINAL"}
      /\ ~agnesUpset => SoundHeap(agnesHeap, AgnesIds, Agnes!Order(agnesTask))
    BY DEF AgnesInv, AgnesTyped, AgnesHeapSound
<1>d. AgnesStatuses = {"NONE", "PENDING", "READY", "RUNNING", "TERMINAL"}
    BY DEF AgnesStatuses
<1>1. CASE Agnes!MarkVictim(id)
  <2>1. /\ agnesStatus[id] # "NONE" /\ agnesStatus' = [agnesStatus EXCEPT ![id] = "TERMINAL"]
        /\ UNCHANGED <<agnesTask, agnesHeap, agnesUpset>>
    BY <1>1 DEF Agnes!MarkVictim
  <2>2. agnesStatus' \in [AgnesIds -> AgnesStatuses]
    BY <1>t, <1>d, <2>1
  <2>3. \A i \in AgnesIds : IF agnesStatus'[i] = "NONE" THEN agnesTask'[i] = Agnes!Unset
                            ELSE agnesTask'[i] \in Agnes!TaskKeys
    BY <1>t, <2>1
  <2>4. AgnesTyped'
    BY <1>t, <2>1, <2>2, <2>3 DEF AgnesTyped, Agnes!Unset, Agnes!TaskKeys
  <2>5. AgnesHeapSound'
    BY <1>t, <2>1 DEF AgnesHeapSound
  <2>6. QED
    BY <2>4, <2>5 DEF AgnesInv
<1>2. ASSUME NEW p \in Priorities, Agnes!UpdateRejected(id, p)
      PROVE  AgnesInv'
  <2> DEFINE k == [agnesTask[id] EXCEPT !.priority = p]
             u == [agnesTask EXCEPT ![id] = k]
  <2>1. /\ agnesStatus[id] \in {"PENDING", "READY", "RUNNING"} /\ agnesTask' = u
        /\ agnesUpset' = (agnesUpset \/ agnesHeap.index[id] # 0)
        /\ UNCHANGED <<agnesStatus, agnesHeap>>
    BY <1>2, AgnesSame DEF Agnes!UpdateRejected
  <2>2. k \in Agnes!TaskKeys
    BY <1>t, <2>1 DEF Agnes!TaskKeys
  <2>3. k \in AgnesKeys
    BY <2>2, SchedulersAssumption DEF Agnes!TaskKeys, AgnesKeys
  <2> HIDE DEF k
  <2>4. u \in [AgnesIds -> AgnesKeys] /\ u[id] = k /\ \A i \in AgnesIds \ {id} : u[i] = agnesTask[i]
    BY <1>t, <2>3
  <2> HIDE DEF u
  <2>5. ASSUME ~agnesUpset'
        PROVE  SoundHeap(agnesHeap, AgnesIds, Agnes!Order(u))
    <3>1. ~agnesUpset /\ id \notin KeysIn(agnesHeap)
      BY <2>1, <2>5 DEF KeysIn
    <3>2. MovesRight(agnesHeap, agnesTask, u, id)
      BY <1>t, <2>4, AgnesMoves
    <3>3. QED
      BY <1>t, <3>1, <3>2 DEF MovesRight
  <2>6. AgnesHeapSound'
    BY <1>t, <2>1, <2>5 DEF AgnesHeapSound
  <2>7. \A i \in AgnesIds : IF agnesStatus'[i] = "NONE" THEN agnesTask'[i] = Agnes!Unset
                            ELSE agnesTask'[i] \in Agnes!TaskKeys
    BY <1>t, <2>1, <2>2, <2>4
  <2>8. agnesUpset' \in BOOLEAN
    BY <2>1
  <2>9. AgnesTyped'
    BY <1>t, <2>1, <2>4, <2>7, <2>8 DEF AgnesTyped, Agnes!Unset, Agnes!TaskKeys
  <2>10. QED
    BY <2>6, <2>9 DEF AgnesInv
<1>3. CASE Agnes!DependencyReset(id) \/ Agnes!DependencyBack(id)
  <2>1. UNCHANGED <<agnesStatus, agnesTask, agnesHeap, agnesUpset>>
    BY <1>3 DEF Agnes!DependencyReset, Agnes!DependencyBack
  <2>2. QED
    BY <2>1 DEF AgnesInv, AgnesTyped, AgnesHeapSound, Agnes!Unset, Agnes!TaskKeys
<1>4. QED
    BY <1>1, <1>2, <1>3

\* agnes flash: what the heap holds, and its order, in every behaviour.
THEOREM AgnesSound == Spec => [](program = "agnes" => AgnesInv)
<1> DEFINE Inv == program = "agnes" => AgnesInv
<1>1. Init => Inv
  <2>1. SUFFICES ASSUME Agnes!Init PROVE AgnesInv
    BY DEF Init
  <2> DEFINE none == [items |-> <<>>, index |-> [k \in AgnesIds |-> 0]]
  <2>2. /\ agnesHeap = none /\ agnesUpset = FALSE
        /\ agnesStatus = [i \in AgnesIds |-> "NONE"] /\ agnesTask = [i \in AgnesIds |-> Agnes!Unset]
    BY <2>1 DEF Agnes!Init, Agnes!Empty, Agnes!TaskIds, AgnesIds
  <2>3. none.items = <<>> /\ none.index = [k \in AgnesIds |-> 0] /\ none \in Arrays(AgnesIds) /\ Size(none) = 0
    BY DEF Arrays, Size
  <2> HIDE DEF none
  <2>4. agnesHeap \in Heaps(AgnesIds) /\ KeysIn(agnesHeap) = {}
    BY <2>2, <2>3 DEF Heaps, Coherent, KeysIn
  <2>5. SoundHeap(agnesHeap, AgnesIds, Agnes!Order(agnesTask))
    BY <2>2, <2>3, <2>4 DEF SoundHeap, Heaps, Ordered
  <2>6. Agnes!Unset \in AgnesKeys
    BY DEF Agnes!Unset, AgnesKeys
  <2>7. AgnesTyped
    BY <2>2, <2>6 DEF AgnesTyped, AgnesStatuses
  <2>8. AgnesHeapSound
    BY <2>2, <2>4, <2>5 DEF AgnesHeapSound
  <2>9. QED
    BY <2>7, <2>8 DEF AgnesInv
<1>2. Inv /\ [Next]_vars => Inv'
  <2>1. SUFFICES ASSUME Inv, [Next]_vars, program' = "agnes" PROVE AgnesInv'
    OBVIOUS
  <2>2. program = "agnes" /\ AgnesInv /\ (Agnes!Next \/ UNCHANGED agnesVars)
    BY <2>1 DEF Next, vars
  <2>3. CASE Agnes!Next
    <3>1. \/ \E id \in AgnesIds :
                \/ \E k \in Agnes!TaskKeys, s \in {"PENDING", "READY"} : Agnes!AddTask(id, k, s)
                \/ Agnes!Unblock(id) \/ Agnes!DeleteTask(id) \/ Agnes!Leave(id)
                \/ \E s \in {"PENDING", "READY"} : Agnes!ResetTask(id, s)
                \/ \E p \in Priorities, t \in Times,
                      s \in {"PENDING", "READY", "RUNNING", "TERMINAL"} : Agnes!UpdateTask(id, p, t, s)
          \/ \E id \in AgnesIds :
                \/ Agnes!MarkVictim(id) \/ \E p \in Priorities : Agnes!UpdateRejected(id, p)
                \/ Agnes!DependencyReset(id) \/ Agnes!DependencyBack(id)
          \/ \E now \in Times : Agnes!ExecuteNextTask(now)
      BY <2>3 DEF Agnes!Next, Agnes!TaskIds, AgnesIds
    <3>2. QED
      BY <2>2, <3>1, AgnesCallsStep, AgnesLeavesEntry, AgnesExecuteStep
  <2>4. CASE UNCHANGED agnesVars
    BY <2>2, <2>4 DEF agnesVars, AgnesInv, AgnesTyped, AgnesHeapSound, Agnes!Unset, Agnes!TaskKeys
  <2>5. QED
    BY <2>2, <2>3, <2>4
<1>3. QED
    BY <1>1, <1>2, PTL DEF Spec

\* agnes flash: a READY task stays in the heap through every pop, push and re-seat.
THEOREM AgnesQueued == Spec => []AgnesReadyIsQueued
<1>1. (program = "agnes" => AgnesInv) => AgnesReadyIsQueued
    BY AgnesSame DEF AgnesReadyIsQueued, Agnes!ReadyIsQueued, AgnesInv, AgnesHeapSound, KeysIn,
                     Agnes!TaskIds, AgnesIds
<1>2. QED
    BY <1>1, AgnesSound, PTL

\* executeNextTask starts the first of the READY tasks that are due and have their
\* dependencies completed, if there is one.
LEMMA AgnesFirstDue ==
    ASSUME AgnesInv
    PROVE  Agnes!FirstDueStarts
<1>1. SUFFICES ASSUME NEW now \in Times, ~agnesUpset, Agnes!ExecuteNextTask(now)
               PROVE  LET due == {i \in AgnesIds \ agnesUnmet :
                                     agnesStatus[i] = "READY" /\ agnesTask[i].executeTime <= now}
                      IN  IF due = {} THEN agnesStatus' = agnesStatus
                          ELSE \E i \in due : /\ \A j \in due \ {i} : Agnes!RunsBefore(i, j)
                                              /\ agnesStatus' = [agnesStatus EXCEPT ![i] = "RUNNING"]
    BY DEF Agnes!FirstDueStarts, Agnes!TaskIds, AgnesIds
<1> DEFINE due == {i \in AgnesIds \ agnesUnmet :
                      agnesStatus[i] = "READY" /\ agnesTask[i].executeTime <= now}
<1>2. \A i \in AgnesIds : i \in due <=> Agnes!Due(i, now)
    BY DEF Agnes!Due
<1> HIDE DEF due
<1>3. PICK s \in Pops, g \in Heaps(AgnesIds), n \in Nat : Executed(s, g, n, now)
    BY <1>1, AgnesExecutes
<1> DEFINE p == s.popped
<1>4. /\ \A k : k \in KeysIn(agnesHeap) <=> k \in KeysIn(s.rest) \/ \E j \in 1..Len(p) : p[j] = k
      /\ \A j \in 1..Len(p) : j # Len(p) => ~Agnes!Due(p[j], now)
      /\ \A j \in 1..Len(p), k \in KeysIn(s.rest) : <<k, p[j]>> \notin AgnesOrder
  <2>1. SoundHeap(agnesHeap, AgnesIds, AgnesOrder)
    BY <1>1 DEF AgnesInv, AgnesHeapSound, AgnesOrder
  <2>2. QED
    BY <1>3, <2>1 DEF Executed, PopsRight
<1>5. \/ /\ Len(p) # 0 /\ Agnes!Due(p[Len(p)], now)
         /\ agnesStatus' = [agnesStatus EXCEPT ![p[Len(p)]] = "RUNNING"]
      \/ ~(Len(p) # 0 /\ Agnes!Due(p[Len(p)], now)) /\ Size(s.rest) = 0 /\ agnesStatus' = agnesStatus
  <2>1. p \in Seq(AgnesIds)
    BY DEF Pops
  <2>2. Agnes!Found(p, now) <=> Len(p) # 0 /\ Agnes!Due(p[Len(p)], now)
    BY <2>1 DEF Agnes!Found
  <2>3. QED
    BY <1>3, <2>2 DEF Executed
<1>6. Len(p) \in Nat /\ \A j \in 1..Len(p) : p[j] \in AgnesIds
    BY DEF Pops
<1> HIDE DEF p
<1>7. \A i \in due : i \in AgnesIds /\ i \in KeysIn(agnesHeap)
    BY DEF due, AgnesInv, AgnesHeapSound
<1>8. CASE Len(p) # 0 /\ Agnes!Due(p[Len(p)], now)
  <2> DEFINE i == p[Len(p)]
  <2>1. i \in due /\ Len(p) \in 1..Len(p) /\ i \in AgnesIds
    BY <1>2, <1>6, <1>8
  <2>2. ASSUME NEW j \in due, j # i
        PROVE  Agnes!RunsBefore(i, j)
    <3>1. j \in KeysIn(s.rest)
      <4>1. \A m \in 1..Len(p) : p[m] # j
        BY <1>2, <1>4, <1>7, <2>2
      <4>2. QED
        BY <1>4, <1>7, <4>1
    <3>2. <<j, i>> \notin AgnesOrder
      BY <1>4, <2>1, <3>1
    <3>3. agnesTask \in [AgnesIds -> AgnesKeys] /\ j \in AgnesIds
      BY <1>7 DEF AgnesInv, AgnesTyped
    <3>4. <<i, j>> \in AgnesOrder
      BY <2>1, <2>2, <3>2, <3>3, AgnesOrders DEF AgnesOrder
    <3>5. Agnes!Before(agnesTask, i, j)
      BY <3>4 DEF AgnesOrder, Agnes!Order
    <3>6. /\ \A x \in AgnesIds : /\ agnesTask[x].priority \in Int /\ agnesTask[x].executeTime \in Int
                                 /\ agnesTask[x].createdAt \in Int
          /\ i \in Int /\ j \in Int
      BY <2>1, <3>3, SchedulersAssumption DEF AgnesKeys, AgnesIds
    <3>7. QED
      BY <2>1, <3>3, <3>5, <3>6 DEF Agnes!Before, Agnes!RunsBefore
  <2> HIDE DEF i
  <2>3. agnesStatus' = [agnesStatus EXCEPT ![i] = "RUNNING"]
    BY <1>5, <1>8 DEF i
  <2>4. due # {} /\ \A j \in due \ {i} : Agnes!RunsBefore(i, j)
    BY <2>1, <2>2
  <2>5. QED
    BY <2>1, <2>3, <2>4 DEF due
<1>9. CASE ~(Len(p) # 0 /\ Agnes!Due(p[Len(p)], now))
  <2>1. KeysIn(s.rest) = {}
    <3>1. s.rest \in Arrays(AgnesIds) /\ Coherent(s.rest) /\ Size(s.rest) = 0
      BY <1>5, <1>9 DEF Pops, Heaps
    <3>2. QED
      BY <3>1 DEF Coherent, KeysIn
  <2>2. \A j \in 1..Len(p) : ~Agnes!Due(p[j], now)
    BY <1>4, <1>6, <1>9
  <2>3. due = {}
    BY <1>2, <1>4, <1>7, <2>1, <2>2
  <2>4. agnesStatus' = agnesStatus
    BY <1>5, <1>9
  <2>5. QED
    BY <2>3, <2>4 DEF due
<1>10. QED
    BY <1>8, <1>9

\* agnes flash: executeNextTask starts the first READY task that is due, passing over those
\* behind a dependency that was reset, until an update of a queued task is rejected half-way.
THEOREM AgnesStartsFirstDue == Spec => AgnesChoosesFirstDue
<1>1. (program = "agnes" => AgnesInv) => (program = "agnes" => Agnes!FirstDueStarts)
    BY AgnesFirstDue
<1>2. QED
    BY <1>1, AgnesSound, PTL DEF AgnesChoosesFirstDue
-----------------------------------------------------------------------------
(* qwen: the heaps *)

\* QwenDispatch's heap operations, in the words of AgnesHeap.
LEMMA QwenSame ==
    /\ \A h, k, before : Qwen!Push(h, k, before) = SiftUp(Appended(h, k), Size(h) + 1, before)[1]
    /\ \A h, k, before : Qwen!RemoveEntry(h, k, before)
                            = IF h.index[k] = 0 THEN h ELSE TakenOut(h, k, before)
    /\ \A h, before : Qwen!Pop(h, before) = Pop(h, before)
    /\ \A h, entries, before : Qwen!Heapify(h, entries, before) = Heapify(h, entries, before)
    /\ \A h, k : Qwen!HasEntry(h, k) <=> h.index[k] # 0
    /\ \A h : Qwen!IsHeapEmpty(h) <=> Size(h) = 0
    /\ \A K : Qwen!H!Heaps(K) = Heaps(K)
    /\ \A K : Qwen!NoEntries(K) = Empty(K)
<1>1. \A h, at, before : Qwen!H!SiftUp(h, at, before) = SiftUp(h, at, before)
    BY DEF Qwen!H!SiftUp, SiftUp, Qwen!H!Swap, Swap, Qwen!H!Sifts, Sifts, Qwen!H!Arrays, Arrays
<1>2. \A h, at, before : Qwen!H!SiftDown(h, at, before) = SiftDown(h, at, before)
    BY DEF Qwen!H!SiftDown, SiftDown, Qwen!H!Swap, Swap, Qwen!H!Sifts, Sifts,
           Qwen!H!Arrays, Arrays, Qwen!H!Best, Best
<1>3. \A h, k : Qwen!H!Vacate(h, k) = Vacate(h, k)
    BY DEF Qwen!H!Vacate, Vacate, Qwen!H!Size, Size
<1>4. \A h, before : Qwen!Pop(h, before) = Pop(h, before)
    BY <1>2, <1>3 DEF Qwen!Pop, Qwen!H!Pop, Pop, Qwen!H!Size, Size
<1>5. \A h, entries, before : Qwen!Heapify(h, entries, before) = Heapify(h, entries, before)
  <2>1. \A h, entries : Qwen!H!Flat(h, entries) = Flat(h, entries)
    BY DEF Qwen!H!Flat, Flat
  <2>2. \A h, before : Qwen!H!Sunk(h, before) = Sunk(h, before)
    BY <1>2 DEF Qwen!H!Sunk, Sunk, Qwen!H!SiftDown, SiftDown, Qwen!H!Swap, Swap, Qwen!H!Sifts, Sifts,
                Qwen!H!Arrays, Arrays, Qwen!H!Best, Best, Qwen!H!Size, Size
  <2>3. QED
    BY <2>1, <2>2 DEF Qwen!Heapify, Qwen!H!Heapify, Heapify
<1>6. \A h, k, before : Qwen!Push(h, k, before) = SiftUp(Appended(h, k), Size(h) + 1, before)[1]
    BY <1>1 DEF Qwen!Push, Qwen!SiftedUp, Qwen!H!Size, Size, Appended
<1>7. \A h, k, before : Qwen!RemoveEntry(h, k, before)
                           = IF h.index[k] = 0 THEN h ELSE TakenOut(h, k, before)
  <2>1. \A h, at, before : Qwen!Replace(h, at, before)
           = IF Rises(<<h, at>>, before) THEN SiftUp(h, at, before)[1] ELSE SiftDown(h, at, before)[1]
    BY <1>1, <1>2 DEF Qwen!Replace, Qwen!SiftedUp, Qwen!SiftedDown, Rises
  <2>2. QED
    BY <1>3, <2>1 DEF Qwen!RemoveEntry, Qwen!HasEntry, Qwen!H!HeapContains, Qwen!H!Size, Size, TakenOut
<1>8. QED
    BY <1>4, <1>5, <1>6, <1>7
    DEF Qwen!HasEntry, Qwen!H!HeapContains, Qwen!IsHeapEmpty, Qwen!H!Size, Size, Qwen!H!Heaps, Heaps,
        Qwen!H!Arrays, Arrays, Qwen!H!Coherent, Coherent, Qwen!NoEntries, Qwen!H!Empty, Empty

QwenKeys == [priority : Int, executeTime : Int]

\* The comparators order the ids, whatever keys and numbers they have; tasks with numbers
\* of their own are never level in dueHeap, and futureHeap goes by the time.
LEMMA QwenOrders ==
    ASSUME NEW t \in [Ids -> QwenKeys], NEW c \in [Ids -> Nat]
    PROVE  /\ IsOrder(Ids, Qwen!DueOrder(t, c)) /\ IsOrder(Ids, Qwen!FutureOrder(t, c))
           /\ \A a, b \in Ids : c[a] # c[b] =>
                 <<a, b>> \in Qwen!DueOrder(t, c) \/ <<b, a>> \in Qwen!DueOrder(t, c)
           /\ \A a, b \in Ids : <<a, b>> \notin Qwen!FutureOrder(t, c) =>
                 t[b].executeTime <= t[a].executeTime
<1>1. \A i \in Ids : t[i].priority \in Int /\ t[i].executeTime \in Int /\ c[i] \in Nat
    BY DEF QwenKeys
<1>2. \A a, b \in Ids : <<a, b>> \in Qwen!DueOrder(t, c) <=>
        \/ t[a].priority > t[b].priority
        \/ t[a].priority = t[b].priority
           /\ \/ t[a].executeTime < t[b].executeTime
              \/ t[a].executeTime = t[b].executeTime /\ c[a] < c[b]
    BY DEF Qwen!DueOrder
<1>3. \A a, b \in Ids : <<a, b>> \in Qwen!FutureOrder(t, c) <=>
        \/ t[a].executeTime < t[b].executeTime
        \/ t[a].executeTime = t[b].executeTime
           /\ \/ t[a].priority > t[b].priority
              \/ t[a].priority = t[b].priority /\ c[a] < c[b]
    BY DEF Qwen!FutureOrder
<1>4. IsOrder(Ids, Qwen!DueOrder(t, c))
  <2>1. \A a, b \in Ids : <<a, b>> \in Qwen!DueOrder(t, c) => <<b, a>> \notin Qwen!DueOrder(t, c)
    BY <1>1, <1>2
  <2>2. \A a, b, d \in Ids : <<b, a>> \notin Qwen!DueOrder(t, c) /\ <<d, b>> \notin Qwen!DueOrder(t, c)
                                => <<d, a>> \notin Qwen!DueOrder(t, c)
    BY <1>1, <1>2
  <2>3. QED
    BY <2>1, <2>2 DEF IsOrder
<1>5. IsOrder(Ids, Qwen!FutureOrder(t, c))
  <2>1. \A a, b \in Ids : <<a, b>> \in Qwen!FutureOrder(t, c) => <<b, a>> \notin Qwen!FutureOrder(t, c)
    BY <1>1, <1>3
  <2>2. \A a, b, d \in Ids : <<b, a>> \notin Qwen!FutureOrder(t, c) /\ <<d, b>> \notin Qwen!FutureOrder(t, c)
                                => <<d, a>> \notin Qwen!FutureOrder(t, c)
    BY <1>1, <1>3
  <2>3. QED
    BY <2>1, <2>2 DEF IsOrder
<1>6. \A a, b \in Ids : c[a] # c[b] =>
         <<a, b>> \in Qwen!DueOrder(t, c) \/ <<b, a>> \in Qwen!DueOrder(t, c)
    BY <1>1, <1>2
<1>7. \A a, b \in Ids : <<a, b>> \notin Qwen!FutureOrder(t, c) => t[b].executeTime <= t[a].executeTime
    BY <1>1, <1>3
<1>8. QED
    BY <1>4, <1>5, <1>6, <1>7

\* Keys and numbers are the same but for id, where the numbers count as such by their order.
Rekeyed(id, t, c, u, e) ==
    /\ \A i \in Ids \ {id} : u[i] = t[i]
    /\ \A i, j \in Ids \ {id} : c[i] < c[j] <=> e[i] < e[j]

\* A change of one task concerns the order of that task only.
LEMMA QwenRekeyed ==
    ASSUME NEW t, NEW c, NEW u, NEW e, NEW id \in Ids, Rekeyed(id, t, c, u, e)
    PROVE  /\ AgreeBut(Ids, id, Qwen!DueOrder(t, c), Qwen!DueOrder(u, e))
           /\ AgreeBut(Ids, id, Qwen!FutureOrder(t, c), Qwen!FutureOrder(u, e))
<1>1. SUFFICES ASSUME NEW a \in Ids \ {id}, NEW b \in Ids \ {id}
               PROVE  /\ <<a, b>> \in Qwen!DueOrder(t, c) <=> <<a, b>> \in Qwen!DueOrder(u, e)
                      /\ <<a, b>> \in Qwen!FutureOrder(t, c) <=> <<a, b>> \in Qwen!FutureOrder(u, e)
    BY DEF AgreeBut
<1>2. u[a] = t[a] /\ u[b] = t[b] /\ (c[a] < c[b] <=> e[a] < e[b])
    BY DEF Rekeyed
<1>3. QED
    BY <1>2 DEF Qwen!DueOrder, Qwen!FutureOrder

\* What push and remove of id do in a heap, when the order changes from before to after
\* for id only.
QwenMovesRight(h, before, after, id) ==
    /\ SoundHeap(Qwen!RemoveEntry(h, id, before), Ids, before)
    /\ KeysIn(Qwen!RemoveEntry(h, id, before)) = KeysIn(h) \ {id}
    /\ id \notin KeysIn(h) =>
          /\ SoundHeap(h, Ids, after)
          /\ SoundHeap(Qwen!Push(h, id, after), Ids, after)
          /\ KeysIn(Qwen!Push(h, id, after)) = KeysIn(h) \cup {id}

\* They keep the heap in order.
LEMMA QwenMoves ==
    ASSUME NEW before, NEW after, IsOrder(Ids, before), IsOrder(Ids, after), NEW id \in Ids,
           AgreeBut(Ids, id, before, after), NEW h, SoundHeap(h, Ids, before)
    PROVE  QwenMovesRight(h, before, after, id)
<1>0. DOMAIN h.index = Ids
    BY ArraysRight DEF SoundHeap
<1>1. /\ SoundHeap(Qwen!RemoveEntry(h, id, before), Ids, before)
      /\ KeysIn(Qwen!RemoveEntry(h, id, before)) = KeysIn(h) \ {id}
  <2>1. CASE h.index[id] = 0
    <3>1. Qwen!RemoveEntry(h, id, before) = h
      BY <2>1, QwenSame
    <3>2. id \notin KeysIn(h)
      BY <2>1 DEF KeysIn
    <3>3. QED
      BY <3>1, <3>2
  <2>2. CASE h.index[id] # 0
    <3>1. Qwen!RemoveEntry(h, id, before) = TakenOut(h, id, before)
      BY <2>2, QwenSame
    <3>2. SoundHeap(TakenOut(h, id, before), Ids, before)
      BY <2>2, TakenRight
    <3>3. KeysIn(TakenOut(h, id, before)) = KeysIn(h) \ {id}
      BY <2>2, TakenRight
    <3>4. QED
      BY <3>1, <3>2, <3>3
  <2>3. QED
    BY <2>1, <2>2
<1>2. ASSUME id \notin KeysIn(h)
      PROVE  /\ SoundHeap(h, Ids, after)
             /\ SoundHeap(Qwen!Push(h, id, after), Ids, after)
             /\ KeysIn(Qwen!Push(h, id, after)) = KeysIn(h) \cup {id}
  <2>1. h.index[id] = 0
    BY <1>0, <1>2 DEF KeysIn
  <2>2. SoundHeap(h, Ids, after)
    BY <2>1, StillSound
  <2> DEFINE g == SiftUp(Appended(h, id), Size(h) + 1, after)[1]
  <2>3. SoundHeap(g, Ids, after) /\ KeysIn(g) = KeysIn(h) \cup {id}
    BY <2>1, <2>2, AppendedRight
  <2>4. Qwen!Push(h, id, after) = g
    BY QwenSame
  <2> HIDE DEF g
  <2>5. QED
    BY <2>2, <2>3, <2>4
<1>3. QED
    BY <1>1, <1>2 DEF QwenMovesRight

\* The two heaps are in order and part the tasks queued, READY ones, by the time now.
QwenParts(d, f, t, c, st, now) ==
    /\ SoundHeap(d, Ids, Qwen!DueOrder(t, c)) /\ SoundHeap(f, Ids, Qwen!FutureOrder(t, c))
    /\ \A i \in Ids : i \notin KeysIn(d) \/ i \notin KeysIn(f)
    /\ \A i \in Ids : i \in KeysIn(d) \/ i \in KeysIn(f) => st[i] = "READY"
    /\ \A i \in Ids : i \in KeysIn(d) => t[i].executeTime <= now

\* id is in neither.
QwenOut(d, f, id) == id \notin KeysIn(d) /\ id \notin KeysIn(f)

\* Both heaps without id.
LEMMA QwenRemoved ==
    ASSUME NEW t \in [Ids -> QwenKeys], NEW c \in [Ids -> Nat], NEW d, NEW f, NEW st, NEW now,
           QwenParts(d, f, t, c, st, now), NEW id \in Ids
    PROVE  LET dd == Qwen!RemoveEntry(d, id, Qwen!DueOrder(t, c))
               ff == Qwen!RemoveEntry(f, id, Qwen!FutureOrder(t, c))
           IN  QwenParts(dd, ff, t, c, st, now) /\ QwenOut(dd, ff, id)
<1>1. Rekeyed(id, t, c, t, c)
    BY DEF Rekeyed
<1>2. /\ QwenMovesRight(d, Qwen!DueOrder(t, c), Qwen!DueOrder(t, c), id)
      /\ QwenMovesRight(f, Qwen!FutureOrder(t, c), Qwen!FutureOrder(t, c), id)
    BY <1>1, QwenOrders, QwenRekeyed, QwenMoves DEF QwenParts
<1>3. QED
    BY <1>2 DEF QwenMovesRight, QwenParts, QwenOut

\* The heaps that id is not in, when its keys, number or status change.
LEMMA QwenChanged ==
    ASSUME NEW t \in [Ids -> QwenKeys], NEW c \in [Ids -> Nat],
           NEW u \in [Ids -> QwenKeys], NEW e \in [Ids -> Nat], NEW id \in Ids, Rekeyed(id, t, c, u, e),
           NEW d, NEW f, NEW st, NEW now, QwenParts(d, f, t, c, st, now), QwenOut(d, f, id),
           NEW su, \A i \in Ids \ {id} : su[i] = st[i]
    PROVE  QwenParts(d, f, u, e, su, now)
<1>1. /\ QwenMovesRight(d, Qwen!DueOrder(t, c), Qwen!DueOrder(u, e), id)
      /\ QwenMovesRight(f, Qwen!FutureOrder(t, c), Qwen!FutureOrder(u, e), id)
    BY QwenOrders, QwenRekeyed, QwenMoves DEF QwenParts
<1>2. \A i \in Ids \ {id} : u[i] = t[i]
    BY DEF Rekeyed
<1>3. QED
    BY <1>1, <1>2 DEF QwenMovesRight, QwenParts, QwenOut

\* Both heaps with id in the one for its time.
LEMMA QwenInserted ==
    ASSUME NEW t \in [Ids -> QwenKeys], NEW c \in [Ids -> Nat], NEW d, NEW f, NEW st, NEW now,
           QwenParts(d, f, t, c, st, now), NEW id \in Ids, QwenOut(d, f, id), st[id] = "READY"
    PROVE  IF t[id].executeTime <= now
           THEN QwenParts(Qwen!Push(d, id, Qwen!DueOrder(t, c)), f, t, c, st, now)
           ELSE QwenParts(d, Qwen!Push(f, id, Qwen!FutureOrder(t, c)), t, c, st, now)
<1>1. Rekeyed(id, t, c, t, c)
    BY DEF Rekeyed
<1>2. /\ QwenMovesRight(d, Qwen!DueOrder(t, c), Qwen!DueOrder(t, c), id)
      /\ QwenMovesRight(f, Qwen!FutureOrder(t, c), Qwen!FutureOrder(t, c), id)
    BY <1>1, QwenOrders, QwenRekeyed, QwenMoves DEF QwenParts
<1> DEFINE dd == Qwen!Push(d, id, Qwen!DueOrder(t, c))
           ff == Qwen!Push(f, id, Qwen!FutureOrder(t, c))
<1>3. /\ SoundHeap(dd, Ids, Qwen!DueOrder(t, c)) /\ KeysIn(dd) = KeysIn(d) \cup {id}
      /\ SoundHeap(ff, Ids, Qwen!FutureOrder(t, c)) /\ KeysIn(ff) = KeysIn(f) \cup {id}
    BY <1>2 DEF QwenMovesRight, QwenOut
<1> HIDE DEF dd, ff
<1>4. QED
    BY <1>3 DEF QwenParts, QwenOut, dd, ff

-----------------------------------------------------------------------------
(* qwen: the sequence numbers *)

QwenStatuses == {"NONE", "PENDING", "READY", "OTHER"}

QwenPresent(st) == {i \in Ids : st[i] # "NONE"}

\* The tasks have numbers of their own, up to how many they are; what is no task has 0.
QwenNumbered(c, st) ==
    /\ c \in [Ids -> Nat]
    /\ \A i \in Ids : c[i] <= Cardinality(QwenPresent(st)) /\ (c[i] = 0 <=> st[i] = "NONE")
    /\ \A i, j \in Ids : c[i] = c[j] /\ c[i] # 0 => i = j

\* A new task gets the next number.
LEMMA QwenNumberedAfterAdd ==
    ASSUME NEW c, NEW st \in [Ids -> QwenStatuses], QwenNumbered(c, st), NEW id \in Ids, st[id] = "NONE",
           NEW s \in QwenStatuses, s # "NONE"
    PROVE  /\ QwenNumbered([c EXCEPT ![id] = Cardinality(QwenPresent(st)) + 1], [st EXCEPT ![id] = s])
           /\ \A i, j \in Ids \ {id} : LET e == [c EXCEPT ![id] = Cardinality(QwenPresent(st)) + 1]
                                       IN  c[i] < c[j] <=> e[i] < e[j]
<1> DEFINE N == Cardinality(QwenPresent(st))
           e == [c EXCEPT ![id] = N + 1]
           su == [st EXCEPT ![id] = s]
<1>1. N \in Nat /\ Cardinality(QwenPresent(su)) = N + 1
  <2>1. IsFiniteSet(QwenPresent(st))
    <3>1. QwenPresent(st) \in SUBSET Ids
      BY DEF QwenPresent
    <3>2. QED
      BY <3>1, FS_Subset, SchedulersAssumption
  <2>2. QwenPresent(su) = QwenPresent(st) \cup {id} /\ id \notin QwenPresent(st)
    BY DEF QwenPresent
  <2>3. QED
    BY <2>1, <2>2, FS_AddElement, FS_CardinalityType
<1> HIDE DEF N
<1>2. /\ c \in [Ids -> Nat] /\ \A i \in Ids : c[i] <= N /\ (c[i] = 0 <=> st[i] = "NONE")
      /\ \A i, j \in Ids : c[i] = c[j] /\ c[i] # 0 => i = j
    BY DEF QwenNumbered, N
<1>3. \A i \in Ids : e[i] = (IF i = id THEN N + 1 ELSE c[i]) /\ su[i] = (IF i = id THEN s ELSE st[i])
    BY <1>2
<1>4. e \in [Ids -> Nat]
    BY <1>1, <1>2
<1> HIDE DEF e, su
<1>5. \A i \in Ids : e[i] <= N + 1 /\ (e[i] = 0 <=> su[i] = "NONE")
    BY <1>1, <1>2, <1>3
<1>6. \A i, j \in Ids : e[i] = e[j] /\ e[i] # 0 => i = j
    BY <1>1, <1>2, <1>3
<1>7. QwenNumbered(e, su)
    BY <1>1, <1>4, <1>5, <1>6 DEF QwenNumbered
<1>8. \A i, j \in Ids \ {id} : c[i] < c[j] <=> e[i] < e[j]
    BY <1>3
<1>9. QED
    BY <1>7, <1>8 DEF e, su, N

\* When a task is deleted those after it move down, and stay in order.
LEMMA QwenNumberedAfterDelete ==
    ASSUME NEW c, NEW st \in [Ids -> QwenStatuses], QwenNumbered(c, st), NEW id \in Ids, st[id] # "NONE"
    PROVE  LET e == [i \in Ids |-> IF i = id THEN 0 ELSE IF c[i] > c[id] THEN c[i] - 1 ELSE c[i]]
           IN  /\ QwenNumbered(e, [st EXCEPT ![id] = "NONE"])
               /\ \A i, j \in Ids \ {id} : c[i] < c[j] <=> e[i] < e[j]
<1> DEFINE N == Cardinality(QwenPresent(st))
           e == [i \in Ids |-> IF i = id THEN 0 ELSE IF c[i] > c[id] THEN c[i] - 1 ELSE c[i]]
           su == [st EXCEPT ![id] = "NONE"]
<1>1. N \in Nat /\ Cardinality(QwenPresent(su)) = N - 1
  <2>1. IsFiniteSet(QwenPresent(st))
    <3>1. QwenPresent(st) \in SUBSET Ids
      BY DEF QwenPresent
    <3>2. QED
      BY <3>1, FS_Subset, SchedulersAssumption
  <2>2. QwenPresent(su) = QwenPresent(st) \ {id} /\ id \in QwenPresent(st)
    BY DEF QwenPresent
  <2>3. QED
    BY <2>1, <2>2, FS_RemoveElement, FS_CardinalityType
<1> HIDE DEF N
<1>2. /\ c \in [Ids -> Nat] /\ \A i \in Ids : c[i] <= N /\ (c[i] = 0 <=> st[i] = "NONE")
      /\ \A i, j \in Ids : c[i] = c[j] /\ c[i] # 0 => i = j
    BY DEF QwenNumbered, N
<1>3. /\ \A i \in Ids : su[i] = IF i = id THEN "NONE" ELSE st[i]
      /\ \A i \in Ids : e[i] = IF i = id THEN 0 ELSE IF c[i] > c[id] THEN c[i] - 1 ELSE c[i]
    BY <1>2
<1>4. e \in [Ids -> Nat]
  <2>1. \A i \in Ids : (IF i = id THEN 0 ELSE IF c[i] > c[id] THEN c[i] - 1 ELSE c[i]) \in Nat
    BY <1>2
  <2>2. QED
    BY <2>1
<1> HIDE DEF e, su
<1>5. c[id] # 0 /\ c[id] \in Nat /\ \A i \in Ids : c[i] \in Nat
    BY <1>2
<1>6. ASSUME NEW i \in Ids
      PROVE  e[i] <= N - 1 /\ (e[i] = 0 <=> su[i] = "NONE")
  <2>1. i # id => c[i] # c[id]
    BY <1>2, <1>5
  <2>2. QED
    BY <1>1, <1>2, <1>3, <1>5, <2>1
<1>7. ASSUME NEW i \in Ids, NEW j \in Ids, e[i] = e[j], e[i] # 0
      PROVE  i = j
  <2>1. i # id /\ j # id
    BY <1>3, <1>7
  <2>2. c[i] # c[id] /\ c[j] # c[id]
    BY <1>2, <1>5, <2>1
  <2>3. c[i] = c[j] /\ c[i] # 0
    BY <1>3, <1>5, <1>7, <2>1, <2>2
  <2>4. QED
    BY <1>2, <2>3
<1>8. QwenNumbered(e, su)
    BY <1>1, <1>4, <1>6, <1>7 DEF QwenNumbered
<1>9. ASSUME NEW i \in Ids \ {id}, NEW j \in Ids \ {id}
      PROVE  c[i] < c[j] <=> e[i] < e[j]
  <2>1. (c[i] = c[id] => i = id) /\ (c[j] = c[id] => j = id)
    BY <1>2, <1>5
  <2>2. QED
    BY <1>3, <1>5, <2>1
<1>10. QED
    BY <1>8, <1>9 DEF e, su

\* What QwenDispatch takes from the library is what it is here.
LEMMA QwenCount ==
    /\ \A S : Qwen!Cardinality(S) = Cardinality(S)
    /\ Qwen!Count = Cardinality(QwenPresent(qwenStatus))
<1>1. \A S : Qwen!Cardinality(S) = Cardinality(S)
    BY DEF Qwen!Cardinality, Cardinality
<1>2. Ids \ Qwen!Missing = QwenPresent(qwenStatus)
    BY DEF Qwen!Missing, QwenPresent
<1>3. QED
    BY <1>1, <1>2 DEF Qwen!Count

\* A batch lists its ids once each.
QwenBatch(ids, batch) ==
    /\ batch \in Seq(Ids) /\ Len(batch) = Cardinality(ids) /\ Len(batch) \in Nat
    /\ DOMAIN batch = 1..Len(batch) /\ Qwen!ToSet(batch) = ids
    /\ \A n \in 1..Len(batch) : batch[n] \in ids
    /\ \A i \in ids : \E n \in 1..Len(batch) : batch[n] = i
    /\ \A m, n \in 1..Len(batch) : batch[m] = batch[n] => m = n

\* The batches that Next chooses are such.
LEMMA QwenBatches ==
    ASSUME NEW ids \in SUBSET Ids, NEW batch \in Qwen!SetToSeqs(ids)
    PROVE  QwenBatch(ids, batch)
<1> DEFINE n == Cardinality(ids)
<1>1. IsFiniteSet(ids) /\ n \in Nat
    BY SchedulersAssumption, FS_Subset, FS_CardinalityType
<1>2. batch \in [1..n -> ids] /\ \A i, j \in 1..n : batch[i] = batch[j] => i = j
    BY QwenCount DEF Qwen!SetToSeqs
<1> HIDE DEF n
<1>3. batch \in Injection(1..n, ids)
    BY <1>2 DEF Injection, IsInjective
<1>4. Cardinality(1..n) = n
    BY <1>1, FS_Interval
<1>5. Cardinality(1..n) = Cardinality(ids) <=> batch \in Surjection(1..n, ids)
    BY <1>1, <1>3, FS_Injection
<1>6. \A i \in ids : \E m \in 1..n : batch[m] = i
    BY <1>4, <1>5 DEF Surjection, n
<1>7. batch \in Seq(Ids) /\ Len(batch) = n /\ DOMAIN batch = 1..n
    BY <1>1, <1>2
<1>8. Qwen!ToSet(batch) = ids
    BY <1>2, <1>6, <1>7 DEF Qwen!ToSet
<1>9. QED
    BY <1>1, <1>2, <1>6, <1>7, <1>8 DEF QwenBatch, n

\* The tasks of a batch get the next numbers in its order.
LEMMA QwenNumberedAfterBatch ==
    ASSUME qwenStatus \in [Ids -> QwenStatuses], QwenNumbered(qwenSequence, qwenStatus),
           NEW ids \in SUBSET Ids, \A i \in ids : qwenStatus[i] = "NONE",
           NEW batch, QwenBatch(ids, batch)
    PROVE  QwenNumbered(Qwen!Numbered(batch), [i \in Ids |-> IF i \in ids THEN "READY" ELSE qwenStatus[i]])
<1> DEFINE N == Cardinality(QwenPresent(qwenStatus))
           at(i) == CHOOSE n \in 1..Len(batch) : batch[n] = i
           c == qwenSequence
           e == Qwen!Numbered(batch)
           su == [i \in Ids |-> IF i \in ids THEN "READY" ELSE qwenStatus[i]]
<1>1. N \in Nat /\ Cardinality(QwenPresent(su)) = N + Len(batch) /\ Len(batch) \in Nat
  <2>1. IsFiniteSet(QwenPresent(qwenStatus)) /\ IsFiniteSet(ids)
    <3>1. QwenPresent(qwenStatus) \in SUBSET Ids
      BY DEF QwenPresent
    <3>2. QED
      BY <3>1, FS_Subset, SchedulersAssumption
  <2>2. QwenPresent(su) = QwenPresent(qwenStatus) \cup ids /\ QwenPresent(qwenStatus) \cap ids = {}
    BY DEF QwenPresent
  <2>3. Cardinality(QwenPresent(su)) = N + Cardinality(ids) - Cardinality({})
    BY <2>1, <2>2, FS_Union
  <2>4. N \in Nat /\ Cardinality(ids) \in Nat /\ Cardinality({}) = 0
    BY <2>1, FS_CardinalityType, FS_EmptySet
  <2>5. QED
    BY <2>3, <2>4 DEF QwenBatch
<1>2. \A i \in Ids : e[i] = (IF i \in ids THEN N + at(i) ELSE c[i])
    BY QwenCount DEF QwenBatch, Qwen!Numbered
<1>3. \A i \in ids : at(i) \in 1..Len(batch) /\ batch[at(i)] = i
    BY DEF QwenBatch
<1>4. DOMAIN e = Ids /\ e = [i \in Ids |-> e[i]]
    BY DEF Qwen!Numbered
<1> HIDE DEF at, N, e
<1>5. /\ c \in [Ids -> Nat] /\ \A i \in Ids : c[i] <= N /\ (c[i] = 0 <=> qwenStatus[i] = "NONE")
      /\ \A i, j \in Ids : c[i] = c[j] /\ c[i] # 0 => i = j
    BY DEF QwenNumbered, N
<1>6. \A i \in Ids : su[i] = IF i \in ids THEN "READY" ELSE qwenStatus[i]
    OBVIOUS
<1> HIDE DEF su
<1>7. \A i \in Ids : e[i] \in Nat
    BY <1>1, <1>2, <1>3, <1>5
<1>8. \A i \in Ids : e[i] <= N + Len(batch) /\ (e[i] = 0 <=> su[i] = "NONE")
    BY <1>1, <1>2, <1>3, <1>5, <1>6
<1>9. ASSUME NEW i \in Ids, NEW j \in Ids, e[i] = e[j], e[i] # 0
      PROVE  i = j
  <2>1. CASE i \in ids /\ j \in ids
    <3>1. at(i) = at(j)
      BY <1>1, <1>2, <1>3, <1>9, <2>1
    <3>2. QED
      BY <1>3, <2>1, <3>1
  <2>2. CASE i \in ids /\ j \notin ids
    BY <1>1, <1>2, <1>3, <1>5, <1>9, <2>2
  <2>3. CASE i \notin ids /\ j \in ids
    BY <1>1, <1>2, <1>3, <1>5, <1>9, <2>3
  <2>4. CASE i \notin ids /\ j \notin ids
    BY <1>2, <1>5, <1>9, <2>4
  <2>5. QED
    BY <2>1, <2>2, <2>3, <2>4
<1>10. e \in [Ids -> Nat]
    BY <1>4, <1>7
<1>11. QED
    BY <1>1, <1>8, <1>9, <1>10 DEF QwenNumbered, e, su

-----------------------------------------------------------------------------
(* qwen: the parts of a batch *)

\* The loop that picks entries of a batch: those picked, and how many it has gone through.
Picks(m) == Seq(Ids) \X (0..m)

PickOn(s, batch, S) ==
    <<IF batch[s[2] + 1] \in S THEN Append(s[1], batch[s[2] + 1]) ELSE s[1], s[2] + 1>>

\* Those picked are the ones in S of those gone through, once each.
PickRight(s, batch, S) ==
    /\ \A i, j \in 1..Len(s[1]) : s[1][i] = s[1][j] => i = j
    /\ \A k : (\E i \in 1..Len(s[1]) : s[1][i] = k) <=> k \in S /\ \E j \in 1..s[2] : batch[j] = k

\* One round of it.
LEMMA PickStep ==
    ASSUME NEW ids, NEW batch, QwenBatch(ids, batch), NEW s \in Picks(Len(batch)), s[2] # Len(batch)
    PROVE  \A S : /\ PickOn(s, batch, S) \in Picks(Len(batch)) /\ PickOn(s, batch, S)[2] = s[2] + 1
                  /\ PickRight(s, batch, S) => PickRight(PickOn(s, batch, S), batch, S)
<1> DEFINE n == s[2]
           id == batch[n + 1]
           p == s[1]
<1>1. p \in Seq(Ids) /\ Len(p) \in Nat /\ n \in 0..Len(batch) /\ Len(batch) \in Nat /\ n # Len(batch)
    BY DEF Picks, QwenBatch
<1>2. n + 1 \in 1..Len(batch) /\ n + 1 \in 0..Len(batch)
    BY <1>1
<1>3. id \in Ids
    BY <1>2 DEF QwenBatch
<1>4. \A j \in 1..Len(batch) : batch[j] = id => j = n + 1
    BY <1>2 DEF QwenBatch
<1>5. \A j : j \in 1..(n + 1) <=> j \in 1..n \/ j = n + 1
    BY <1>1
<1>6. \A j \in 1..n : j \in 1..Len(batch) /\ j # n + 1
    BY <1>1
<1> HIDE DEF n, p
<1>7. SUFFICES ASSUME NEW S
               PROVE  /\ PickOn(s, batch, S) \in Picks(Len(batch)) /\ PickOn(s, batch, S)[2] = n + 1
                      /\ PickRight(s, batch, S) => PickRight(PickOn(s, batch, S), batch, S)
    BY DEF n
<1> DEFINE q == IF id \in S THEN Append(p, id) ELSE p
           u == PickOn(s, batch, S)
<1>8. u = <<q, n + 1>>
    BY DEF PickOn, n, p
<1> HIDE DEF id, u
<1>9. q \in Seq(Ids)
    BY <1>1, <1>3
<1>10. u \in Picks(Len(batch)) /\ u[2] = n + 1 /\ u[1] = q
    BY <1>2, <1>8, <1>9 DEF Picks
<1>11. ASSUME PickRight(s, batch, S)
       PROVE  PickRight(u, batch, S)
  <2>1. /\ \A i, j \in 1..Len(p) : p[i] = p[j] => i = j
        /\ \A k : (\E i \in 1..Len(p) : p[i] = k) <=> k \in S /\ \E j \in 1..n : batch[j] = k
    BY <1>11 DEF PickRight, n, p
  <2>2. \A k : (\E j \in 1..(n + 1) : batch[j] = k) <=> k = id \/ \E j \in 1..n : batch[j] = k
    BY <1>5 DEF id
  <2>3. ~\E i \in 1..Len(p) : p[i] = id
    BY <1>4, <1>6, <2>1
  <2>4. CASE id \in S
    <3>1. /\ Len(q) = Len(p) + 1 /\ q[Len(p) + 1] = id
          /\ \A i \in 1..Len(p) : q[i] = p[i]
      BY <1>1, <1>3, <2>4
    <3>2. \A i : i \in 1..Len(q) <=> i \in 1..Len(p) \/ i = Len(p) + 1
      BY <1>1, <3>1
    <3> HIDE DEF q
    <3>3. \A i, j \in 1..Len(q) : q[i] = q[j] => i = j
      BY <2>1, <2>3, <3>1, <3>2
    <3>4. \A k : (\E i \in 1..Len(q) : q[i] = k) <=> k = id \/ \E i \in 1..Len(p) : p[i] = k
      BY <3>1, <3>2
    <3>5. \A k : (\E i \in 1..Len(q) : q[i] = k) <=> k \in S /\ \E j \in 1..(n + 1) : batch[j] = k
      BY <2>1, <2>2, <2>4, <3>4
    <3>6. QED
      BY <1>10, <3>3, <3>5 DEF PickRight
  <2>5. CASE id \notin S
    <3>1. q = p
      BY <2>5
    <3>2. \A k : k \in S /\ (\E j \in 1..(n + 1) : batch[j] = k) <=> k \in S /\ \E j \in 1..n : batch[j] = k
      BY <2>2, <2>5
    <3>3. QED
      BY <1>10, <2>1, <3>1, <3>2 DEF PickRight
  <2>6. QED
    BY <2>4, <2>5
<1>12. QED
    BY <1>10, <1>11 DEF u

\* The loop's equation has a solution.
LEMMA PickLoop ==
    ASSUME NEW m, NEW next \in [Picks(m) -> Picks(m)], NEW stop
    PROVE  \E f : f = [s \in Picks(m) |-> IF s \in stop THEN s ELSE f[next[s]]]
<1> DEFINE S == Picks(m)
<1>1. next \in [S -> S]
    OBVIOUS
<1> HIDE DEF S
<1>2. \E f : f = [s \in S |-> IF s \in stop THEN s ELSE f[next[s]]]
    BY <1>1, LoopExists
<1>3. QED
    BY <1>2 DEF S

\* Selected lists the ids of a batch that are in part, once each.
LEMMA SelectedRight ==
    ASSUME NEW ids, NEW batch, QwenBatch(ids, batch), NEW part
    PROVE  LET sel == Qwen!Selected(batch, part)
           IN  /\ sel \in Seq(Ids)
               /\ \A i, j \in DOMAIN sel : sel[i] = sel[j] => i = j
               /\ \A k : k \in {sel[i] : i \in DOMAIN sel} <=> k \in ids /\ k \in part
<1> DEFINE m == Len(batch)
           S == Picks(m)
           Solves(f) == f = [s \in S |-> IF s[2] = m THEN s ELSE f[PickOn(s, batch, part)]]
           stop == {s \in S : s[2] = m}
           next == [s \in S |-> IF s[2] = m THEN s ELSE PickOn(s, batch, part)]
           count == [s \in S |-> m - s[2]]
           I == {s \in S : PickRight(s, batch, part)}
           start == << <<>>, 0>>
           sel == Qwen!Selected(batch, part)
<1>1. next \in [S -> S]
  <2>1. \A s \in S : s[2] # m => PickOn(s, batch, part) \in S
    BY PickStep
  <2> HIDE DEF S
  <2>2. QED
    BY <2>1
<1>2. \E f : f = [s \in S |-> IF s \in stop THEN s ELSE f[next[s]]]
  <2> HIDE DEF stop, next, m
  <2>1. QED
    BY <1>1, PickLoop
<1>3. ASSUME NEW f
      PROVE  Solves(f) <=> f = [s \in S |-> IF s \in stop THEN s ELSE f[next[s]]]
  <2> HIDE DEF S
  <2>1. \A s \in S : (IF s[2] = m THEN s ELSE f[PickOn(s, batch, part)]) = IF s \in stop THEN s ELSE f[next[s]]
    OBVIOUS
  <2> HIDE DEF stop, next
  <2>2. [s \in S |-> IF s[2] = m THEN s ELSE f[PickOn(s, batch, part)]]
           = [s \in S |-> IF s \in stop THEN s ELSE f[next[s]]]
    BY <2>1
  <2>3. QED
    BY <2>2
<1>4. sel = (CHOOSE f : Solves(f))[start][1]
    BY DEF Qwen!Selected, Picks, PickOn
<1> HIDE DEF Solves, sel
<1>5. PICK f : /\ f = [s \in S |-> IF s \in stop THEN s ELSE f[next[s]]]
               /\ sel = f[start][1]
    BY <1>2, <1>3, <1>4
<1>6. m \in Nat /\ count \in [S -> Nat]
    BY DEF Picks, QwenBatch
<1>7. \A s \in I : s \notin stop => next[s] \in I /\ count[next[s]] < count[s]
  <2> SUFFICES ASSUME NEW s \in I, s \notin stop
               PROVE  next[s] \in I /\ count[next[s]] < count[s]
    OBVIOUS
  <2>1. s \in S /\ s[2] # m /\ PickRight(s, batch, part) /\ s[2] \in 0..m
    BY DEF Picks
  <2>2. /\ PickOn(s, batch, part) \in S /\ PickRight(PickOn(s, batch, part), batch, part)
        /\ PickOn(s, batch, part)[2] = s[2] + 1
    BY <2>1, PickStep
  <2>3. m - (s[2] + 1) < m - s[2]
    BY <1>6, <2>1
  <2> HIDE DEF S
  <2>4. QED
    BY <2>1, <2>2, <2>3
<1>8. start \in I
  <2>1. start \in S /\ start[1] = <<>> /\ start[2] = 0
    <3>1. <<>> \in Seq(Ids) /\ 0 \in 0..m
      BY <1>6
    <3> HIDE DEF m
    <3>2. QED
      BY <3>1 DEF Picks
  <2> HIDE DEF start, S
  <2>2. PickRight(start, batch, part)
    BY <2>1 DEF PickRight
  <2>3. QED
    BY <2>1, <2>2
<1> DEFINE end == f[start]
<1>9. end \in I /\ end \in stop
  <2>1. I \in SUBSET S
    OBVIOUS
  <2>2. f = [s \in S |-> IF s \in stop THEN s ELSE f[next[s]]]
    BY <1>5
  <2> HIDE DEF stop, next, count, S, start, I
  <2>3. QED
    BY <1>6, <1>7, <1>8, <2>1, <2>2, LoopEnds
<1>10. end \in S /\ PickRight(end, batch, part) /\ end[2] = m
  <2> HIDE DEF end
  <2>1. QED
    BY <1>9
<1>11. sel = end[1]
    BY <1>5
<1> HIDE DEF end
<1>12. /\ sel \in Seq(Ids) /\ DOMAIN sel = 1..Len(sel)
       /\ \A i, j \in 1..Len(sel) : sel[i] = sel[j] => i = j
       /\ \A k : (\E i \in 1..Len(sel) : sel[i] = k) <=> k \in part /\ \E j \in 1..m : batch[j] = k
  <2>1. sel \in Seq(Ids)
    BY <1>10, <1>11 DEF Picks
  <2>2. QED
    BY <1>10, <1>11, <2>1 DEF PickRight
<1>13. \A k : (\E j \in 1..m : batch[j] = k) <=> k \in ids
    BY DEF QwenBatch
<1>14. QED
    BY <1>12, <1>13 DEF sel

-----------------------------------------------------------------------------
(* qwen: the loops of _findNext *)

QwenDueOrder    == Qwen!DueOrder(qwenTask, qwenSequence)
QwenFutureOrder == Qwen!FutureOrder(qwenTask, qwenSequence)

\* The heaps and the dropped entries, no entry being in both heaps.
QwenApart == {s \in [due : Heaps(Ids), future : Heaps(Ids), dropped : SUBSET Ids] :
                 \A i \in Ids : i \notin KeysIn(s.due) \/ i \notin KeysIn(s.future)}

\* They are what QwenDispatch's loops go through.
LEMMA QwenSearches == Qwen!Searches = QwenApart
<1> DEFINE R == [due : Heaps(Ids), future : Heaps(Ids), dropped : SUBSET Ids]
<1>1. Qwen!Searches = {s \in R : \A i \in Ids : ~(s.due.index[i] # 0 /\ s.future.index[i] # 0)}
    BY QwenSame DEF Qwen!Searches
<1>2. ASSUME NEW s \in R, NEW i \in Ids
      PROVE  (i \in KeysIn(s.due) <=> s.due.index[i] # 0) /\ (i \in KeysIn(s.future) <=> s.future.index[i] # 0)
  <2>1. DOMAIN s.due.index = Ids /\ DOMAIN s.future.index = Ids
    BY ArraysRight DEF Heaps
  <2>2. QED
    BY <2>1 DEF KeysIn
<1>3. QwenApart = {s \in R : \A i \in Ids : i \notin KeysIn(s.due) \/ i \notin KeysIn(s.future)}
    BY DEF QwenApart
<1> HIDE DEF R
<1>4. QED
    BY <1>1, <1>2, <1>3

\* One round of each loop.
PromotedOn(s) ==
    [due |-> Qwen!Push(s.due, s.future.items[1], QwenDueOrder),
     future |-> Pop(s.future, QwenFutureOrder), dropped |-> s.dropped]
DroppedOn(s) ==
    [due |-> Pop(s.due, QwenDueOrder), future |-> s.future, dropped |-> s.dropped \cup {s.due.items[1]}]

\* push keeps the index right and has the key in, whatever the order.
LEMMA QwenPushed ==
    ASSUME NEW h \in Heaps(Ids), NEW k \in Ids, k \notin KeysIn(h), NEW before
    PROVE  Qwen!Push(h, k, before) \in Heaps(Ids) /\ KeysIn(Qwen!Push(h, k, before)) = KeysIn(h) \cup {k}
<1>1. h \in Arrays(Ids) /\ Coherent(h) /\ DOMAIN h.index = Ids
    BY ArraysRight DEF Heaps
<1>2. h.index[k] = 0
    BY <1>1 DEF KeysIn
<1> DEFINE a == Appended(h, k)
           n == Size(h) + 1
<1>3. Qwen!Push(h, k, before) = SiftUp(a, n, before)[1]
    BY QwenSame
<1>4. a \in Heaps(Ids) /\ KeysIn(a) = KeysIn(h) \cup {k} /\ n \in 1..Size(a)
    BY <1>1, <1>2, AppendedIndexed DEF Heaps
<1> HIDE DEF a, n
<1>5. QED
    BY <1>3, <1>4, SiftedIndexed

\* The first loop takes the root of futureHeap to dueHeap.
LEMMA PromotedOne ==
    ASSUME NEW s \in QwenApart, Size(s.future) # 0
    PROVE  LET top == s.future.items[1]
               u   == PromotedOn(s)
           IN  /\ u \in QwenApart /\ Size(u.future) < Size(s.future) /\ u.dropped = s.dropped
               /\ top \in Ids /\ top \in KeysIn(s.future) /\ top \notin KeysIn(s.due)
               /\ KeysIn(u.due) = KeysIn(s.due) \cup {top} /\ KeysIn(u.future) = KeysIn(s.future) \ {top}
<1> DEFINE top == s.future.items[1]
           d == Qwen!Push(s.due, top, QwenDueOrder)
           f == Pop(s.future, QwenFutureOrder)
           u == PromotedOn(s)
<1>1. /\ s.due \in Heaps(Ids) /\ s.future \in Heaps(Ids) /\ s.dropped \in SUBSET Ids
      /\ \A i \in Ids : i \notin KeysIn(s.due) \/ i \notin KeysIn(s.future)
    BY DEF QwenApart
<1>2. /\ f \in Heaps(Ids) /\ top \in KeysIn(s.future) /\ KeysIn(f) = KeysIn(s.future) \ {top}
      /\ Size(f) = Size(s.future) - 1 /\ Size(s.future) \in Nat
    BY <1>1, PoppedIndexed
<1>3. DOMAIN s.future.index = Ids
    BY <1>1, ArraysRight DEF Heaps
<1>4. top \in Ids /\ top \notin KeysIn(s.due)
    BY <1>1, <1>2, <1>3 DEF KeysIn
<1> HIDE DEF top
<1>5. d \in Heaps(Ids) /\ KeysIn(d) = KeysIn(s.due) \cup {top}
    BY <1>1, <1>4, QwenPushed
<1>6. u = [due |-> d, future |-> f, dropped |-> s.dropped]
    BY DEF PromotedOn, top
<1> HIDE DEF d, f, u
<1>7. u.due = d /\ u.future = f /\ u.dropped = s.dropped
    BY <1>6
<1>8. \A i \in Ids : i \notin KeysIn(d) \/ i \notin KeysIn(f)
    BY <1>1, <1>2, <1>5
<1>9. u \in QwenApart
    BY <1>1, <1>2, <1>5, <1>6, <1>7, <1>8 DEF QwenApart
<1>10. Size(f) < Size(s.future)
    BY <1>2
<1>11. QED
    BY <1>2, <1>4, <1>5, <1>7, <1>9, <1>10 DEF top, u

\* The second loop drops the root of dueHeap.
LEMMA DroppedOne ==
    ASSUME NEW s \in QwenApart, Size(s.due) # 0
    PROVE  LET top == s.due.items[1]
               u   == DroppedOn(s)
           IN  /\ u \in QwenApart /\ Size(u.due) < Size(s.due) /\ u.future = s.future
               /\ u.due = Pop(s.due, QwenDueOrder)
               /\ top \in Ids /\ top \in KeysIn(s.due)
               /\ KeysIn(u.due) = KeysIn(s.due) \ {top} /\ u.dropped = s.dropped \cup {top}
<1> DEFINE top == s.due.items[1]
           d == Pop(s.due, QwenDueOrder)
           u == DroppedOn(s)
<1>1. /\ s.due \in Heaps(Ids) /\ s.future \in Heaps(Ids) /\ s.dropped \in SUBSET Ids
      /\ \A i \in Ids : i \notin KeysIn(s.due) \/ i \notin KeysIn(s.future)
    BY DEF QwenApart
<1>2. /\ d \in Heaps(Ids) /\ top \in KeysIn(s.due) /\ KeysIn(d) = KeysIn(s.due) \ {top}
      /\ Size(d) = Size(s.due) - 1 /\ Size(s.due) \in Nat
    BY <1>1, PoppedIndexed
<1>3. DOMAIN s.due.index = Ids
    BY <1>1, ArraysRight DEF Heaps
<1>4. top \in Ids
    BY <1>2, <1>3 DEF KeysIn
<1>5. u = [due |-> d, future |-> s.future, dropped |-> s.dropped \cup {top}]
    BY DEF DroppedOn
<1> HIDE DEF top, d, u
<1>6. u.due = d /\ u.future = s.future /\ u.dropped = s.dropped \cup {top}
    BY <1>5
<1>7. \A i \in Ids : i \notin KeysIn(d) \/ i \notin KeysIn(s.future)
    BY <1>1, <1>2
<1>8. u \in QwenApart
    BY <1>1, <1>2, <1>4, <1>5, <1>6, <1>7 DEF QwenApart
<1>9. Size(d) < Size(s.due)
    BY <1>2
<1>10. QED
    BY <1>2, <1>4, <1>6, <1>8, <1>9 DEF top, d, u

\* The tasks queued stay what they were, parted by the time at.
PromotedRight(s, at) ==
    /\ QwenParts(s.due, s.future, qwenTask, qwenSequence, qwenStatus, at)
    /\ \A k : k \in KeysIn(s.due) \/ k \in KeysIn(s.future)
                 <=> k \in KeysIn(qwenDue) \/ k \in KeysIn(qwenFuture)
    /\ s.dropped = {}

\* Nothing in futureHeap is due, or its root is not.
NoneDue(s, at) == Size(s.future) = 0 \/ qwenTask[s.future.items[1]].executeTime > at

\* A round of the first loop keeps that.
LEMMA PromotedStep ==
    ASSUME qwenTask \in [Ids -> QwenKeys], qwenSequence \in [Ids -> Nat], NEW at \in Int,
           NEW s \in QwenApart, ~NoneDue(s, at), PromotedRight(s, at)
    PROVE  PromotedRight(PromotedOn(s), at)
<1> DEFINE top == s.future.items[1]
           f == Pop(s.future, QwenFutureOrder)
           u == PromotedOn(s)
<1>1. /\ u \in QwenApart /\ u.dropped = s.dropped
      /\ top \in Ids /\ top \in KeysIn(s.future) /\ top \notin KeysIn(s.due)
      /\ KeysIn(u.due) = KeysIn(s.due) \cup {top} /\ KeysIn(u.future) = KeysIn(s.future) \ {top}
    BY PromotedOne DEF NoneDue
<1>2. u.due = Qwen!Push(s.due, top, QwenDueOrder) /\ u.future = f
    BY DEF PromotedOn
<1>3. qwenTask[top].executeTime <= at
  <2>1. ~(qwenTask[top].executeTime > at)
    BY DEF NoneDue
  <2>2. qwenTask[top].executeTime \in Int
    BY <1>1 DEF QwenKeys
  <2> HIDE DEF top
  <2>3. QED
    BY <2>1, <2>2
<1>4. /\ SoundHeap(s.future, Ids, QwenFutureOrder) /\ Size(s.future) # 0 /\ IsOrder(Ids, QwenFutureOrder)
      /\ SoundHeap(s.due, Ids, QwenDueOrder)
    BY QwenOrders DEF PromotedRight, QwenParts, NoneDue, QwenFutureOrder, QwenDueOrder
<1>5. SoundHeap(f, Ids, QwenFutureOrder)
    BY <1>4, PoppedRight
<1>6. /\ \A i \in Ids : i \notin KeysIn(s.due) \/ i \notin KeysIn(s.future)
      /\ \A i \in Ids : i \in KeysIn(s.due) \/ i \in KeysIn(s.future) => qwenStatus[i] = "READY"
      /\ \A i \in Ids : i \in KeysIn(s.due) => qwenTask[i].executeTime <= at
      /\ s.dropped = {}
      /\ \A k : k \in KeysIn(s.due) \/ k \in KeysIn(s.future)
                   <=> k \in KeysIn(qwenDue) \/ k \in KeysIn(qwenFuture)
    BY DEF PromotedRight, QwenParts
<1> HIDE DEF top, f, u
<1>7. KeysIn(f) = KeysIn(s.future) \ {top}
    BY <1>1, <1>2
<1>8. QwenParts(s.due, f, qwenTask, qwenSequence, qwenStatus, at)
    BY <1>4, <1>5, <1>6, <1>7 DEF QwenParts, QwenDueOrder, QwenFutureOrder
<1>9. QwenOut(s.due, f, top) /\ qwenStatus[top] = "READY"
    BY <1>1, <1>6, <1>7 DEF QwenOut
<1>10. QwenParts(Qwen!Push(s.due, top, Qwen!DueOrder(qwenTask, qwenSequence)), f,
                 qwenTask, qwenSequence, qwenStatus, at)
    BY <1>1, <1>3, <1>8, <1>9, QwenInserted
<1>11. QwenParts(u.due, u.future, qwenTask, qwenSequence, qwenStatus, at)
    BY <1>2, <1>10 DEF QwenDueOrder
<1>12. \A k : k \in KeysIn(u.due) \/ k \in KeysIn(u.future)
                 <=> k \in KeysIn(qwenDue) \/ k \in KeysIn(qwenFuture)
    BY <1>1, <1>6
<1>13. u.dropped = {}
    BY <1>1, <1>6
<1>14. QED
    BY <1>11, <1>12, <1>13 DEF PromotedRight, u

\* A loop's equation over these records has a solution.
LEMMA ApartLoop ==
    ASSUME NEW next \in [QwenApart -> QwenApart], NEW stop
    PROVE  \E f : f = [s \in QwenApart |-> IF s \in stop THEN s ELSE f[next[s]]]
<1> DEFINE S == QwenApart
<1>1. next \in [S -> S]
    OBVIOUS
<1> HIDE DEF S
<1>2. \E f : f = [s \in S |-> IF s \in stop THEN s ELSE f[next[s]]]
    BY <1>1, LoopExists
<1>3. QED
    BY <1>2 DEF S

\* The sizes of the heaps count the rounds.
LEMMA ApartSizes ==
    ASSUME NEW s \in QwenApart
    PROVE  Size(s.due) \in Nat /\ Size(s.future) \in Nat
  BY ArraysRight DEF QwenApart, Heaps

\* The record s with other heaps.
WithHeaps(s, d, f) == [s EXCEPT !.due = d, !.future = f]

\* It has the same entries dropped.
LEMMA WithHeapsRight ==
    ASSUME NEW s \in QwenApart, NEW d, NEW f
    PROVE  WithHeaps(s, d, f) = [due |-> d, future |-> f, dropped |-> s.dropped]
<1> DEFINE u == [s EXCEPT !.due = d]
<1>0. s \in [due : Heaps(Ids), future : Heaps(Ids), dropped : SUBSET Ids]
    BY DEF QwenApart
<1>1. [s EXCEPT !.due = d, !.future = f] = [u EXCEPT !.future = f]
    BY <1>0
<1>2. u = [due |-> d, future |-> s.future, dropped |-> s.dropped]
    BY <1>0
<1>3. [u EXCEPT !.future = f] = [due |-> d, future |-> f, dropped |-> s.dropped]
  <2> HIDE DEF u
  <2>1. QED
    BY <1>2
<1>4. QED
    BY <1>1, <1>3 DEF WithHeaps

\* _promoteDue ends, with the tasks queued parted and no root of futureHeap that is due.
LEMMA PromotedEnds ==
    ASSUME qwenTask \in [Ids -> QwenKeys], qwenSequence \in [Ids -> Nat], NEW at \in Int,
           NEW start \in QwenApart, PromotedRight(start, at)
    PROVE  /\ Qwen!Promoted(start, at) \in QwenApart
           /\ PromotedRight(Qwen!Promoted(start, at), at) /\ NoneDue(Qwen!Promoted(start, at), at)
<1> DEFINE S == QwenApart
           Ends(s) == NoneDue(s, at)
           Solves(f) == f = [s \in S |-> IF Ends(s) THEN s ELSE f[PromotedOn(s)]]
           stop == {s \in S : Ends(s)}
           next == [s \in S |-> IF Ends(s) THEN s ELSE PromotedOn(s)]
           count == [s \in S |-> Size(s.future)]
           I == {s \in S : PromotedRight(s, at)}
<1>0. \A s \in S : ~Ends(s) => PromotedOn(s) \in S /\ Size(PromotedOn(s).future) < Size(s.future)
    BY PromotedOne DEF NoneDue
<1>1. next \in [S -> S]
  <2> HIDE DEF S, Ends
  <2>1. QED
    BY <1>0
<1>2. \E f : f = [s \in S |-> IF s \in stop THEN s ELSE f[next[s]]]
  <2> HIDE DEF stop, next
  <2>1. QED
    BY <1>1, ApartLoop
<1>3. ASSUME NEW f
      PROVE  Solves(f) <=> f = [s \in S |-> IF s \in stop THEN s ELSE f[next[s]]]
  <2> HIDE DEF S, Ends
  <2>1. \A s \in S : (IF Ends(s) THEN s ELSE f[PromotedOn(s)]) = IF s \in stop THEN s ELSE f[next[s]]
    OBVIOUS
  <2> HIDE DEF stop, next
  <2>2. [s \in S |-> IF Ends(s) THEN s ELSE f[PromotedOn(s)]]
           = [s \in S |-> IF s \in stop THEN s ELSE f[next[s]]]
    BY <2>1
  <2>3. QED
    BY <2>2
<1>4. Qwen!Promoted(start, at) = (CHOOSE f : Solves(f))[start]
  <2>1. ASSUME NEW s
        PROVE  WithHeaps(s, Qwen!Push(s.due, s.future.items[1], QwenDueOrder), Pop(s.future, QwenFutureOrder))
                  = [s EXCEPT !.due = Qwen!Push(s.due, Qwen!Peek(s.future), Qwen!DueOrder(qwenTask, qwenSequence)),
                              !.future = Qwen!Pop(s.future, Qwen!FutureOrder(qwenTask, qwenSequence))]
    BY QwenSame DEF Qwen!Peek, QwenDueOrder, QwenFutureOrder, WithHeaps
  <2>2. ASSUME NEW s \in S
        PROVE  PromotedOn(s)
                  = WithHeaps(s, Qwen!Push(s.due, s.future.items[1], QwenDueOrder), Pop(s.future, QwenFutureOrder))
    BY WithHeapsRight DEF PromotedOn
  <2>3. \A s : Ends(s) <=> Qwen!IsHeapEmpty(s.future) \/ qwenTask[Qwen!Peek(s.future)].executeTime > at
    BY QwenSame DEF NoneDue, Qwen!Peek
  <2> DEFINE Moved(s) == [s EXCEPT !.due = Qwen!Push(s.due, Qwen!Peek(s.future), Qwen!DueOrder(qwenTask, qwenSequence)),
                                   !.future = Qwen!Pop(s.future, Qwen!FutureOrder(qwenTask, qwenSequence))]
             Done(s) == Qwen!IsHeapEmpty(s.future) \/ qwenTask[Qwen!Peek(s.future)].executeTime > at
             Loops(f) == f = [s \in Qwen!Searches |-> IF Done(s) THEN s ELSE f[Moved(s)]]
  <2>4. Qwen!Promoted(start, at) = (CHOOSE f : Loops(f))[start]
    BY DEF Qwen!Promoted
  <2>5. /\ \A s \in S : PromotedOn(s) = Moved(s)
        /\ \A s \in S : Ends(s) <=> Done(s)
    BY <2>1, <2>2, <2>3
  <2> HIDE DEF Moved, Done, Ends
  <2>6. ASSUME NEW f
        PROVE  Solves(f) <=> Loops(f)
    <3>1. [s \in S |-> IF Ends(s) THEN s ELSE f[PromotedOn(s)]] = [s \in S |-> IF Done(s) THEN s ELSE f[Moved(s)]]
      BY <2>5
    <3>2. QED
      BY <3>1, QwenSearches
  <2> HIDE DEF Solves, Loops
  <2>7. (CHOOSE f : Loops(f)) = CHOOSE f : Solves(f)
    BY <2>6
  <2>8. QED
    BY <2>4, <2>7
<1> HIDE DEF Solves
<1>5. PICK f : f = [s \in S |-> IF s \in stop THEN s ELSE f[next[s]]] /\ Qwen!Promoted(start, at) = f[start]
    BY <1>2, <1>3, <1>4
<1>6. count \in [S -> Nat]
    BY ApartSizes
<1>7. \A s \in I : s \notin stop => next[s] \in I /\ count[next[s]] < count[s]
  <2> SUFFICES ASSUME NEW s \in I, s \notin stop
               PROVE  next[s] \in I /\ count[next[s]] < count[s]
    OBVIOUS
  <2>1. s \in S /\ ~Ends(s) /\ PromotedRight(s, at)
    OBVIOUS
  <2>2. PromotedOn(s) \in S /\ PromotedRight(PromotedOn(s), at)
        /\ Size(PromotedOn(s).future) < Size(s.future)
    BY <1>0, <2>1, PromotedStep
  <2> HIDE DEF S, Ends
  <2>3. QED
    BY <2>1, <2>2
<1>8. start \in I
    OBVIOUS
<1>9. f[start] \in I /\ f[start] \in stop
  <2>1. I \in SUBSET S
    OBVIOUS
  <2>2. f = [s \in S |-> IF s \in stop THEN s ELSE f[next[s]]]
    BY <1>5
  <2> HIDE DEF stop, next, count, S, I
  <2>3. QED
    BY <1>6, <1>7, <1>8, <2>1, <2>2, LoopEnds
<1>10. QED
    BY <1>5, <1>9

\* From due on, futureHeap stays and entries of dueHeap are dropped, those at the root first.
DroppedRight(s, from, at) ==
    /\ QwenParts(s.due, s.future, qwenTask, qwenSequence, qwenStatus, at)
    /\ s.future = from.future
    /\ \A k : k \in KeysIn(s.due) \/ k \in s.dropped <=> k \in KeysIn(from.due)
    /\ \A k \in s.dropped : k \notin KeysIn(s.due) /\ k \in qwenDangling
    /\ \A k \in KeysIn(s.due), x \in s.dropped : <<k, x>> \notin QwenDueOrder

\* The root of dueHeap, if any, is not blocked.
NoneBlocked(s) == Size(s.due) = 0 \/ s.due.items[1] \notin qwenDangling

\* A round of the second loop keeps that.
LEMMA DroppedStep ==
    ASSUME qwenTask \in [Ids -> QwenKeys], qwenSequence \in [Ids -> Nat], NEW at, NEW from,
           NEW s \in QwenApart, ~NoneBlocked(s), DroppedRight(s, from, at)
    PROVE  DroppedRight(DroppedOn(s), from, at)
<1> DEFINE top == s.due.items[1]
           u == DroppedOn(s)
<1>1. /\ u.future = s.future
      /\ top \in Ids /\ top \in KeysIn(s.due) /\ u.due = Pop(s.due, QwenDueOrder)
      /\ KeysIn(u.due) = KeysIn(s.due) \ {top} /\ u.dropped = s.dropped \cup {top}
    BY DroppedOne DEF NoneBlocked
<1>2. /\ SoundHeap(s.due, Ids, QwenDueOrder) /\ Size(s.due) # 0 /\ IsOrder(Ids, QwenDueOrder)
      /\ SoundHeap(s.future, Ids, QwenFutureOrder) /\ top \in qwenDangling
    BY QwenOrders DEF DroppedRight, QwenParts, NoneBlocked, QwenDueOrder, QwenFutureOrder
<1>3. SoundHeap(u.due, Ids, QwenDueOrder)
    BY <1>1, <1>2, PoppedRight
<1>4. \A k \in KeysIn(s.due) : <<k, top>> \notin QwenDueOrder
    BY <1>2, RootFirst
<1> HIDE DEF top, u
<1>5. /\ \A i \in Ids : i \notin KeysIn(s.due) \/ i \notin KeysIn(s.future)
      /\ \A i \in Ids : i \in KeysIn(s.due) \/ i \in KeysIn(s.future) => qwenStatus[i] = "READY"
      /\ \A i \in Ids : i \in KeysIn(s.due) => qwenTask[i].executeTime <= at
      /\ s.future = from.future
      /\ \A k : k \in KeysIn(s.due) \/ k \in s.dropped <=> k \in KeysIn(from.due)
      /\ \A k \in s.dropped : k \notin KeysIn(s.due) /\ k \in qwenDangling
      /\ \A k \in KeysIn(s.due), x \in s.dropped : <<k, x>> \notin QwenDueOrder
    BY DEF DroppedRight, QwenParts
<1>6. QwenParts(u.due, u.future, qwenTask, qwenSequence, qwenStatus, at)
  <2>1. \A i \in Ids : i \in KeysIn(u.due) => i \in KeysIn(s.due)
    BY <1>1
  <2>2. SoundHeap(u.future, Ids, QwenFutureOrder)
    BY <1>1, <1>2
  <2>3. QED
    BY <1>1, <1>3, <1>5, <2>1, <2>2 DEF QwenParts, QwenDueOrder, QwenFutureOrder
<1>7. \A k : k \in KeysIn(u.due) \/ k \in u.dropped <=> k \in KeysIn(from.due)
    BY <1>1, <1>5
<1>8. \A k \in u.dropped : k \notin KeysIn(u.due) /\ k \in qwenDangling
    BY <1>1, <1>2, <1>5
<1>9. \A k \in KeysIn(u.due), x \in u.dropped : <<k, x>> \notin QwenDueOrder
    BY <1>1, <1>4, <1>5
<1>10. QED
    BY <1>1, <1>5, <1>6, <1>7, <1>8, <1>9 DEF DroppedRight, u

\* The record s with another dueHeap and one more entry dropped.
WithoutTop(s, d, x) == [s EXCEPT !.due = d, !.dropped = @ \cup {x}]

\* It has the same futureHeap.
LEMMA WithoutTopRight ==
    ASSUME NEW s \in QwenApart, NEW d, NEW x
    PROVE  WithoutTop(s, d, x) = [due |-> d, future |-> s.future, dropped |-> s.dropped \cup {x}]
<1> DEFINE u == [s EXCEPT !.due = d]
           y == s.dropped \cup {x}
<1>0. s \in [due : Heaps(Ids), future : Heaps(Ids), dropped : SUBSET Ids]
    BY DEF QwenApart
<1>1. [s EXCEPT !.due = d, !.dropped = @ \cup {x}] = [u EXCEPT !.dropped = y]
    BY <1>0
<1>2. u = [due |-> d, future |-> s.future, dropped |-> s.dropped]
    BY <1>0
<1>3. [u EXCEPT !.dropped = y] = [due |-> d, future |-> s.future, dropped |-> y]
  <2> HIDE DEF u, y
  <2>1. QED
    BY <1>2
<1>4. QED
    BY <1>1, <1>3 DEF WithoutTop

\* The walk of _findNext ends, at a root that is not blocked.
LEMMA DroppedEnds ==
    ASSUME qwenTask \in [Ids -> QwenKeys], qwenSequence \in [Ids -> Nat], NEW at \in Int,
           NEW start \in QwenApart, DroppedRight(start, start, at)
    PROVE  /\ Qwen!Unblocked(start) \in QwenApart
           /\ DroppedRight(Qwen!Unblocked(start), start, at) /\ NoneBlocked(Qwen!Unblocked(start))
<1> DEFINE S == QwenApart
           Ends(s) == NoneBlocked(s)
           Solves(f) == f = [s \in S |-> IF Ends(s) THEN s ELSE f[DroppedOn(s)]]
           stop == {s \in S : Ends(s)}
           next == [s \in S |-> IF Ends(s) THEN s ELSE DroppedOn(s)]
           count == [s \in S |-> Size(s.due)]
           I == {s \in S : DroppedRight(s, start, at)}
<1>0. \A s \in S : ~Ends(s) => DroppedOn(s) \in S /\ Size(DroppedOn(s).due) < Size(s.due)
    BY DroppedOne DEF NoneBlocked
<1>1. next \in [S -> S]
  <2> HIDE DEF S, Ends
  <2>1. QED
    BY <1>0
<1>2. \E f : f = [s \in S |-> IF s \in stop THEN s ELSE f[next[s]]]
  <2> HIDE DEF stop, next
  <2>1. QED
    BY <1>1, ApartLoop
<1>3. ASSUME NEW f
      PROVE  Solves(f) <=> f = [s \in S |-> IF s \in stop THEN s ELSE f[next[s]]]
  <2> HIDE DEF S, Ends
  <2>1. \A s \in S : (IF Ends(s) THEN s ELSE f[DroppedOn(s)]) = IF s \in stop THEN s ELSE f[next[s]]
    OBVIOUS
  <2> HIDE DEF stop, next
  <2>2. [s \in S |-> IF Ends(s) THEN s ELSE f[DroppedOn(s)]]
           = [s \in S |-> IF s \in stop THEN s ELSE f[next[s]]]
    BY <2>1
  <2>3. QED
    BY <2>2
<1>4. Qwen!Unblocked(start) = (CHOOSE f : Solves(f))[start]
  <2>1. ASSUME NEW s
        PROVE  WithoutTop(s, Pop(s.due, QwenDueOrder), s.due.items[1])
                  = [s EXCEPT !.due = Qwen!Pop(s.due, Qwen!DueOrder(qwenTask, qwenSequence)),
                              !.dropped = @ \cup {Qwen!Peek(s.due)}]
    BY QwenSame DEF Qwen!Peek, QwenDueOrder, WithoutTop
  <2>2. ASSUME NEW s \in S
        PROVE  DroppedOn(s) = WithoutTop(s, Pop(s.due, QwenDueOrder), s.due.items[1])
    BY WithoutTopRight DEF DroppedOn
  <2>3. \A s : Ends(s) <=> Qwen!IsHeapEmpty(s.due) \/ Qwen!Peek(s.due) \notin qwenDangling
    BY QwenSame DEF NoneBlocked, Qwen!Peek
  <2> DEFINE Moved(s) == [s EXCEPT !.due = Qwen!Pop(s.due, Qwen!DueOrder(qwenTask, qwenSequence)),
                                   !.dropped = @ \cup {Qwen!Peek(s.due)}]
             Done(s) == Qwen!IsHeapEmpty(s.due) \/ Qwen!Peek(s.due) \notin qwenDangling
             Loops(f) == f = [s \in Qwen!Searches |-> IF Done(s) THEN s ELSE f[Moved(s)]]
  <2>4. Qwen!Unblocked(start) = (CHOOSE f : Loops(f))[start]
    BY DEF Qwen!Unblocked
  <2>5. /\ \A s \in S : DroppedOn(s) = Moved(s)
        /\ \A s \in S : Ends(s) <=> Done(s)
    BY <2>1, <2>2, <2>3
  <2> HIDE DEF Moved, Done, Ends
  <2>6. ASSUME NEW f
        PROVE  Solves(f) <=> Loops(f)
    <3>1. [s \in S |-> IF Ends(s) THEN s ELSE f[DroppedOn(s)]] = [s \in S |-> IF Done(s) THEN s ELSE f[Moved(s)]]
      BY <2>5
    <3>2. QED
      BY <3>1, QwenSearches
  <2> HIDE DEF Solves, Loops
  <2>7. (CHOOSE f : Loops(f)) = CHOOSE f : Solves(f)
    BY <2>6
  <2>8. QED
    BY <2>4, <2>7
<1> HIDE DEF Solves
<1>5. PICK f : f = [s \in S |-> IF s \in stop THEN s ELSE f[next[s]]] /\ Qwen!Unblocked(start) = f[start]
    BY <1>2, <1>3, <1>4
<1>6. count \in [S -> Nat]
    BY ApartSizes
<1>7. \A s \in I : s \notin stop => next[s] \in I /\ count[next[s]] < count[s]
  <2> SUFFICES ASSUME NEW s \in I, s \notin stop
               PROVE  next[s] \in I /\ count[next[s]] < count[s]
    OBVIOUS
  <2>1. s \in S /\ ~Ends(s) /\ DroppedRight(s, start, at)
    OBVIOUS
  <2>2. DroppedOn(s) \in S /\ DroppedRight(DroppedOn(s), start, at)
        /\ Size(DroppedOn(s).due) < Size(s.due)
    BY <1>0, <2>1, DroppedStep
  <2> HIDE DEF S, Ends
  <2>3. QED
    BY <2>1, <2>2
<1>8. start \in I
    OBVIOUS
<1>9. f[start] \in I /\ f[start] \in stop
  <2>1. I \in SUBSET S
    OBVIOUS
  <2>2. f = [s \in S |-> IF s \in stop THEN s ELSE f[next[s]]]
    BY <1>5
  <2> HIDE DEF stop, next, count, S, I
  <2>3. QED
    BY <1>6, <1>7, <1>8, <2>1, <2>2, LoopEnds
<1>10. QED
    BY <1>5, <1>9

-----------------------------------------------------------------------------
(* qwen: the heaps in every behaviour *)

\* The types, whatever the heaps hold.
QwenTyped ==
    /\ qwenStatus \in [Ids -> QwenStatuses]
    /\ qwenTask \in [Ids -> QwenKeys]
    /\ \A i \in Ids : IF qwenStatus[i] = "NONE" THEN qwenTask[i] = Qwen!Unset
                      ELSE qwenTask[i] \in Qwen!TaskKeys
    /\ QwenNumbered(qwenSequence, qwenStatus)
    /\ qwenClock \in ClockTimes \cup {0}
    /\ qwenDangling \in SUBSET Ids /\ \A i \in qwenDangling : qwenStatus[i] = "READY"

QwenHeapsSound == QwenParts(qwenDue, qwenFuture, qwenTask, qwenSequence, qwenStatus, qwenClock)

QwenInv == QwenTyped /\ QwenHeapsSound

\* The facts about the state that the steps need.
LEMMA QwenFacts ==
    ASSUME QwenInv
    PROVE  /\ qwenStatus \in [Ids -> QwenStatuses] /\ QwenStatuses = {"NONE", "PENDING", "READY", "OTHER"}
           /\ qwenTask \in [Ids -> QwenKeys] /\ qwenSequence \in [Ids -> Nat]
           /\ \A i \in Ids : IF qwenStatus[i] = "NONE" THEN qwenTask[i] = Qwen!Unset
                             ELSE qwenTask[i] \in Qwen!TaskKeys
           /\ QwenNumbered(qwenSequence, qwenStatus)
           /\ qwenClock \in ClockTimes \cup {0} /\ qwenClock \in Int
           /\ qwenDangling \in SUBSET Ids /\ \A i \in qwenDangling : qwenStatus[i] = "READY"
           /\ QwenParts(qwenDue, qwenFuture, qwenTask, qwenSequence, qwenStatus, qwenClock)
           /\ Qwen!TaskKeys \in SUBSET QwenKeys /\ Qwen!Unset \in QwenKeys
<1>1. Qwen!TaskKeys \in SUBSET QwenKeys /\ Qwen!Unset \in QwenKeys
  <2>1. \A k \in Qwen!TaskKeys : k \in QwenKeys
    BY SchedulersAssumption DEF Qwen!TaskKeys, QwenKeys
  <2>2. Qwen!Unset \in QwenKeys
    BY DEF Qwen!Unset, QwenKeys
  <2>3. QED
    BY <2>1, <2>2
<1>2. qwenClock \in ClockTimes \cup {0} => qwenClock \in Int
    BY SchedulersAssumption
<1>3. QED
    BY <1>1, <1>2 DEF QwenInv, QwenTyped, QwenHeapsSound, QwenNumbered, QwenStatuses

\* What _findNext finds at the time at: the blocked entries at the root of dueHeap are
\* dropped, the rest is parted by that time, and the root is the first that is not blocked.
QwenFound(s, at) ==
    /\ QwenParts(s.due, s.future, qwenTask, qwenSequence, qwenStatus, at)
    /\ \A k : k \in KeysIn(s.due) \/ k \in KeysIn(s.future) \/ k \in s.dropped
                 <=> k \in KeysIn(qwenDue) \/ k \in KeysIn(qwenFuture)
    /\ \A k \in s.dropped : k \notin KeysIn(s.due) /\ k \notin KeysIn(s.future) /\ k \in qwenDangling
    /\ \A k \in s.dropped : qwenTask[k].executeTime <= at
    /\ \A k \in KeysIn(s.future) : qwenTask[k].executeTime > at
    /\ \A k \in KeysIn(s.due), x \in s.dropped : <<k, x>> \notin QwenDueOrder
    /\ NoneBlocked(s)

\* That is what it finds, at a time that is never before the clock.
LEMMA QwenFinds ==
    ASSUME QwenInv, NEW now \in ClockTimes
    PROVE  /\ Qwen!FindNext(now) \in QwenApart /\ QwenFound(Qwen!FindNext(now), Qwen!Later(now))
           /\ Qwen!Later(now) \in ClockTimes \cup {0} /\ Qwen!Later(now) \in Int
           /\ qwenClock <= Qwen!Later(now)
<1> DEFINE at == Qwen!Later(now)
           start == [due |-> qwenDue, future |-> qwenFuture, dropped |-> {}]
           mid == Qwen!Promoted(start, at)
           s == Qwen!FindNext(now)
<1>t. /\ qwenTask \in [Ids -> QwenKeys] /\ qwenSequence \in [Ids -> Nat]
      /\ qwenClock \in ClockTimes \cup {0} /\ qwenClock \in Int
      /\ QwenParts(qwenDue, qwenFuture, qwenTask, qwenSequence, qwenStatus, qwenClock)
    BY QwenFacts
<1>1. at \in ClockTimes \cup {0} /\ at \in Int /\ qwenClock <= at
    BY <1>t, SchedulersAssumption DEF Qwen!Later
<1>2. s = Qwen!Unblocked(mid)
    BY DEF Qwen!FindNext
<1> HIDE DEF at
<1>3. QwenParts(qwenDue, qwenFuture, qwenTask, qwenSequence, qwenStatus, at)
  <2>1. \A i \in Ids : qwenTask[i].executeTime \in Int
    BY <1>t DEF QwenKeys
  <2>2. QED
    BY <1>t, <1>1, <2>1 DEF QwenParts
<1>4. start \in QwenApart /\ PromotedRight(start, at)
  <2>1. start.due = qwenDue /\ start.future = qwenFuture /\ start.dropped = {}
    OBVIOUS
  <2>2. qwenDue \in Heaps(Ids) /\ qwenFuture \in Heaps(Ids)
        /\ \A i \in Ids : i \notin KeysIn(qwenDue) \/ i \notin KeysIn(qwenFuture)
    BY <1>t DEF QwenParts, SoundHeap, Heaps
  <2>3. start \in QwenApart
    BY <2>2 DEF QwenApart
  <2> HIDE DEF start
  <2>4. QED
    BY <1>3, <2>1, <2>3 DEF PromotedRight
<1> HIDE DEF start
<1>5. mid \in QwenApart /\ PromotedRight(mid, at) /\ NoneDue(mid, at)
    BY <1>t, <1>1, <1>4, PromotedEnds
<1> HIDE DEF mid, s
<1>6. DroppedRight(mid, mid, at)
    BY <1>5 DEF PromotedRight, DroppedRight
<1>7. s \in QwenApart /\ DroppedRight(s, mid, at) /\ NoneBlocked(s)
    BY <1>t, <1>1, <1>2, <1>5, <1>6, DroppedEnds
<1>8. \A k \in KeysIn(mid.future) : qwenTask[k].executeTime > at
  <2>1. SoundHeap(mid.future, Ids, QwenFutureOrder) /\ IsOrder(Ids, QwenFutureOrder)
    BY <1>t, <1>5, QwenOrders DEF PromotedRight, QwenParts, QwenFutureOrder
  <2>2. mid.future \in Arrays(Ids) /\ Coherent(mid.future) /\ DOMAIN mid.future.index = Ids
    BY <2>1, ArraysRight DEF SoundHeap
  <2>3. CASE Size(mid.future) = 0
    BY <2>2, <2>3 DEF Coherent, KeysIn
  <2>4. CASE Size(mid.future) # 0
    <3> DEFINE top == mid.future.items[1]
    <3>1. top \in KeysIn(mid.future) /\ \A k \in KeysIn(mid.future) : <<k, top>> \notin QwenFutureOrder
      BY <2>1, <2>4, RootFirst
    <3>2. qwenTask[top].executeTime > at
      BY <1>5, <2>4 DEF NoneDue
    <3> HIDE DEF top
    <3>3. top \in Ids /\ \A k \in KeysIn(mid.future) : k \in Ids
      BY <2>2, <3>1 DEF KeysIn
    <3>4. \A k \in KeysIn(mid.future) : qwenTask[top].executeTime <= qwenTask[k].executeTime
      BY <1>t, <3>1, <3>3, QwenOrders DEF QwenFutureOrder
    <3>5. \A k \in Ids : qwenTask[k].executeTime \in Int
      BY <1>t DEF QwenKeys
    <3>6. QED
      BY <1>1, <3>2, <3>3, <3>4, <3>5
  <2>5. QED
    BY <2>3, <2>4
<1>9. /\ QwenParts(s.due, s.future, qwenTask, qwenSequence, qwenStatus, at)
      /\ s.future = mid.future
      /\ \A k : k \in KeysIn(s.due) \/ k \in s.dropped <=> k \in KeysIn(mid.due)
      /\ \A k \in s.dropped : k \notin KeysIn(s.due) /\ k \in qwenDangling
      /\ \A k \in KeysIn(s.due), x \in s.dropped : <<k, x>> \notin QwenDueOrder
    BY <1>7 DEF DroppedRight
<1>10. /\ \A k : k \in KeysIn(mid.due) \/ k \in KeysIn(mid.future)
                    <=> k \in KeysIn(qwenDue) \/ k \in KeysIn(qwenFuture)
       /\ \A i \in Ids : i \notin KeysIn(mid.due) \/ i \notin KeysIn(mid.future)
       /\ \A i \in Ids : i \in KeysIn(mid.due) => qwenTask[i].executeTime <= at
    BY <1>5 DEF PromotedRight, QwenParts
<1>11. \A k \in s.dropped : k \in Ids
    BY <1>7 DEF QwenApart
<1>12. \A k \in s.dropped : k \notin KeysIn(s.future) /\ qwenTask[k].executeTime <= at
    BY <1>9, <1>10, <1>11
<1>13. \A k \in KeysIn(s.future) : qwenTask[k].executeTime > at
    BY <1>8, <1>9
<1>14. \A k : k \in KeysIn(s.due) \/ k \in KeysIn(s.future) \/ k \in s.dropped
                 <=> k \in KeysIn(qwenDue) \/ k \in KeysIn(qwenFuture)
    BY <1>9, <1>10
<1>15. QwenFound(s, at)
    BY <1>7, <1>9, <1>12, <1>13, <1>14 DEF QwenFound
<1>16. QED
    BY <1>1, <1>7, <1>15 DEF s, at

\* Numbers depend on which tasks there are only.
LEMMA QwenNumberedStill ==
    ASSUME NEW c, NEW st, QwenNumbered(c, st), NEW su, \A i \in Ids : su[i] = "NONE" <=> st[i] = "NONE"
    PROVE  QwenNumbered(c, su)
<1>1. QwenPresent(su) = QwenPresent(st)
    BY DEF QwenPresent
<1>2. QED
    BY <1>1 DEF QwenNumbered

\* id has new keys, number and status; the heaps without it are d and f, and it is in
\* neither then or in the one for its time.
LEMMA QwenOneMoved ==
    ASSUME QwenInv, NEW id \in Ids, NEW su \in [Ids -> QwenStatuses], NEW u \in [Ids -> QwenKeys], NEW e,
           \A i \in Ids \ {id} : su[i] = qwenStatus[i] /\ u[i] = qwenTask[i],
           IF su[id] = "NONE" THEN u[id] = Qwen!Unset ELSE u[id] \in Qwen!TaskKeys,
           QwenNumbered(e, su),
           \A i, j \in Ids \ {id} : qwenSequence[i] < qwenSequence[j] <=> e[i] < e[j],
           NEW d, NEW f, QwenParts(d, f, qwenTask, qwenSequence, qwenStatus, qwenClock),
           QwenOut(d, f, id),
           \/ qwenDue' = d /\ qwenFuture' = f
           \/ su[id] = "READY" /\ Qwen!Insert(id, u, e, d, f),
           qwenStatus' = su, qwenTask' = u, qwenSequence' = e, UNCHANGED qwenClock,
           qwenDangling' \in SUBSET qwenDangling, id \in qwenDangling' => su[id] = "READY"
    PROVE  QwenInv'
<1>t. /\ qwenTask \in [Ids -> QwenKeys] /\ qwenSequence \in [Ids -> Nat]
      /\ \A i \in Ids : IF qwenStatus[i] = "NONE" THEN qwenTask[i] = Qwen!Unset
                        ELSE qwenTask[i] \in Qwen!TaskKeys
      /\ qwenClock \in ClockTimes \cup {0} /\ qwenClock \in Int
      /\ qwenDangling \in SUBSET Ids /\ \A i \in qwenDangling : qwenStatus[i] = "READY"
    BY QwenFacts
<1>1. e \in [Ids -> Nat] /\ Rekeyed(id, qwenTask, qwenSequence, u, e)
    BY DEF QwenNumbered, Rekeyed
<1>2. QwenParts(d, f, u, e, su, qwenClock)
    BY <1>t, <1>1, QwenChanged
<1>3. QwenParts(qwenDue', qwenFuture', u, e, su, qwenClock)
  <2>1. CASE qwenDue' = d /\ qwenFuture' = f
    BY <1>2, <2>1
  <2>2. CASE su[id] = "READY" /\ Qwen!Insert(id, u, e, d, f)
    <3>1. IF u[id].executeTime <= qwenClock
          THEN QwenParts(Qwen!Push(d, id, Qwen!DueOrder(u, e)), f, u, e, su, qwenClock)
          ELSE QwenParts(d, Qwen!Push(f, id, Qwen!FutureOrder(u, e)), u, e, su, qwenClock)
      BY <1>1, <1>2, <2>2, QwenInserted
    <3>2. IF u[id].executeTime <= qwenClock
          THEN qwenDue' = Qwen!Push(d, id, Qwen!DueOrder(u, e)) /\ qwenFuture' = f
          ELSE qwenDue' = d /\ qwenFuture' = Qwen!Push(f, id, Qwen!FutureOrder(u, e))
      BY <2>2 DEF Qwen!Insert
    <3>3. QED
      BY <3>1, <3>2
  <2>3. QED
    BY <2>1, <2>2
<1>4. QwenHeapsSound'
    BY <1>3 DEF QwenHeapsSound
<1>5. \A i \in Ids : IF su[i] = "NONE" THEN u[i] = Qwen!Unset ELSE u[i] \in Qwen!TaskKeys
    BY <1>t
<1>6. qwenDangling' \in SUBSET Ids /\ \A i \in qwenDangling' : su[i] = "READY"
    BY <1>t
<1>7. QwenTyped'
    BY <1>t, <1>5, <1>6 DEF QwenTyped, Qwen!Unset, Qwen!TaskKeys
<1>8. QED
    BY <1>4, <1>7 DEF QwenInv

\* The methods that are about one task.
LEMMA QwenCallsStep ==
    ASSUME QwenInv, NEW id \in Ids,
           \/ \E k \in Qwen!TaskKeys, s \in {"PENDING", "READY"} : Qwen!AddTask(id, k, s)
           \/ Qwen!Promote(id) \/ Qwen!DeleteTask(id)
           \/ \E s \in {"PENDING", "OTHER"} : Qwen!Withdraw(id, s)
           \/ \E k \in Qwen!TaskKeys : Qwen!UpdateTask(id, k)
    PROVE  QwenInv'
<1> DEFINE c == qwenSequence
<1>t. /\ qwenStatus \in [Ids -> QwenStatuses] /\ QwenStatuses = {"NONE", "PENDING", "READY", "OTHER"}
      /\ qwenTask \in [Ids -> QwenKeys] /\ qwenSequence \in [Ids -> Nat]
      /\ \A i \in Ids : IF qwenStatus[i] = "NONE" THEN qwenTask[i] = Qwen!Unset
                        ELSE qwenTask[i] \in Qwen!TaskKeys
      /\ QwenNumbered(qwenSequence, qwenStatus)
      /\ qwenDangling \in SUBSET Ids /\ \A i \in qwenDangling : qwenStatus[i] = "READY"
      /\ QwenParts(qwenDue, qwenFuture, qwenTask, qwenSequence, qwenStatus, qwenClock)
      /\ \A k \in Qwen!TaskKeys : k \in QwenKeys
      /\ Qwen!Unset \in QwenKeys
    BY QwenFacts
<1>1. qwenStatus[id] # "READY" => QwenOut(qwenDue, qwenFuture, id)
    BY <1>t DEF QwenParts, QwenOut
<1> DEFINE dd == Qwen!DueWithout(id)
           ff == Qwen!FutureWithout(id)
<1>2. QwenParts(dd, ff, qwenTask, qwenSequence, qwenStatus, qwenClock) /\ QwenOut(dd, ff, id)
    BY <1>t, QwenRemoved DEF Qwen!DueWithout, Qwen!FutureWithout
<1> HIDE DEF dd, ff
<1>3. ASSUME NEW k \in Qwen!TaskKeys, NEW s \in {"PENDING", "READY"}, Qwen!AddTask(id, k, s)
      PROVE  QwenInv'
  <2> DEFINE su == [qwenStatus EXCEPT ![id] = s]
             u == [qwenTask EXCEPT ![id] = k]
             e == [qwenSequence EXCEPT ![id] = Cardinality(QwenPresent(qwenStatus)) + 1]
  <2>1. /\ qwenStatus[id] = "NONE" /\ qwenStatus' = su /\ qwenTask' = u /\ qwenSequence' = e
        /\ UNCHANGED <<qwenClock, qwenDangling>>
        /\ IF s = "READY" THEN Qwen!Insert(id, u, e, qwenDue, qwenFuture)
           ELSE qwenDue' = qwenDue /\ qwenFuture' = qwenFuture
    BY <1>3, QwenCount DEF Qwen!AddTask, Qwen!Insert
  <2>2. QwenNumbered(e, su) /\ \A i, j \in Ids \ {id} : c[i] < c[j] <=> e[i] < e[j]
    BY <1>t, <2>1, QwenNumberedAfterAdd
  <2>3. su \in [Ids -> QwenStatuses] /\ u \in [Ids -> QwenKeys] /\ su[id] = s /\ u[id] = k
        /\ \A i \in Ids \ {id} : su[i] = qwenStatus[i] /\ u[i] = qwenTask[i]
    BY <1>t
  <2> HIDE DEF su, u, e
  <2>4. IF su[id] = "NONE" THEN u[id] = Qwen!Unset ELSE u[id] \in Qwen!TaskKeys
    BY <2>3
  <2>5. qwenDangling' \in SUBSET qwenDangling /\ (id \in qwenDangling' => su[id] = "READY")
    BY <1>t, <2>1
  <2>6. \/ qwenDue' = qwenDue /\ qwenFuture' = qwenFuture
        \/ su[id] = "READY" /\ Qwen!Insert(id, u, e, qwenDue, qwenFuture)
    BY <2>1, <2>3
  <2>7. QED
    BY <1>t, <1>1, <2>1, <2>2, <2>3, <2>4, <2>5, <2>6, QwenOneMoved
<1>4. CASE Qwen!Promote(id)
  <2> DEFINE su == [qwenStatus EXCEPT ![id] = "READY"]
  <2>1. /\ qwenStatus[id] = "PENDING" /\ qwenStatus' = su
        /\ UNCHANGED <<qwenTask, qwenSequence, qwenClock, qwenDangling>>
        /\ Qwen!Insert(id, qwenTask, qwenSequence, qwenDue, qwenFuture)
    BY <1>4 DEF Qwen!Promote
  <2>2. su \in [Ids -> QwenStatuses] /\ su[id] = "READY" /\ \A i \in Ids \ {id} : su[i] = qwenStatus[i]
    BY <1>t
  <2> HIDE DEF su
  <2>3. QwenNumbered(qwenSequence, su)
    BY <1>t, <2>1, <2>2, QwenNumberedStill
  <2>4. IF su[id] = "NONE" THEN qwenTask[id] = Qwen!Unset ELSE qwenTask[id] \in Qwen!TaskKeys
    BY <1>t, <2>1, <2>2
  <2>5. qwenDangling' \in SUBSET qwenDangling
    BY <2>1
  <2>6. QED
    BY <1>t, <1>1, <2>1, <2>2, <2>3, <2>4, <2>5, QwenOneMoved
<1>5. CASE Qwen!DeleteTask(id)
  <2> DEFINE su == [qwenStatus EXCEPT ![id] = "NONE"]
             u == [qwenTask EXCEPT ![id] = Qwen!Unset]
             e == [i \in Ids |-> IF i = id THEN 0 ELSE IF c[i] > c[id] THEN c[i] - 1 ELSE c[i]]
  <2>1. /\ qwenStatus[id] # "NONE" /\ qwenStatus' = su /\ qwenTask' = u /\ qwenSequence' = e
        /\ qwenDangling' = qwenDangling \ {id} /\ UNCHANGED qwenClock
        /\ qwenDue' = dd /\ qwenFuture' = ff
    BY <1>5 DEF Qwen!DeleteTask, Qwen!Leave, dd, ff
  <2>2. QwenNumbered(e, su) /\ \A i, j \in Ids \ {id} : c[i] < c[j] <=> e[i] < e[j]
    BY <1>t, <2>1, QwenNumberedAfterDelete
  <2>3. su \in [Ids -> QwenStatuses] /\ u \in [Ids -> QwenKeys] /\ su[id] = "NONE" /\ u[id] = Qwen!Unset
        /\ \A i \in Ids \ {id} : su[i] = qwenStatus[i] /\ u[i] = qwenTask[i]
    BY <1>t
  <2> HIDE DEF su, u, e
  <2>4. qwenDangling' \in SUBSET qwenDangling /\ id \notin qwenDangling'
    BY <2>1
  <2>5. QED
    BY <1>2, <2>1, <2>2, <2>3, <2>4, QwenOneMoved
<1>6. ASSUME NEW s \in {"PENDING", "OTHER"}, Qwen!Withdraw(id, s)
      PROVE  QwenInv'
  <2> DEFINE su == [qwenStatus EXCEPT ![id] = s]
  <2>1. /\ qwenStatus[id] \in {"PENDING", "READY"} /\ qwenStatus' = su
        /\ UNCHANGED <<qwenTask, qwenSequence, qwenClock>>
        /\ qwenDangling' = qwenDangling \ {id}
        /\ qwenDue' = dd /\ qwenFuture' = ff
    BY <1>6 DEF Qwen!Withdraw, Qwen!Leave, dd, ff
  <2>2. su \in [Ids -> QwenStatuses] /\ su[id] = s /\ \A i \in Ids \ {id} : su[i] = qwenStatus[i]
    BY <1>t
  <2> HIDE DEF su
  <2>3. QwenNumbered(qwenSequence, su)
    BY <1>t, <2>1, <2>2, QwenNumberedStill
  <2>4. IF su[id] = "NONE" THEN qwenTask[id] = Qwen!Unset ELSE qwenTask[id] \in Qwen!TaskKeys
    BY <1>t, <2>1, <2>2
  <2>5. qwenDangling' \in SUBSET qwenDangling /\ id \notin qwenDangling'
    BY <2>1
  <2>6. QED
    BY <1>t, <1>2, <2>1, <2>2, <2>3, <2>4, <2>5, QwenOneMoved
<1>7. ASSUME NEW k \in Qwen!TaskKeys, Qwen!UpdateTask(id, k)
      PROVE  QwenInv'
  <2> DEFINE u == [qwenTask EXCEPT ![id] = k]
  <2>1. /\ qwenStatus[id] \in {"PENDING", "READY"} /\ qwenTask' = u
        /\ UNCHANGED <<qwenStatus, qwenSequence, qwenClock, qwenDangling>>
        /\ IF qwenStatus[id] = "READY" THEN Qwen!Insert(id, u, qwenSequence, dd, ff)
           ELSE qwenDue' = qwenDue /\ qwenFuture' = qwenFuture
    BY <1>7 DEF Qwen!UpdateTask, Qwen!Reinsert, Qwen!Insert, dd, ff
  <2>2. u \in [Ids -> QwenKeys] /\ u[id] = k /\ \A i \in Ids \ {id} : u[i] = qwenTask[i]
    BY <1>t
  <2> HIDE DEF u
  <2>3. IF qwenStatus[id] = "NONE" THEN u[id] = Qwen!Unset ELSE u[id] \in Qwen!TaskKeys
    BY <2>1, <2>2
  <2>4. qwenDangling' \in SUBSET qwenDangling /\ (id \in qwenDangling' => qwenStatus[id] = "READY")
    BY <1>t, <2>1
  <2>5. CASE qwenStatus[id] = "READY"
    BY <1>t, <1>2, <2>1, <2>2, <2>3, <2>4, <2>5, QwenOneMoved
  <2>6. CASE qwenStatus[id] # "READY"
    BY <1>t, <1>1, <2>1, <2>2, <2>3, <2>4, <2>6, QwenOneMoved
  <2>7. QED
    BY <2>5, <2>6
<1>8. QED
    BY <1>3, <1>4, <1>5, <1>6, <1>7

\* addTasks makes the batch the contents of the heaps.
LEMMA QwenBatchStep ==
    ASSUME QwenInv, NEW ids \in SUBSET Qwen!Missing, NEW batch \in Qwen!SetToSeqs(ids),
           NEW k \in [ids -> Qwen!TaskKeys], Qwen!AddTasks(batch, k)
    PROVE  QwenInv'
<1>t. /\ qwenStatus \in [Ids -> QwenStatuses] /\ QwenStatuses = {"NONE", "PENDING", "READY", "OTHER"}
      /\ qwenTask \in [Ids -> QwenKeys] /\ qwenSequence \in [Ids -> Nat]
      /\ \A i \in Ids : IF qwenStatus[i] = "NONE" THEN qwenTask[i] = Qwen!Unset
                        ELSE qwenTask[i] \in Qwen!TaskKeys
      /\ QwenNumbered(qwenSequence, qwenStatus)
      /\ qwenClock \in ClockTimes \cup {0}
      /\ qwenDangling \in SUBSET Ids /\ \A i \in qwenDangling : qwenStatus[i] = "READY"
      /\ QwenParts(qwenDue, qwenFuture, qwenTask, qwenSequence, qwenStatus, qwenClock)
      /\ \A x \in Qwen!TaskKeys : x \in QwenKeys
    BY QwenFacts
<1>1. ids \in SUBSET Ids /\ \A i \in ids : qwenStatus[i] = "NONE"
    BY DEF Qwen!Missing
<1>2. QwenBatch(ids, batch) /\ Qwen!ToSet(batch) = ids
  <2>1. QwenBatch(ids, batch)
    BY <1>1, QwenBatches
  <2>2. QED
    BY <2>1 DEF QwenBatch
<1> DEFINE t == [i \in Ids |-> IF i \in ids THEN k[i] ELSE qwenTask[i]]
           now == {i \in ids : t[i].executeTime <= qwenClock}
           su == [i \in Ids |-> IF i \in ids THEN "READY" ELSE qwenStatus[i]]
           e == Qwen!Numbered(batch)
           sd == Qwen!Selected(batch, now)
           sf == Qwen!Selected(batch, ids \ now)
           d == Heapify(qwenDue, sd, Qwen!DueOrder(t, e))
           f == Heapify(qwenFuture, sf, Qwen!FutureOrder(t, e))
<1>3. /\ qwenStatus' = su /\ qwenTask' = t /\ qwenSequence' = e
      /\ UNCHANGED <<qwenClock, qwenDangling>>
      /\ qwenDue' = d /\ qwenFuture' = f
    BY <1>2, QwenSame DEF Qwen!AddTasks
<1>4. QwenNumbered(e, su) /\ e \in [Ids -> Nat]
  <2>1. QwenNumbered(e, su)
    BY <1>t, <1>1, <1>2, QwenNumberedAfterBatch
  <2>2. QED
    BY <2>1 DEF QwenNumbered
<1>5. t \in [Ids -> QwenKeys] /\ \A i \in Ids : t[i] = IF i \in ids THEN k[i] ELSE qwenTask[i]
    BY <1>t
<1>6. su \in [Ids -> QwenStatuses] /\ \A i \in Ids : su[i] = IF i \in ids THEN "READY" ELSE qwenStatus[i]
    BY <1>t
<1> HIDE DEF e, su, t, now
<1>7. /\ sd \in Seq(Ids) /\ \A i, j \in DOMAIN sd : sd[i] = sd[j] => i = j
      /\ \A x : x \in {sd[i] : i \in DOMAIN sd} <=> x \in ids /\ x \in now
    BY <1>2, SelectedRight
<1>8. /\ sf \in Seq(Ids) /\ \A i, j \in DOMAIN sf : sf[i] = sf[j] => i = j
      /\ \A x : x \in {sf[i] : i \in DOMAIN sf} <=> x \in ids /\ x \in ids \ now
  <2> DEFINE late == ids \ now
  <2> HIDE DEF late
  <2>1. LET sel == Qwen!Selected(batch, late)
        IN  /\ sel \in Seq(Ids) /\ \A i, j \in DOMAIN sel : sel[i] = sel[j] => i = j
            /\ \A x : x \in {sel[i] : i \in DOMAIN sel} <=> x \in ids /\ x \in late
    BY <1>2, SelectedRight
  <2>2. QED
    BY <2>1 DEF late
<1>9. IsOrder(Ids, Qwen!DueOrder(t, e)) /\ IsOrder(Ids, Qwen!FutureOrder(t, e))
    BY <1>4, <1>5, QwenOrders
<1>10. qwenDue \in Arrays(Ids) /\ qwenFuture \in Arrays(Ids)
    BY <1>t DEF QwenParts, SoundHeap
<1> HIDE DEF sd, sf
<1>11. SoundHeap(d, Ids, Qwen!DueOrder(t, e)) /\ KeysIn(d) = {sd[i] : i \in DOMAIN sd}
    BY <1>7, <1>9, <1>10, HeapifiedRight
<1>12. SoundHeap(f, Ids, Qwen!FutureOrder(t, e)) /\ KeysIn(f) = {sf[i] : i \in DOMAIN sf}
    BY <1>8, <1>9, <1>10, HeapifiedRight
<1> HIDE DEF d, f
<1>13. /\ \A i : i \in KeysIn(d) <=> i \in ids /\ i \in now
       /\ \A i : i \in KeysIn(f) <=> i \in ids /\ i \in ids \ now
    BY <1>7, <1>8, <1>11, <1>12
<1>14. QwenParts(d, f, t, e, su, qwenClock)
    BY <1>6, <1>11, <1>12, <1>13 DEF QwenParts, now
<1>15. QwenHeapsSound'
    BY <1>3, <1>14 DEF QwenHeapsSound
<1>16. \A i \in Ids : IF su[i] = "NONE" THEN t[i] = Qwen!Unset ELSE t[i] \in Qwen!TaskKeys
    BY <1>t, <1>5, <1>6
<1>17. \A i \in qwenDangling : su[i] = "READY"
    BY <1>t, <1>6
<1>18. QwenTyped'
    BY <1>t, <1>3, <1>4, <1>5, <1>6, <1>16, <1>17 DEF QwenTyped, Qwen!Unset, Qwen!TaskKeys
<1>19. QED
    BY <1>15, <1>18 DEF QwenInv

\* Dependencies come and go without the heaps.
LEMMA QwenDependencyStep ==
    ASSUME QwenInv, NEW id \in Ids, Qwen!DependencyGone(id) \/ Qwen!DependencyBack(id)
    PROVE  QwenInv'
<1>t. /\ qwenDangling \in SUBSET Ids /\ \A i \in qwenDangling : qwenStatus[i] = "READY"
    BY QwenFacts
<1>1. /\ UNCHANGED <<qwenStatus, qwenTask, qwenSequence, qwenDue, qwenFuture, qwenClock>>
      /\ \/ qwenDangling' = qwenDangling \ {id}
         \/ qwenDangling' = qwenDangling \cup {id} /\ qwenStatus[id] = "READY"
    BY DEF Qwen!DependencyGone, Qwen!DependencyBack
<1>2. qwenDangling' \in SUBSET Ids /\ \A i \in qwenDangling' : qwenStatus[i] = "READY"
    BY <1>t, <1>1
<1>3. QED
    BY <1>1, <1>2 DEF QwenInv, QwenTyped, QwenHeapsSound, Qwen!Unset, Qwen!TaskKeys

\* With no tasks and empty heaps all is right.
LEMMA QwenEmpty ==
    ASSUME NEW now, now \in ClockTimes \cup {0}
    PROVE  LET st == [i \in Ids |-> "NONE"]
               t  == [i \in Ids |-> Qwen!Unset]
               c  == [i \in Ids |-> 0]
           IN  /\ st \in [Ids -> QwenStatuses] /\ t \in [Ids -> QwenKeys] /\ QwenNumbered(c, st)
               /\ QwenParts(Empty(Ids), Empty(Ids), t, c, st, now)
<1> DEFINE st == [i \in Ids |-> "NONE"]
           t  == [i \in Ids |-> Qwen!Unset]
           c  == [i \in Ids |-> 0]
           none == Empty(Ids)
<1>1. st \in [Ids -> QwenStatuses] /\ t \in [Ids -> QwenKeys] /\ c \in [Ids -> Nat]
    BY DEF QwenStatuses, QwenKeys, Qwen!Unset
<1>2. QwenNumbered(c, st)
  <2>1. QwenPresent(st) = {}
    BY DEF QwenPresent
  <2>2. Cardinality(QwenPresent(st)) = 0
    BY <2>1, FS_EmptySet
  <2>3. \A i \in Ids : c[i] = 0 /\ st[i] = "NONE"
    OBVIOUS
  <2> HIDE DEF c, st
  <2>4. QED
    BY <1>1, <2>2, <2>3 DEF QwenNumbered
<1>3. none \in Arrays(Ids) /\ Size(none) = 0 /\ Coherent(none) /\ KeysIn(none) = {}
  <2>1. none.items = <<>> /\ none.index = [k \in Ids |-> 0] /\ none \in Arrays(Ids)
    BY DEF Empty, Arrays
  <2> HIDE DEF none
  <2>2. QED
    BY <2>1 DEF Size, Coherent, KeysIn
<1> HIDE DEF none, st, t, c
<1>4. \A before : SoundHeap(none, Ids, before)
    BY <1>3 DEF SoundHeap, Ordered
<1>5. QwenParts(none, none, t, c, st, now)
    BY <1>3, <1>4 DEF QwenParts
<1>6. QED
    BY <1>1, <1>2, <1>5 DEF none, st, t, c

\* clear.
LEMMA QwenClearStep ==
    ASSUME QwenInv, Qwen!Clear
    PROVE  QwenInv'
<1> DEFINE st == [i \in Ids |-> "NONE"]
           t  == [i \in Ids |-> Qwen!Unset]
           c  == [i \in Ids |-> 0]
<1>t. qwenClock \in ClockTimes \cup {0}
    BY QwenFacts
<1>1. /\ qwenStatus' = st /\ qwenTask' = t /\ qwenSequence' = c
      /\ qwenDue' = Empty(Ids) /\ qwenFuture' = Empty(Ids) /\ qwenDangling' = {} /\ qwenClock' = qwenClock
    BY QwenSame DEF Qwen!Clear
<1>2. /\ st \in [Ids -> QwenStatuses] /\ t \in [Ids -> QwenKeys] /\ QwenNumbered(c, st)
      /\ QwenParts(Empty(Ids), Empty(Ids), t, c, st, qwenClock)
    BY <1>t, QwenEmpty
<1>3. \A i \in Ids : st[i] = "NONE" /\ t[i] = Qwen!Unset
    OBVIOUS
<1> HIDE DEF st, t, c
<1>4. QwenTyped'
    BY <1>t, <1>1, <1>2, <1>3 DEF QwenTyped, Qwen!Unset, Qwen!TaskKeys
<1>5. QwenHeapsSound'
    BY <1>1, <1>2 DEF QwenHeapsSound
<1>6. QED
    BY <1>4, <1>5 DEF QwenInv

\* What a search leaves: the dropped entries are PENDING, and g is what is left of dueHeap,
\* all of it or all but its root, the task claimed.
QwenLeft(s, g, su) ==
    \/ g = s.due /\ su = [i \in Ids |-> IF i \in s.dropped THEN "PENDING" ELSE qwenStatus[i]]
    \/ /\ Size(s.due) # 0 /\ s.due.items[1] \in KeysIn(s.due) /\ s.due.items[1] \in Ids
       /\ SoundHeap(g, Ids, QwenDueOrder) /\ KeysIn(g) = KeysIn(s.due) \ {s.due.items[1]}
       /\ su = [i \in Ids |-> IF i = s.due.items[1] THEN "OTHER"
                              ELSE IF i \in s.dropped THEN "PENDING" ELSE qwenStatus[i]]

\* A claim takes the root, a look nothing.
LEMMA QwenSearched ==
    ASSUME QwenInv, NEW now \in ClockTimes, NEW s, s = Qwen!FindNext(now),
           Qwen!PeekNextExecutable(now) \/ Qwen!ClaimNextExecutable(now)
    PROVE  /\ UNCHANGED <<qwenTask, qwenSequence>> /\ qwenClock' = Qwen!Later(now)
           /\ qwenFuture' = s.future /\ qwenDangling' = qwenDangling \ s.dropped
           /\ QwenLeft(s, qwenDue', qwenStatus')
           /\ Qwen!ClaimNextExecutable(now) /\ Size(s.due) # 0 =>
                 /\ KeysIn(qwenDue') = KeysIn(s.due) \ {s.due.items[1]}
                 /\ qwenStatus'[s.due.items[1]] = "OTHER"
<1>t. qwenTask \in [Ids -> QwenKeys] /\ qwenSequence \in [Ids -> Nat]
    BY QwenFacts
<1>0. s \in QwenApart /\ QwenFound(s, Qwen!Later(now))
    BY QwenFinds
<1> DEFINE re == [i \in Ids |-> IF i \in s.dropped THEN "PENDING" ELSE qwenStatus[i]]
           top == s.due.items[1]
           g == Qwen!RemoveEntry(s.due, top, QwenDueOrder)
<1>1. /\ UNCHANGED <<qwenTask, qwenSequence>> /\ qwenClock' = Qwen!Later(now)
      /\ qwenFuture' = s.future /\ qwenDangling' = qwenDangling \ s.dropped
    BY DEF Qwen!PeekNextExecutable, Qwen!ClaimNextExecutable, Qwen!Search
<1>2. CASE Qwen!PeekNextExecutable(now) /\ ~Qwen!ClaimNextExecutable(now)
  <2>1. qwenDue' = s.due /\ qwenStatus' = re
    BY <1>2 DEF Qwen!PeekNextExecutable, Qwen!Reblocked
  <2> HIDE DEF re, top, g
  <2>2. QED
    BY <1>1, <1>2, <2>1 DEF QwenLeft, re
<1>3. CASE Qwen!ClaimNextExecutable(now)
  <2>1. IF Size(s.due) = 0 THEN qwenDue' = s.due /\ qwenStatus' = re
        ELSE qwenDue' = g /\ qwenStatus' = [re EXCEPT ![top] = "OTHER"]
    BY <1>3, QwenSame DEF Qwen!ClaimNextExecutable, Qwen!Reblocked, Qwen!Peek, QwenDueOrder
  <2>2. CASE Size(s.due) = 0
    <3>1. qwenDue' = s.due /\ qwenStatus' = re
      BY <2>1, <2>2
    <3> HIDE DEF re, top, g
    <3>2. QED
      BY <1>1, <2>2, <3>1 DEF QwenLeft, re
  <2>3. CASE Size(s.due) # 0
    <3>1. SoundHeap(s.due, Ids, QwenDueOrder) /\ IsOrder(Ids, QwenDueOrder)
      BY <1>t, <1>0, QwenOrders DEF QwenFound, QwenParts, QwenDueOrder
    <3>2. top \in KeysIn(s.due)
      BY <2>3, <3>1, RootFirst
    <3>3. top \in Ids
      <4>1. DOMAIN s.due.index = Ids
        BY <3>1, ArraysRight DEF SoundHeap
      <4> HIDE DEF top
      <4>2. QED
        BY <3>2, <4>1 DEF KeysIn
    <3> HIDE DEF top
    <3>4. AgreeBut(Ids, top, QwenDueOrder, QwenDueOrder)
      BY DEF AgreeBut
    <3>5. QwenMovesRight(s.due, QwenDueOrder, QwenDueOrder, top)
      BY <3>1, <3>3, <3>4, QwenMoves
    <3>6. SoundHeap(g, Ids, QwenDueOrder) /\ KeysIn(g) = KeysIn(s.due) \ {top}
      BY <3>5 DEF QwenMovesRight
    <3>7. qwenDue' = g /\ qwenStatus' = [re EXCEPT ![top] = "OTHER"]
      BY <2>1, <2>3
    <3>8. [re EXCEPT ![top] = "OTHER"]
             = [i \in Ids |-> IF i = top THEN "OTHER" ELSE IF i \in s.dropped THEN "PENDING" ELSE qwenStatus[i]]
      OBVIOUS
    <3>9. [re EXCEPT ![top] = "OTHER"][top] = "OTHER"
      BY <3>3
    <3> HIDE DEF g, re
    <3>10. QwenLeft(s, qwenDue', qwenStatus')
      BY <2>3, <3>2, <3>3, <3>6, <3>7, <3>8 DEF QwenLeft, top
    <3>11. QED
      BY <1>1, <3>6, <3>7, <3>9, <3>10 DEF top
  <2>4. QED
    BY <2>2, <2>3
<1>4. QED
    BY <1>2, <1>3

\* A search keeps the heaps parted, by its own time.
LEMMA QwenSearchStep ==
    ASSUME QwenInv, NEW now \in ClockTimes,
           Qwen!PeekNextExecutable(now) \/ Qwen!ClaimNextExecutable(now)
    PROVE  QwenInv'
<1> DEFINE s == Qwen!FindNext(now)
           at == Qwen!Later(now)
<1>t. /\ qwenStatus \in [Ids -> QwenStatuses] /\ QwenStatuses = {"NONE", "PENDING", "READY", "OTHER"}
      /\ qwenTask \in [Ids -> QwenKeys]
      /\ \A i \in Ids : IF qwenStatus[i] = "NONE" THEN qwenTask[i] = Qwen!Unset
                        ELSE qwenTask[i] \in Qwen!TaskKeys
      /\ QwenNumbered(qwenSequence, qwenStatus)
      /\ qwenDangling \in SUBSET Ids /\ \A i \in qwenDangling : qwenStatus[i] = "READY"
    BY QwenFacts
<1>1. s \in QwenApart /\ QwenFound(s, at) /\ at \in ClockTimes \cup {0}
    BY QwenFinds
<1>2. /\ UNCHANGED <<qwenTask, qwenSequence>> /\ qwenClock' = at
      /\ qwenFuture' = s.future /\ qwenDangling' = qwenDangling \ s.dropped
      /\ QwenLeft(s, qwenDue', qwenStatus')
    BY QwenSearched
<1> HIDE DEF s, at
<1>3. PICK g, su : qwenDue' = g /\ qwenStatus' = su /\ QwenLeft(s, g, su)
    BY <1>2
<1>4. /\ SoundHeap(s.due, Ids, QwenDueOrder) /\ SoundHeap(s.future, Ids, QwenFutureOrder)
      /\ \A i \in Ids : i \notin KeysIn(s.due) \/ i \notin KeysIn(s.future)
      /\ \A i \in Ids : i \in KeysIn(s.due) \/ i \in KeysIn(s.future) => qwenStatus[i] = "READY"
      /\ \A i \in Ids : i \in KeysIn(s.due) => qwenTask[i].executeTime <= at
      /\ \A k \in s.dropped : k \notin KeysIn(s.due) /\ k \notin KeysIn(s.future) /\ k \in qwenDangling
      /\ NoneBlocked(s)
    BY <1>1 DEF QwenFound, QwenParts, QwenDueOrder, QwenFutureOrder
<1> DEFINE top == s.due.items[1]
           took == Size(s.due) # 0 /\ top \in KeysIn(s.due) /\ top \in Ids /\ top \notin qwenDangling
                   /\ KeysIn(g) = KeysIn(s.due) \ {top}
<1>5. /\ SoundHeap(g, Ids, QwenDueOrder)
      /\ \/ KeysIn(g) = KeysIn(s.due)
            /\ \A i \in Ids : su[i] = IF i \in s.dropped THEN "PENDING" ELSE qwenStatus[i]
         \/ took /\ \A i \in Ids : su[i] = IF i = top THEN "OTHER"
                                           ELSE IF i \in s.dropped THEN "PENDING" ELSE qwenStatus[i]
      /\ su = [i \in Ids |-> su[i]]
    BY <1>3, <1>4 DEF QwenLeft, NoneBlocked
<1> HIDE DEF top
<1>6. su \in [Ids -> QwenStatuses]
  <2>1. \A i \in Ids : su[i] \in QwenStatuses
    BY <1>t, <1>5
  <2>2. QED
    BY <1>5, <2>1
<1>7. \A i \in Ids : su[i] = "NONE" <=> qwenStatus[i] = "NONE"
    BY <1>t, <1>4, <1>5
<1>8. QwenNumbered(qwenSequence, su)
    BY <1>t, <1>7, QwenNumberedStill
<1>9. \A i \in qwenDangling \ s.dropped : su[i] = "READY"
    BY <1>t, <1>5
<1>10. QwenTyped'
  <2>1. \A i \in Ids : IF su[i] = "NONE" THEN qwenTask[i] = Qwen!Unset ELSE qwenTask[i] \in Qwen!TaskKeys
    BY <1>t, <1>7
  <2>2. qwenStatus' = su /\ qwenDangling' = qwenDangling \ s.dropped
    BY <1>2, <1>3
  <2>3. QED
    BY <1>t, <1>1, <1>2, <1>6, <1>8, <1>9, <2>1, <2>2 DEF QwenTyped, Qwen!Unset, Qwen!TaskKeys
<1>11. QwenParts(g, s.future, qwenTask, qwenSequence, su, at)
  <2>1. \A i \in Ids : i \in KeysIn(g) => i \in KeysIn(s.due)
    BY <1>5
  <2>2. \A i \in Ids : i \in KeysIn(g) \/ i \in KeysIn(s.future) => su[i] = "READY"
    BY <1>4, <1>5
  <2>3. QED
    BY <1>4, <1>5, <2>1, <2>2 DEF QwenParts, QwenDueOrder, QwenFutureOrder
<1>12. QwenHeapsSound'
    BY <1>2, <1>3, <1>11 DEF QwenHeapsSound
<1>13. QED
    BY <1>10, <1>12 DEF QwenInv

\* qwen: what the heaps hold, and their order, in every behaviour.
THEOREM QwenSound == Spec => [](program = "qwen" => QwenInv)
<1> DEFINE Inv == program = "qwen" => QwenInv
<1>1. Init => Inv
  <2>1. SUFFICES ASSUME Qwen!Init PROVE QwenInv
    BY DEF Init
  <2> DEFINE st == [i \in Ids |-> "NONE"]
             t  == [i \in Ids |-> Qwen!Unset]
             c  == [i \in Ids |-> 0]
  <2>2. /\ qwenStatus = st /\ qwenTask = t /\ qwenSequence = c
        /\ qwenDue = Empty(Ids) /\ qwenFuture = Empty(Ids) /\ qwenDangling = {} /\ qwenClock = 0
    BY <2>1, QwenSame DEF Qwen!Init, Qwen!InitialClock
  <2>3. /\ st \in [Ids -> QwenStatuses] /\ t \in [Ids -> QwenKeys] /\ QwenNumbered(c, st)
        /\ QwenParts(Empty(Ids), Empty(Ids), t, c, st, 0)
    BY QwenEmpty
  <2>4. \A i \in Ids : st[i] = "NONE" /\ t[i] = Qwen!Unset
    OBVIOUS
  <2> HIDE DEF st, t, c
  <2>5. QED
    BY <2>2, <2>3, <2>4 DEF QwenInv, QwenTyped, QwenHeapsSound
<1>2. Inv /\ [Next]_vars => Inv'
  <2>1. SUFFICES ASSUME Inv, [Next]_vars, program' = "qwen" PROVE QwenInv'
    OBVIOUS
  <2>2. program = "qwen" /\ QwenInv /\ (Qwen!Next \/ UNCHANGED qwenVars)
    BY <2>1 DEF Next, vars
  <2>3. CASE Qwen!Next
    <3>1. \/ \E id \in Ids :
                \/ \E k \in Qwen!TaskKeys, s \in {"PENDING", "READY"} : Qwen!AddTask(id, k, s)
                \/ Qwen!Promote(id) \/ Qwen!DeleteTask(id)
                \/ \E s \in {"PENDING", "OTHER"} : Qwen!Withdraw(id, s)
                \/ \E k \in Qwen!TaskKeys : Qwen!UpdateTask(id, k)
          \/ \E ids \in SUBSET Qwen!Missing : \E batch \in Qwen!SetToSeqs(ids), k \in [ids -> Qwen!TaskKeys] :
                Qwen!AddTasks(batch, k)
          \/ \E id \in Ids : Qwen!DependencyGone(id) \/ Qwen!DependencyBack(id)
          \/ \E now \in ClockTimes : Qwen!PeekNextExecutable(now) \/ Qwen!ClaimNextExecutable(now)
          \/ Qwen!Clear
      BY <2>3 DEF Qwen!Next
    <3>2. QED
      BY <2>2, <3>1, QwenCallsStep, QwenBatchStep, QwenDependencyStep, QwenSearchStep, QwenClearStep
  <2>4. CASE UNCHANGED qwenVars
    BY <2>2, <2>4 DEF qwenVars, QwenInv, QwenTyped, QwenHeapsSound, Qwen!Unset, Qwen!TaskKeys
  <2>5. QED
    BY <2>2, <2>3, <2>4
<1>3. QED
    BY <1>1, <1>2, PTL DEF Spec

\* The entries of a heap are its keys, and none when it is empty.
LEMMA QwenEntries ==
    ASSUME NEW h \in Heaps(Ids)
    PROVE  /\ Qwen!Entries(h) = KeysIn(h) /\ KeysIn(h) \in SUBSET Ids
           /\ Size(h) = 0 => KeysIn(h) = {}
<1>1. h \in Arrays(Ids) /\ Coherent(h) /\ DOMAIN h.index = Ids /\ DOMAIN h.items = 1..Size(h)
      /\ Size(h) \in Nat /\ \A n \in 1..Size(h) : h.items[n] \in Ids
    BY ArraysRight DEF Heaps
<1>2. \A n \in 1..Size(h) : h.items[n] \in KeysIn(h)
    BY <1>1 DEF Coherent, KeysIn
<1>3. \A k \in KeysIn(h) : h.index[k] \in 1..Size(h) /\ h.items[h.index[k]] = k
    BY <1>1 DEF Coherent, KeysIn
<1>4. Qwen!Entries(h) = KeysIn(h)
    BY <1>1, <1>2, <1>3 DEF Qwen!Entries
<1>5. KeysIn(h) \in SUBSET Ids
    BY <1>1 DEF KeysIn
<1>6. Size(h) = 0 => KeysIn(h) = {}
    BY <1>3
<1>7. QED
    BY <1>4, <1>5, <1>6

\* The heaps part the queued tasks and none is overslept.
LEMMA QwenTimes ==
    ASSUME QwenInv
    PROVE  Qwen!HeapsPart /\ Qwen!WakesInTime
<1>t. /\ qwenTask \in [Ids -> QwenKeys] /\ qwenSequence \in [Ids -> Nat]
      /\ QwenParts(qwenDue, qwenFuture, qwenTask, qwenSequence, qwenStatus, qwenClock)
    BY QwenFacts
<1>1. /\ qwenDue \in Heaps(Ids) /\ qwenFuture \in Heaps(Ids)
      /\ SoundHeap(qwenFuture, Ids, QwenFutureOrder)
      /\ \A i \in Ids : i \notin KeysIn(qwenDue) \/ i \notin KeysIn(qwenFuture)
      /\ \A i \in Ids : i \in KeysIn(qwenDue) \/ i \in KeysIn(qwenFuture) => qwenStatus[i] = "READY"
      /\ \A i \in Ids : i \in KeysIn(qwenDue) => qwenTask[i].executeTime <= qwenClock
    BY <1>t DEF QwenParts, SoundHeap, Heaps, QwenFutureOrder
<1>2. /\ Qwen!Entries(qwenDue) = KeysIn(qwenDue) /\ KeysIn(qwenDue) \in SUBSET Ids
      /\ Size(qwenDue) = 0 => KeysIn(qwenDue) = {}
    BY <1>1, QwenEntries
<1>3. /\ Qwen!Entries(qwenFuture) = KeysIn(qwenFuture) /\ KeysIn(qwenFuture) \in SUBSET Ids
      /\ Size(qwenFuture) = 0 => KeysIn(qwenFuture) = {}
    BY <1>1, QwenEntries
<1>4. Qwen!HeapsPart
    BY <1>1, <1>2, <1>3 DEF Qwen!HeapsPart
<1>5. ASSUME NEW i \in KeysIn(qwenDue) \cup KeysIn(qwenFuture)
      PROVE  /\ Qwen!NextWakeTime # <<>>
             /\ Qwen!NextWakeTime[1] <= qwenTask[i].executeTime \/ Qwen!NextWakeTime[1] = qwenClock
  <2>1. CASE Size(qwenDue) # 0
    <3>1. Qwen!NextWakeTime = <<qwenClock>>
      BY <2>1, QwenSame DEF Qwen!NextWakeTime
    <3>2. QED
      BY <3>1
  <2>2. CASE Size(qwenDue) = 0
    <3> DEFINE top == qwenFuture.items[1]
    <3>1. i \in KeysIn(qwenFuture) /\ Size(qwenFuture) # 0
      BY <1>2, <1>3, <1>5, <2>2
    <3>2. Qwen!NextWakeTime = <<qwenTask[top].executeTime>>
      BY <2>2, <3>1, QwenSame DEF Qwen!NextWakeTime, Qwen!Peek
    <3>3. IsOrder(Ids, QwenFutureOrder)
      BY <1>t, QwenOrders DEF QwenFutureOrder
    <3>4. top \in KeysIn(qwenFuture) /\ <<i, top>> \notin QwenFutureOrder
      BY <1>1, <3>1, <3>3, RootFirst
    <3> HIDE DEF top
    <3>5. qwenTask[top].executeTime <= qwenTask[i].executeTime
      BY <1>t, <1>3, <3>1, <3>4, QwenOrders DEF QwenFutureOrder
    <3>6. QED
      BY <3>2, <3>5
  <2>3. QED
    BY <2>1, <2>2
<1>6. Qwen!WakesInTime
    BY <1>2, <1>3, <1>5 DEF Qwen!WakesInTime, Qwen!Queued
<1>7. QED
    BY <1>4, <1>6

\* qwen: the clock parts the two heaps, and a host that wakes at nextWakeTime oversleeps
\* nothing that is queued.
THEOREM QwenKeepsTime == Spec => []QwenHeapsKeepTime
<1>1. (program = "qwen" => QwenInv) => QwenHeapsKeepTime
    BY QwenTimes DEF QwenHeapsKeepTime
<1>2. QED
    BY <1>1, QwenSound, PTL

\* claimNextExecutable takes the first due task that is not blocked, and drops the blocked
\* ones before it only.
LEMMA QwenFirstDue ==
    ASSUME QwenInv
    PROVE  Qwen!FirstDueIsClaimed
<1> SUFFICES ASSUME NEW now \in ClockTimes, Qwen!ClaimNextExecutable(now)
             PROVE  LET able  == {i \in Qwen!Queued \ qwenDangling : qwenTask[i].executeTime <= Qwen!Later(now)}
                        above(i) == {j \in Qwen!Queued \cap qwenDangling :
                                        qwenTask[j].executeTime <= Qwen!Later(now) /\ <<j, i>> \in QwenDueOrder}
                    IN  able # {} => \E i \in able :
                            /\ \A j \in able \ {i} : <<i, j>> \in QwenDueOrder
                            /\ qwenStatus'[i] = "OTHER"
                            /\ Qwen!Queued' = Qwen!Queued \ ({i} \cup above(i))
    BY DEF Qwen!FirstDueIsClaimed, QwenDueOrder
<1> DEFINE s == Qwen!FindNext(now)
           at == Qwen!Later(now)
           order == QwenDueOrder
<1>t. /\ qwenTask \in [Ids -> QwenKeys] /\ qwenSequence \in [Ids -> Nat]
      /\ QwenNumbered(qwenSequence, qwenStatus)
      /\ QwenParts(qwenDue, qwenFuture, qwenTask, qwenSequence, qwenStatus, qwenClock)
    BY QwenFacts
<1>1. s \in QwenApart /\ QwenFound(s, at) /\ at \in Int
    BY QwenFinds
<1>2. /\ qwenFuture' = s.future
      /\ Size(s.due) # 0 => /\ KeysIn(qwenDue') = KeysIn(s.due) \ {s.due.items[1]}
                            /\ qwenStatus'[s.due.items[1]] = "OTHER"
    BY QwenSearched
<1>3. QwenInv'
    BY QwenSearchStep
<1> HIDE DEF s, at
<1> DEFINE queued == KeysIn(qwenDue) \cup KeysIn(qwenFuture)
           able == {i \in queued \ qwenDangling : qwenTask[i].executeTime <= at}
           above(i) == {j \in queued \cap qwenDangling : qwenTask[j].executeTime <= at /\ <<j, i>> \in order}
           top == s.due.items[1]
<1>4. /\ s.due \in Heaps(Ids) /\ SoundHeap(s.due, Ids, order)
      /\ \A i \in Ids : i \in KeysIn(s.due) => qwenTask[i].executeTime <= at
      /\ \A k : k \in KeysIn(s.due) \/ k \in KeysIn(s.future) \/ k \in s.dropped <=> k \in queued
      /\ \A k \in s.dropped : k \notin KeysIn(s.due) /\ k \notin KeysIn(s.future) /\ k \in qwenDangling
      /\ \A k \in s.dropped : qwenTask[k].executeTime <= at
      /\ \A k \in KeysIn(s.future) : qwenTask[k].executeTime > at
      /\ \A k \in KeysIn(s.due), x \in s.dropped : <<k, x>> \notin order
      /\ Size(s.due) = 0 \/ top \notin qwenDangling
    BY <1>1 DEF QwenFound, QwenParts, QwenDueOrder, SoundHeap, Heaps, NoneBlocked
<1>5. /\ qwenDue \in Heaps(Ids) /\ qwenFuture \in Heaps(Ids)
      /\ qwenDue' \in Heaps(Ids) /\ qwenFuture' \in Heaps(Ids)
      /\ \A i \in queued : qwenStatus[i] = "READY"
  <2>1. qwenDue \in Heaps(Ids) /\ qwenFuture \in Heaps(Ids)
    BY <1>t DEF QwenParts, SoundHeap, Heaps
  <2>2. qwenDue' \in Heaps(Ids) /\ qwenFuture' \in Heaps(Ids)
    BY <1>3 DEF QwenInv, QwenHeapsSound, QwenParts, SoundHeap, Heaps
  <2>3. queued \in SUBSET Ids
    BY <2>1, QwenEntries
  <2>4. QED
    BY <1>t, <2>1, <2>2, <2>3 DEF QwenParts
<1>6. /\ Qwen!Entries(qwenDue) = KeysIn(qwenDue) /\ Qwen!Entries(qwenFuture) = KeysIn(qwenFuture)
      /\ Qwen!Entries(qwenDue') = KeysIn(qwenDue') /\ Qwen!Entries(qwenFuture') = KeysIn(qwenFuture')
      /\ queued \in SUBSET Ids /\ KeysIn(s.due) \in SUBSET Ids
      /\ Size(s.due) = 0 => KeysIn(s.due) = {}
    BY <1>4, <1>5, QwenEntries
<1>7. Qwen!Queued = queued /\ Qwen!Queued' = KeysIn(qwenDue') \cup KeysIn(qwenFuture')
    BY <1>6 DEF Qwen!Queued
<1> HIDE DEF queued, top, order
<1>8. \A k \in queued : qwenTask[k].executeTime \in Int
    BY <1>t, <1>6 DEF QwenKeys
<1>9. ASSUME NEW x \in able
      PROVE  /\ top \in able /\ Size(s.due) # 0 /\ top \in KeysIn(s.due)
             /\ \A k \in KeysIn(s.due) : <<k, top>> \notin order
  <2>1. x \in queued /\ x \notin qwenDangling /\ qwenTask[x].executeTime <= at
    OBVIOUS
  <2>2. x \in KeysIn(s.due)
    BY <1>1, <1>4, <1>8, <2>1
  <2>3. Size(s.due) # 0
    BY <1>6, <2>2
  <2>4. IsOrder(Ids, order)
    BY <1>t, QwenOrders DEF order, QwenDueOrder
  <2>5. top \in KeysIn(s.due) /\ \A k \in KeysIn(s.due) : <<k, top>> \notin order
    BY <1>4, <2>3, <2>4, RootFirst DEF top
  <2>6. top \in queued /\ top \notin qwenDangling /\ qwenTask[top].executeTime <= at
    BY <1>4, <1>6, <2>3, <2>5
  <2>7. QED
    BY <2>3, <2>5, <2>6
<1>10. \A a, b \in queued : a # b => <<a, b>> \in order \/ <<b, a>> \in order
  <2>1. \A a \in queued : a \in Ids /\ qwenSequence[a] # 0
    BY <1>5, <1>6, <1>t DEF QwenNumbered
  <2>2. \A a, b \in queued : a # b => qwenSequence[a] # qwenSequence[b]
    BY <1>t, <2>1 DEF QwenNumbered
  <2>3. QED
    BY <1>t, <2>1, <2>2, QwenOrders DEF order, QwenDueOrder
<1>11. ASSUME NEW x \in able
       PROVE  /\ top \in able
              /\ \A j \in able \ {top} : <<top, j>> \in order
              /\ qwenStatus'[top] = "OTHER"
              /\ KeysIn(qwenDue') \cup KeysIn(qwenFuture') = queued \ ({top} \cup above(top))
  <2>1. /\ top \in able /\ Size(s.due) # 0 /\ top \in KeysIn(s.due)
        /\ \A k \in KeysIn(s.due) : <<k, top>> \notin order
    BY <1>9
  <2>2. top \in queued /\ top \notin qwenDangling
    BY <2>1
  <2>3. ASSUME NEW j \in able \ {top}
        PROVE  <<top, j>> \in order
    <3>1. j \in queued /\ j \notin qwenDangling /\ qwenTask[j].executeTime <= at /\ j # top
      OBVIOUS
    <3>2. j \in KeysIn(s.due)
      BY <1>1, <1>4, <1>8, <3>1
    <3>3. QED
      BY <1>10, <2>1, <2>2, <3>1, <3>2
  <2>4. /\ KeysIn(qwenDue') = KeysIn(s.due) \ {top} /\ qwenStatus'[top] = "OTHER"
        /\ KeysIn(qwenFuture') = KeysIn(s.future)
    BY <1>2, <2>1 DEF top
  <2>5. ASSUME NEW j
        PROVE  j \in above(top) <=> j \in s.dropped
    <3>1. ASSUME j \in above(top)
          PROVE  j \in s.dropped
      <4>1. j \in queued /\ qwenTask[j].executeTime <= at /\ <<j, top>> \in order
        BY <3>1
      <4>2. QED
        BY <1>1, <1>4, <1>8, <2>1, <4>1
    <3>2. ASSUME j \in s.dropped
          PROVE  j \in above(top)
      <4>1. j \in queued /\ j \in qwenDangling /\ qwenTask[j].executeTime <= at /\ <<top, j>> \notin order
        BY <1>4, <2>1, <3>2
      <4>2. <<j, top>> \in order
        BY <1>10, <2>2, <4>1
      <4>3. QED
        BY <4>1, <4>2
    <3>3. QED
      BY <3>1, <3>2
  <2>6. KeysIn(qwenDue') \cup KeysIn(qwenFuture') = queued \ ({top} \cup above(top))
    <3> HIDE DEF above
    <3>1. top \notin KeysIn(s.future)
      BY <1>1, <1>4, <1>8, <2>1
    <3>2. ASSUME NEW k
          PROVE  k \in KeysIn(qwenDue') \cup KeysIn(qwenFuture')
                    <=> k \in queued \ ({top} \cup above(top))
      BY <1>4, <2>4, <2>5, <3>1
    <3>3. QED
      BY <3>2
  <2>7. QED
    BY <2>1, <2>3, <2>4, <2>6
<1>12. QED
    BY <1>7, <1>11 DEF order, at

\* qwen: claimNextExecutable takes the first task that is due and not blocked.
THEOREM QwenClaimsFirstDue == Spec => QwenChoosesFirstDue
<1>1. (program = "qwen" => QwenInv) => (program = "qwen" => Qwen!FirstDueIsClaimed)
    BY QwenFirstDue
<1>2. QED
    BY <1>1, QwenSound, PTL DEF QwenChoosesFirstDue
-----------------------------------------------------------------------------
(* The types *)

\* bigbang: the completions that onTaskComplete interrupted are of tasks.
LEMMA BigbangInterruptedStep ==
    ASSUME BigbangTyped, bigbangInterrupted \in SUBSET Ids, Bigbang!Next
    PROVE  bigbangInterrupted' \in SUBSET Ids
<1>1. CASE Bigbang!HookThrows
  <2>1. bigbangFrames # <<>>
    BY <1>1 DEF Bigbang!HookThrows
  <2>2. Bigbang!Top.found \in Ids
    BY <2>1, BigbangTop
  <2>3. bigbangInterrupted' = bigbangInterrupted
        \/ bigbangInterrupted' = bigbangInterrupted \cup {Bigbang!Top.found}
    BY <1>1 DEF Bigbang!HookThrows
  <2>4. QED
    BY <2>2, <2>3
<1>2. CASE \E id \in Ids : Bigbang!DeleteTask(id)
    BY <1>2 DEF Bigbang!DeleteTask
<1>3. CASE Bigbang!Clear
    BY <1>3 DEF Bigbang!Clear
<1>4. CASE \/ \E id \in Ids, D \in SUBSET Ids : Bigbang!AddTask(id, D) \/ Bigbang!UpdateDeps(id, D)
           \/ \E id \in Ids : \/ Bigbang!UpdateFields(id) \/ Bigbang!CompleteTask(id)
                              \/ Bigbang!FailTask(id) \/ Bigbang!ExecuteNextTask(id)
           \/ Bigbang!OnTaskExecuteReturns
           \/ Bigbang!OnTaskCompleteReturns
  <2>1. bigbangInterrupted' = bigbangInterrupted
    BY <1>4 DEF Bigbang!AddTask, Bigbang!UpdateDeps, Bigbang!UpdateFields, Bigbang!CompleteTask,
                Bigbang!FailTask, Bigbang!ExecuteNextTask, Bigbang!OnTaskExecuteReturns, Bigbang!OnTaskCompleteReturns
  <2>2. QED
    BY <2>1
<1>5. QED
    BY <1>1, <1>2, <1>3, <1>4 DEF Bigbang!Next

\* bigbang's types, through nested executions.
THEOREM BigbangTypes == Spec => [](program = "bigbang" => Bigbang!TypeOK)
<1> DEFINE Inv == program = "bigbang" => BigbangTyped /\ bigbangInterrupted \in SUBSET Ids
<1>1. Init => Inv
    BY DEF Init, Bigbang!Init, BigbangTyped, BigbangStatuses
<1>2. Inv /\ [Next]_vars => Inv'
  <2>1. SUFFICES ASSUME Inv, [Next]_vars, program' = "bigbang"
                 PROVE  BigbangTyped' /\ bigbangInterrupted' \in SUBSET Ids
    OBVIOUS
  <2>2. program = "bigbang" /\ (Bigbang!Next \/ UNCHANGED bigbangVars)
    BY <2>1 DEF Next, vars
  <2>3. CASE Bigbang!Next
    BY <2>1, <2>2, <2>3, BigbangTypeStep, BigbangInterruptedStep
  <2>4. CASE UNCHANGED bigbangVars
    BY <2>1, <2>2, <2>4 DEF bigbangVars, BigbangTyped
  <2>5. QED
    BY <2>2, <2>3, <2>4
<1>3. Inv => (program = "bigbang" => Bigbang!TypeOK)
    BY DEF BigbangTyped, BigbangStatuses, Bigbang!TypeOK
<1>4. QED
    BY <1>1, <1>2, <1>3, PTL DEF Spec

\* agnes flash: a heap of the ids 1..MaxId has at most MaxId entries, one for each.
LEMMA AgnesPlaces ==
    ASSUME NEW h \in Heaps(AgnesIds)
    PROVE  h.items \in Seq(AgnesIds) /\ h.index \in [AgnesIds -> 0..MaxId]
<1>1. /\ h.items \in Seq(AgnesIds) /\ h.index \in [AgnesIds -> Nat] /\ Coherent(h)
      /\ Size(h) \in Nat /\ DOMAIN h.items = 1..Size(h) /\ MaxId \in Nat
    BY ArraysRight, SchedulersAssumption DEF Heaps
<1>2. Size(h) <= MaxId
  <2> DEFINE n == Size(h)
             items == h.items
  <2>1. n \in Nat /\ items \in [1..n -> 1..MaxId]
    <3>1. n \in Nat /\ DOMAIN items = 1..n /\ items = [j \in DOMAIN items |-> items[j]]
      BY <1>1
    <3>2. \A j \in 1..n : items[j] \in 1..MaxId
      BY <1>1, ArraysRight DEF Heaps, AgnesIds
    <3> HIDE DEF n, items
    <3>3. QED
      BY <3>1, <3>2
  <2>2. \A i, j \in 1..n : items[i] = items[j] => i = j
    BY <1>1 DEF Coherent
  <2> HIDE DEF n, items
  <2>3. IsFiniteSet(1..n) /\ Cardinality(1..n) = n
    BY <2>1, FS_Interval
  <2>4. IsFiniteSet(1..MaxId) /\ Cardinality(1..MaxId) = MaxId
    BY <1>1, FS_Interval
  <2>5. ASSUME MaxId < n
        PROVE  FALSE
    <3>1. \A f \in [1..n -> 1..MaxId] : \E x, y \in 1..n : x # y /\ f[x] = f[y]
      BY <2>3, <2>4, <2>5, FS_PigeonHole
    <3>2. QED
      BY <2>1, <2>2, <3>1
  <2>6. n <= MaxId
    BY <1>1, <2>1, <2>5
  <2>7. QED
    BY <2>6 DEF n
<1>3. \A k \in AgnesIds : h.index[k] \in 0..MaxId
  <2>1. \A k \in AgnesIds : h.index[k] # 0 => h.index[k] \in 1..Size(h)
    BY <1>1 DEF Coherent
  <2>2. QED
    BY <1>1, <1>2, <2>1
<1>4. QED
    BY <1>1, <1>3

\* The tasks that are behind a dependency that was reset are READY.
AgnesUnmetReady == \A i \in agnesUnmet : i \in AgnesIds /\ agnesStatus[i] = "READY"

\* No step leaves one of them behind when the task is no longer READY: executeNextTask does
\* not start it, and whatever else changes its status has looked at its dependencies.
LEMMA AgnesUnmetStep ==
    ASSUME AgnesInv, AgnesUnmetReady, Agnes!Next
    PROVE  AgnesUnmetReady'
<1>t. agnesStatus \in [AgnesIds -> AgnesStatuses] /\ Agnes!TaskIds = AgnesIds
    BY DEF AgnesInv, AgnesTyped, Agnes!TaskIds, AgnesIds
<1>1. ASSUME NEW id \in AgnesIds, NEW s, agnesStatus' = [agnesStatus EXCEPT ![id] = s],
             agnesUnmet' = agnesUnmet \ {id}
      PROVE  AgnesUnmetReady'
    BY <1>t, <1>1 DEF AgnesUnmetReady
<1>2. ASSUME NEW id \in AgnesIds, NEW s, agnesStatus[id] # "READY",
             agnesStatus' = [agnesStatus EXCEPT ![id] = s], agnesUnmet' = agnesUnmet
      PROVE  AgnesUnmetReady'
    BY <1>t, <1>2 DEF AgnesUnmetReady
<1>3. ASSUME NEW k, NEW id \in AgnesIds, NEW s, Agnes!AddTask(id, k, s)
      PROVE  AgnesUnmetReady'
    BY <1>2, <1>3 DEF Agnes!AddTask
<1>4. ASSUME NEW id \in AgnesIds, Agnes!Unblock(id)
      PROVE  AgnesUnmetReady'
    BY <1>2, <1>4 DEF Agnes!Unblock
<1>5. ASSUME NEW id \in AgnesIds, Agnes!Leave(id) \/ Agnes!MarkVictim(id) \/ Agnes!DeleteTask(id)
      PROVE  AgnesUnmetReady'
    BY <1>1, <1>5 DEF Agnes!Leave, Agnes!MarkVictim, Agnes!DeleteTask
<1>6. ASSUME NEW id \in AgnesIds, Agnes!DependencyReset(id) \/ Agnes!DependencyBack(id)
      PROVE  AgnesUnmetReady'
    BY <1>6 DEF Agnes!DependencyReset, Agnes!DependencyBack, AgnesUnmetReady
<1>7. ASSUME NEW id \in AgnesIds, NEW s, Agnes!ResetTask(id, s)
      PROVE  AgnesUnmetReady'
    BY <1>2, <1>7 DEF Agnes!ResetTask
<1>8. ASSUME NEW id \in AgnesIds, NEW p, NEW t, NEW s, Agnes!UpdateTask(id, p, t, s)
      PROVE  AgnesUnmetReady'
    BY <1>1, <1>8 DEF Agnes!UpdateTask
<1>9. ASSUME NEW id \in AgnesIds, NEW p, Agnes!UpdateRejected(id, p)
      PROVE  AgnesUnmetReady'
    BY <1>9 DEF Agnes!UpdateRejected, AgnesUnmetReady
<1>10. ASSUME NEW now, Agnes!ExecuteNextTask(now)
       PROVE  AgnesUnmetReady'
  <2>1. PICK s \in Pops, g \in Heaps(AgnesIds), n \in Nat : Executed(s, g, n, now)
    BY <1>10, AgnesExecutes
  <2>2. agnesUnmet' = agnesUnmet
    BY <1>10 DEF Agnes!ExecuteNextTask
  <2>3. CASE agnesStatus' = agnesStatus
    BY <2>2, <2>3 DEF AgnesUnmetReady
  <2>4. CASE /\ Agnes!Found(s.popped, now)
             /\ agnesStatus' = [agnesStatus EXCEPT ![s.popped[Len(s.popped)]] = "RUNNING"]
    <3>1. s.popped[Len(s.popped)] \notin agnesUnmet
      BY <2>4 DEF Agnes!Found, Agnes!Due
    <3>2. QED
      BY <1>t, <2>2, <2>4, <3>1 DEF AgnesUnmetReady
  <2>5. QED
    BY <2>1, <2>3, <2>4 DEF Executed
<1>11. QED
    BY <1>t, <1>3, <1>4, <1>5, <1>6, <1>7, <1>8, <1>9, <1>10 DEF Agnes!Next

\* agnes flash: the tasks behind a dependency that was reset are READY in every behaviour.
THEOREM AgnesUnmetSound == Spec => [](program = "agnes" => AgnesUnmetReady)
<1> DEFINE Inv == program = "agnes" => AgnesInv
           Unmet == program = "agnes" => AgnesUnmetReady
<1>1. Init => Unmet
    BY DEF Init, Agnes!Init, AgnesUnmetReady
<1>2. Inv /\ Unmet /\ [Next]_vars => Unmet'
  <2>1. SUFFICES ASSUME Inv, Unmet, [Next]_vars, program' = "agnes" PROVE AgnesUnmetReady'
    OBVIOUS
  <2>2. program = "agnes" /\ AgnesInv /\ AgnesUnmetReady /\ (Agnes!Next \/ UNCHANGED agnesVars)
    BY <2>1 DEF Next, vars
  <2>3. CASE Agnes!Next
    BY <2>2, <2>3, AgnesUnmetStep
  <2>4. CASE UNCHANGED agnesVars
    BY <2>2, <2>4 DEF agnesVars, AgnesUnmetReady
  <2>5. QED
    BY <2>2, <2>3, <2>4
<1>3. QED
    BY <1>1, <1>2, AgnesSound, PTL DEF Spec

\* The types of agnes flash's heap and tasks.
LEMMA AgnesTypes == AgnesInv /\ AgnesUnmetReady => Agnes!TypeOK
<1> SUFFICES ASSUME AgnesInv, AgnesUnmetReady PROVE Agnes!TypeOK
    OBVIOUS
<1>1. agnesHeap \in Heaps(AgnesIds) /\ Agnes!TaskIds = AgnesIds
    BY DEF AgnesInv, AgnesHeapSound, Agnes!TaskIds, AgnesIds
<1>2. agnesHeap.items \in Seq(AgnesIds) /\ agnesHeap.index \in [AgnesIds -> 0..MaxId]
    BY <1>1, AgnesPlaces
<1>3. Agnes!Coherent(agnesHeap)
    BY <1>1, AgnesSame DEF Heaps
<1>4. QED
    BY <1>1, <1>2, <1>3 DEF AgnesInv, AgnesTyped, AgnesStatuses, AgnesUnmetReady, Agnes!TypeOK

\* The types of kat's graph, tasks and heap.
LEMMA KatTypes == KatHeapInv => Kat!TypeOK
<1> SUFFICES ASSUME KatHeapInv PROVE Kat!TypeOK
    OBVIOUS
<1>1. Kat!H!Coherent(katHeap) /\ DOMAIN katHeap.index = Ids /\ KeysIn(katHeap) = Kat!Existing
    BY KatSame, ArraysRight DEF KatHeapInv, Heaps
<1>2. {i \in Ids : Kat!H!HeapContains(katHeap, i)} = Kat!Existing
    BY <1>1 DEF KeysIn, Kat!H!HeapContains
<1>3. QED
    BY <1>1, <1>2 DEF KatHeapInv, KatTyped, KatKeys, Kat!TypeOK

\* The types of qwen's tasks, sequence numbers and heaps.
LEMMA QwenTypes == QwenInv => Qwen!TypeOK
<1> SUFFICES ASSUME QwenInv PROVE Qwen!TypeOK
    OBVIOUS
<1>1. /\ qwenStatus \in [Ids -> QwenStatuses] /\ QwenStatuses = {"NONE", "PENDING", "READY", "OTHER"}
      /\ \A i \in Ids : IF qwenStatus[i] = "NONE" THEN qwenTask[i] = Qwen!Unset
                        ELSE qwenTask[i] \in Qwen!TaskKeys
      /\ QwenNumbered(qwenSequence, qwenStatus)
      /\ qwenClock \in ClockTimes \cup {0}
      /\ qwenDangling \in SUBSET Ids /\ \A i \in qwenDangling : qwenStatus[i] = "READY"
      /\ QwenParts(qwenDue, qwenFuture, qwenTask, qwenSequence, qwenStatus, qwenClock)
    BY QwenFacts
<1>2. qwenSequence \in [Ids -> 0..Qwen!Count]
  <2>1. Qwen!Count \in Nat
    <3>1. QwenPresent(qwenStatus) \in SUBSET Ids
      BY DEF QwenPresent
    <3>2. QED
      BY <3>1, QwenCount, FS_Subset, FS_CardinalityType, SchedulersAssumption
  <2>2. qwenSequence \in [Ids -> Nat] /\ \A i \in Ids : qwenSequence[i] <= Qwen!Count
    BY <1>1, QwenCount DEF QwenNumbered
  <2>3. QED
    BY <2>1, <2>2
<1>3. \A i, j \in Ids : IF qwenSequence[i] = 0 THEN i \in Qwen!Missing
                        ELSE i \notin Qwen!Missing /\ (qwenSequence[i] = qwenSequence[j] => i = j)
    BY <1>1 DEF QwenNumbered, Qwen!Missing
<1>4. \A h, before : Qwen!WellFormed(h, before) <=> Coherent(h) /\ Ordered(h, before)
    BY DEF Qwen!WellFormed, Qwen!H!Coherent, Coherent, Qwen!H!Ordered, Ordered, Qwen!H!Size, Size
<1>5. /\ Qwen!WellFormed(qwenDue, Qwen!DueOrder(qwenTask, qwenSequence))
      /\ Qwen!WellFormed(qwenFuture, Qwen!FutureOrder(qwenTask, qwenSequence))
    BY <1>1, <1>4 DEF QwenParts, SoundHeap
<1>6. QED
    BY <1>1, <1>2, <1>3, <1>5 DEF Qwen!TypeOK, Qwen!InitialClock

\* The types of the program that runs, whichever it is, and of its heaps.
THEOREM TypesRight == Spec => []TypeOK
<1> DEFINE Inv == program \in {"agnes", "qwen", "kat", "bigbang"}
<1>1. Init => Inv
    BY DEF Init
<1>2. Inv /\ [Next]_vars => Inv'
    BY DEF Next, vars
<1>3. /\ Inv
      /\ program = "agnes" => AgnesInv /\ AgnesUnmetReady
      /\ program = "qwen" => QwenInv
      /\ program = "kat" => KatHeapInv
      /\ program = "bigbang" => Bigbang!TypeOK
      => TypeOK
    BY AgnesTypes, QwenTypes, KatTypes DEF TypeOK
<1>4. QED
    BY <1>1, <1>2, <1>3, AgnesSound, AgnesUnmetSound, QwenSound, KatHeapSound, BigbangTypes, PTL DEF Spec
=============================================================================
