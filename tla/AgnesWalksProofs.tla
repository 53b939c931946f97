-------------------------- MODULE AgnesWalksProofs --------------------------
(***************************************************************************)
(* Theorems about the graph walks of AgnesWalks, for every finite set of   *)
(* ids and every graph over them, whatever the order in which sets are     *)
(* iterated.  The argument about the two breadth-first walks is the same:  *)
(* what was visited and is no longer queued has been expanded, so that     *)
(* when the queue is empty the visited set is closed.  That about the      *)
(* depth-first one is the classical one of the three colours.              *)
(***************************************************************************)
EXTENDS AgnesWalks, ReachabilityProofs, FiniteSetTheorems

-----------------------------------------------------------------------------
(* Queues *)

Members(q)  == {q[k] : k \in DOMAIN q}
Distinct(q) == \A j, k \in DOMAIN q : q[j] = q[k] => j = k

\* An enumeration of a finite set lists each of its elements once.
LEMMA Enumerates ==
    ASSUME NEW S \in SUBSET Ids, NEW order \in [1..Cardinality(S) -> S],
           \A j, k \in 1..Cardinality(S) : j # k => order[j] # order[k]
    PROVE  order \in Seq(Ids) /\ Distinct(order) /\ Members(order) = S
<1>1. IsFiniteSet(S) /\ Cardinality(S) \in Nat
    BY AgnesWalksAssumption, FS_Subset, FS_CardinalityType
<1>2. order \in Injection(1..Cardinality(S), S)
    BY DEF Injection, IsInjective
<1>3. Cardinality(1..Cardinality(S)) = Cardinality(S)
  <2>1. 1 \in Int /\ Cardinality(S) \in Int
    BY <1>1
  <2>2. Cardinality(1..Cardinality(S)) = IF 1 > Cardinality(S) THEN 0 ELSE Cardinality(S) - 1 + 1
    BY <2>1, FS_Interval
  <2>3. QED
    BY <1>1, <2>2
<1>4. order \in Surjection(1..Cardinality(S), S)
    BY <1>1, <1>2, <1>3, FS_Injection
<1>5. \A x \in S : \E k \in 1..Cardinality(S) : order[k] = x
    BY <1>4 DEF Surjection
<1>6. order \in Seq(Ids) /\ DOMAIN order = 1..Cardinality(S)
    BY <1>1
<1>7. QED
    BY <1>5, <1>6 DEF Distinct, Members

\* The words of the three modules for enumerations are the same.
LEMMA EnumerationWords ==
    ASSUME NEW S \in SUBSET Ids, NEW order,
           order \in Probe!SetToSeqs(S) \/ order \in Propagation!SetToSeqs(S)
    PROVE  order \in Seq(Ids) /\ Distinct(order) /\ Members(order) = S
<1>1. Probe!Cardinality(S) = Cardinality(S) /\ Propagation!Cardinality(S) = Cardinality(S)
    BY DEF Probe!Cardinality, Propagation!Cardinality, Cardinality
<1>2. /\ order \in [1..Cardinality(S) -> S]
      /\ \A j, k \in 1..Cardinality(S) : j # k => order[j] # order[k]
    BY <1>1 DEF Probe!SetToSeqs, Propagation!SetToSeqs
<1>3. QED
    BY <1>2, Enumerates

\* Taking the head off a queue and adding others at its end.
LEMMA Requeue ==
    ASSUME NEW q \in Seq(Ids), q # <<>>, Distinct(q),
           NEW more \in Seq(Ids), Distinct(more), Members(q) \cap Members(more) = {},
           NEW new, new = Tail(q) \o more
    PROVE  /\ Head(q) \in Ids /\ Head(q) \in Members(q)
           /\ new \in Seq(Ids) /\ Distinct(new)
           /\ Members(new) = (Members(q) \ {Head(q)}) \cup Members(more)
<1>1. /\ Len(q) \in Nat \ {0} /\ Len(more) \in Nat
      /\ DOMAIN q = 1..Len(q) /\ DOMAIN more = 1..Len(more)
      /\ Head(q) = q[1] /\ 1 \in DOMAIN q
    OBVIOUS
<1>2. /\ new \in Seq(Ids) /\ DOMAIN new = 1..(Len(q) - 1 + Len(more))
      /\ \A k \in 1..(Len(q) - 1 + Len(more)) :
            new[k] = IF k <= Len(q) - 1 THEN q[k + 1] ELSE more[k - (Len(q) - 1)]
  <2>1. Tail(q) \in Seq(Ids) /\ Len(Tail(q)) = Len(q) - 1
        /\ \A k \in 1..Len(q) - 1 : Tail(q)[k] = q[k + 1]
    BY <1>1
  <2>2. QED
    BY <1>1, <2>1
<1>3. ASSUME NEW k \in DOMAIN new
      PROVE  \/ k <= Len(q) - 1 /\ k + 1 \in DOMAIN q /\ new[k] = q[k + 1]
             \/ k > Len(q) - 1 /\ k - (Len(q) - 1) \in DOMAIN more /\ new[k] = more[k - (Len(q) - 1)]
    BY <1>1, <1>2
<1>4. ASSUME NEW k \in DOMAIN q, k # 1
      PROVE  k - 1 \in DOMAIN new /\ new[k - 1] = q[k]
  <2>1. /\ k \in Int /\ 2 <= k /\ k <= Len(q) /\ Len(q) \in Int
        /\ Len(more) \in Int /\ 0 <= Len(more)
    BY <1>1, <1>4
  <2>2. k - 1 \in 1..(Len(q) - 1 + Len(more)) /\ k - 1 <= Len(q) - 1 /\ (k - 1) + 1 = k
    BY <2>1
  <2>3. QED
    BY <1>2, <2>2
<1>5. ASSUME NEW k \in DOMAIN more
      PROVE  k + (Len(q) - 1) \in DOMAIN new /\ new[k + (Len(q) - 1)] = more[k]
    BY <1>1, <1>2
<1>6. Members(new) = (Members(q) \ {Head(q)}) \cup Members(more)
  <2>1. ASSUME NEW x \in Members(new)
        PROVE  x \in (Members(q) \ {Head(q)}) \cup Members(more)
    <3>1. PICK k \in DOMAIN new : x = new[k]
      BY DEF Members
    <3>2. CASE k <= Len(q) - 1
      <4>1. k + 1 \in DOMAIN q /\ x = q[k + 1] /\ k + 1 # 1
        BY <1>1, <1>2, <1>3, <3>1, <3>2
      <4>2. QED
        BY <1>1, <4>1 DEF Members, Distinct
    <3>3. CASE k > Len(q) - 1
      BY <1>3, <3>1, <3>3 DEF Members
    <3>4. QED
      BY <1>1, <1>2, <3>2, <3>3
  <2>2. ASSUME NEW x \in Members(q), x # Head(q)
        PROVE  x \in Members(new)
    <3>1. PICK k \in DOMAIN q : x = q[k]
      BY <2>2 DEF Members
    <3>2. k # 1
      BY <1>1, <2>2, <3>1
    <3>3. QED
      BY <1>4, <3>1, <3>2 DEF Members
  <2>3. ASSUME NEW x \in Members(more)
        PROVE  x \in Members(new)
    BY <1>5 DEF Members
  <2>4. QED
    BY <2>1, <2>2, <2>3
<1>7. Distinct(new)
  <2>1. SUFFICES ASSUME NEW j \in DOMAIN new, NEW k \in DOMAIN new, new[j] = new[k]
                 PROVE  j = k
    BY DEF Distinct
  <2>2. j \in Int /\ k \in Int /\ Len(q) \in Int
    BY <1>1, <1>2
  <2>3. CASE j <= Len(q) - 1 /\ k <= Len(q) - 1
    <3>1. j + 1 \in DOMAIN q /\ k + 1 \in DOMAIN q /\ q[j + 1] = q[k + 1]
      BY <1>3, <2>1, <2>2, <2>3
    <3>2. QED
      BY <2>2, <3>1 DEF Distinct
  <2>4. CASE j > Len(q) - 1 /\ k > Len(q) - 1
    <3>1. /\ j - (Len(q) - 1) \in DOMAIN more /\ k - (Len(q) - 1) \in DOMAIN more
          /\ more[j - (Len(q) - 1)] = more[k - (Len(q) - 1)]
      BY <1>3, <2>1, <2>2, <2>4
    <3>2. j - (Len(q) - 1) = k - (Len(q) - 1)
      BY <3>1 DEF Distinct
    <3>3. QED
      BY <2>2, <3>2
  <2>5. CASE j <= Len(q) - 1 /\ k > Len(q) - 1
    <3>1. new[j] \in Members(q) /\ new[k] \in Members(more)
      BY <1>3, <2>2, <2>5 DEF Members
    <3>2. QED
      BY <2>1, <3>1
  <2>6. CASE j > Len(q) - 1 /\ k <= Len(q) - 1
    <3>1. new[k] \in Members(q) /\ new[j] \in Members(more)
      BY <1>3, <2>2, <2>6 DEF Members
    <3>2. QED
      BY <2>1, <3>1
  <2>7. QED
    BY <2>2, <2>3, <2>4, <2>5, <2>6
<1>8. Head(q) \in Ids /\ Head(q) \in Members(q)
    BY <1>1 DEF Members
<1>9. QED
    BY <1>2, <1>6, <1>7, <1>8
-----------------------------------------------------------------------------
(* The failure propagation *)

\* Where the propagation goes on from each node, by the statuses as they were.
Onward == Propagation!Onward(before, dependents)

\* The modules' words for reachability are the same.
LEMMA PropagationWords ==
    ASSUME NEW succ, NEW from
    PROVE  Propagation!ReachableFrom(succ, from) = ReachableFrom(succ, from)
  BY DEF Propagation!ReachableFrom, Propagation!ClosedUnder, ReachableFrom, ClosedUnder

\* The visited nodes are among those to visit; those no longer queued have been
\* expanded by the statuses as they were, and marked if they were live.
PropagationInv ==
    /\ Propagation!TypeOK
    /\ Distinct(queue) /\ origin \notin Members(queue)
    /\ {origin} \cup dependents[origin] \subseteq visited
    /\ visited \subseteq ReachableFrom(Onward, dependents[origin]) \cup {origin}
    /\ \A n \in visited \ Members(queue) : Onward[n] \subseteq visited
    /\ marked = {n \in visited \ (Members(queue) \cup {origin}) : before[n] \in Propagation!Live}
    /\ status = Propagation!Fail(before, marked)

\* The nodes of the propagation's graph.
LEMMA OnwardType ==
    ASSUME Propagation!TypeOK
    PROVE  /\ Onward \in [Ids -> SUBSET Ids]
           /\ dependents[origin] \in SUBSET Ids /\ dependents[origin] \subseteq Ids
           /\ \A n \in Ids : Onward[n] \subseteq dependents[n]
  BY DEF Propagation!TypeOK, Onward, Propagation!Onward

\* The propagation starts from a right state.
LEMMA PropagationInit ==
    ASSUME Propagation!Init
    PROVE  PropagationInv
<1>0. dependents[origin] \in SUBSET Ids /\ origin \in Ids /\ dependents[origin] \ {origin} \in SUBSET Ids
    BY DEF Propagation!Init
<1>1. queue \in Seq(Ids) /\ Distinct(queue) /\ Members(queue) = dependents[origin] \ {origin}
  <2>1. queue \in Propagation!SetToSeqs(dependents[origin] \ {origin})
    BY DEF Propagation!Init
  <2>2. QED
    BY <1>0, <2>1, EnumerationWords
<1>2. visited = {origin} \cup dependents[origin] /\ marked = {} /\ status = before
    BY DEF Propagation!Init
<1>3. Propagation!TypeOK
  <2>1. /\ before \in [Ids -> Propagation!Statuses \cup {"NONE"}]
        /\ dependents \in [Ids -> SUBSET Ids]
    BY DEF Propagation!Init, Propagation!Statuses, Propagation!Live, Propagation!Terminal
  <2>2. \A k \in DOMAIN queue : queue[k] \in visited \ marked
    BY <1>1, <1>2 DEF Members
  <2>3. QED
    BY <1>0, <1>1, <1>2, <2>1, <2>2 DEF Propagation!TypeOK
<1>4. visited \subseteq ReachableFrom(Onward, dependents[origin]) \cup {origin}
    BY <1>2, <1>3, OnwardType, ReachContains
<1>5. visited \ Members(queue) = {origin}
    BY <1>1, <1>2
<1>6. Onward[origin] \subseteq visited
    BY <1>0, <1>2, <1>3, OnwardType
<1>7. status = Propagation!Fail(before, marked)
  <2>1. before \in [Ids -> Propagation!Statuses \cup {"NONE"}]
    BY <1>3 DEF Propagation!TypeOK
  <2>2. QED
    BY <1>2, <2>1 DEF Propagation!Fail
<1>8. QED
    BY <1>1, <1>2, <1>3, <1>4, <1>5, <1>6, <1>7 DEF PropagationInv

\* Visiting a node keeps the propagation right.
LEMMA PropagationVisit ==
    ASSUME PropagationInv, Propagation!Visit
    PROVE  PropagationInv'
<1> DEFINE node == Head(queue)
           fresh == IF before[node] \in {"NONE", "COMPLETED"} THEN {} ELSE dependents[node] \ visited
<1>1. /\ before \in [Ids -> Propagation!Statuses \cup {"NONE"}]
      /\ dependents \in [Ids -> SUBSET Ids] /\ origin \in Ids
      /\ status \in [Ids -> Propagation!Statuses \cup {"NONE"}]
      /\ visited \subseteq Ids /\ queue \in Seq(Ids) /\ marked \subseteq visited
      /\ Members(queue) \subseteq visited \ marked
    BY DEF PropagationInv, Propagation!TypeOK, Members
<1>2. /\ Distinct(queue) /\ origin \notin Members(queue)
      /\ {origin} \cup dependents[origin] \subseteq visited
      /\ visited \subseteq ReachableFrom(Onward, dependents[origin]) \cup {origin}
      /\ \A n \in visited \ Members(queue) : Onward[n] \subseteq visited
      /\ marked = {n \in visited \ (Members(queue) \cup {origin}) : before[n] \in Propagation!Live}
      /\ status = Propagation!Fail(before, marked)
    BY DEF PropagationInv
<1>3. queue # <<>> /\ UNCHANGED <<before, dependents, origin>>
    BY DEF Propagation!Visit
<1>4. node \in Ids /\ node \in Members(queue)
  <2>1. queue \in Seq(Ids) /\ queue # <<>>
    BY <1>1, <1>3
  <2>2. DOMAIN queue = 1..Len(queue) /\ 1 \in DOMAIN queue /\ node = queue[1]
    BY <2>1
  <2>3. QED
    BY <2>1, <2>2 DEF Members
<1>5. status[node] = before[node]
    BY <1>1, <1>2, <1>4 DEF Propagation!Fail
<1> HIDE DEF node
<1>6. /\ Propagation!Expands <=> before[node] \notin {"NONE", "COMPLETED"}
      /\ Propagation!Marks <=> before[node] \in Propagation!Live
      /\ Propagation!Node = node
    BY <1>5 DEF Propagation!Expands, Propagation!Marks, Propagation!Node, node
<1>7. fresh \in SUBSET Ids /\ fresh \cap visited = {} /\ fresh = Onward[node] \ visited
    BY <1>1, <1>4 DEF Onward, Propagation!Onward
<1>8. /\ visited' = visited \cup fresh
      /\ \E order \in Propagation!SetToSeqs(fresh) : queue' = Tail(queue) \o order
      /\ marked' = IF before[node] \in Propagation!Live THEN marked \cup {node} ELSE marked
      /\ status' = IF before[node] \in Propagation!Live THEN [status EXCEPT ![node] = "FAILED"] ELSE status
    BY <1>6 DEF Propagation!Visit, Propagation!Fresh, Propagation!Rest
<1> HIDE DEF fresh
<1>9. queue' \in Seq(Ids) /\ Distinct(queue') /\ Members(queue') = (Members(queue) \ {node}) \cup fresh
  <2>1. PICK order \in Propagation!SetToSeqs(fresh) : queue' = Tail(queue) \o order
    BY <1>8
  <2>2. order \in Seq(Ids) /\ Distinct(order) /\ Members(order) = fresh
    BY <1>7, <2>1, EnumerationWords
  <2>3. Members(queue) \cap Members(order) = {}
    BY <1>1, <1>7, <2>2
  <2>4. QED
    BY <1>1, <1>2, <1>3, <2>1, <2>2, <2>3, Requeue DEF node
<1>10. node # origin /\ node \in visited /\ node \notin marked
    BY <1>1, <1>2, <1>4
<1>11. marked' = {n \in visited' \ (Members(queue') \cup {origin}) : before[n] \in Propagation!Live}
    BY <1>1, <1>2, <1>4, <1>7, <1>8, <1>9, <1>10
<1>12. status' = Propagation!Fail(before, marked')
    BY <1>1, <1>2, <1>4, <1>8 DEF Propagation!Fail
<1>13. Onward' = Onward /\ Onward \in [Ids -> SUBSET Ids] /\ dependents[origin] \in SUBSET Ids
  <2>1. Propagation!TypeOK
    BY DEF PropagationInv
  <2>2. QED
    BY <1>3, <2>1, OnwardType DEF Onward, Propagation!Onward
<1>14. visited' \subseteq ReachableFrom(Onward, dependents[origin]) \cup {origin}
  <2>1. node \in ReachableFrom(Onward, dependents[origin])
    BY <1>2, <1>10
  <2>2. ClosedUnder(Onward, ReachableFrom(Onward, dependents[origin]))
    BY <1>13, ReachClosed
  <2>3. fresh \subseteq ReachableFrom(Onward, dependents[origin])
    BY <1>7, <2>1, <2>2 DEF ClosedUnder
  <2>4. QED
    BY <1>2, <1>8, <2>3
<1>15. \A n \in visited' \ Members(queue') : Onward[n] \subseteq visited'
  <2>1. Onward[node] \subseteq visited'
    BY <1>7, <1>8
  <2>2. QED
    BY <1>2, <1>8, <1>9, <2>1
<1>16. Propagation!TypeOK'
  <2>1. visited' \subseteq Ids
    BY <1>1, <1>7, <1>8
  <2>2. marked' \subseteq visited'
    BY <1>11
  <2>3. \A k \in DOMAIN queue' : queue'[k] \in visited' \ marked'
    <3>1. Members(queue') \subseteq visited'
      BY <1>1, <1>8, <1>9
    <3>2. Members(queue') \cap marked' = {}
      BY <1>11
    <3>3. QED
      BY <3>1, <3>2 DEF Members
  <2>4. status' \in [Ids -> Propagation!Statuses \cup {"NONE"}]
    BY <1>1, <1>8 DEF Propagation!Statuses, Propagation!Terminal
  <2>5. QED
    BY <1>1, <1>3, <1>9, <2>1, <2>2, <2>3, <2>4 DEF Propagation!TypeOK
<1>17. origin' \notin Members(queue)' /\ Members(queue)' = Members(queue')
    BY <1>2, <1>3, <1>7, <1>9 DEF Members
<1>18. QED
    BY <1>2, <1>3, <1>8, <1>9, <1>11, <1>12, <1>13, <1>14, <1>15, <1>16, <1>17
    DEF PropagationInv, Distinct, Propagation!Fail

\* When the queue is empty what was visited is closed: it is all there is to visit.
LEMMA PropagationRight ==
    ASSUME PropagationInv
    PROVE  Propagation!MarksTheVictims
<1> SUFFICES ASSUME queue = <<>>
             PROVE  marked = Propagation!Victims(before, dependents, origin)
    BY DEF PropagationInv, Propagation!MarksTheVictims
<1> DEFINE R == ReachableFrom(Onward, dependents[origin])
<1>1. Propagation!TypeOK /\ visited \in SUBSET Ids /\ origin \in Ids
    BY DEF PropagationInv, Propagation!TypeOK
<1>2. Members(queue) = {}
    BY DEF Members
<1>3. ClosedUnder(Onward, visited) /\ dependents[origin] \subseteq visited
    BY <1>2 DEF PropagationInv, ClosedUnder
<1>4. R \subseteq visited
    BY <1>1, <1>3, OnwardType, ReachLeast
<1>5. visited \subseteq R \cup {origin} /\ origin \in visited
    BY DEF PropagationInv
<1> HIDE DEF R
<1>6. visited \ {origin} = R \ {origin}
    BY <1>4, <1>5
<1>7. marked = {n \in visited \ {origin} : before[n] \in Propagation!Live}
    BY <1>2 DEF PropagationInv
<1>8. Propagation!Victims(before, dependents, origin) = {n \in R \ {origin} : before[n] \in Propagation!Live}
    BY PropagationWords DEF Propagation!Victims, R, Onward
<1>9. QED
    BY <1>6, <1>7, <1>8
-----------------------------------------------------------------------------
(* The edge check *)

\* The modules' words for reachability are the same.
LEMMA ProbeWords ==
    ASSUME NEW succ, NEW from
    PROVE  /\ Probe!ReachableFrom(succ, from) = ReachableFrom(succ, from)
           /\ Probe!IsAcyclic(succ) = IsAcyclic(succ)
  BY DEF Probe!ReachableFrom, Probe!ClosedUnder, ReachableFrom, ClosedUnder,
         Probe!IsAcyclic, IsAcyclic

\* dep reaches the visited nodes; those no longer queued have been expanded and are
\* not the task; the search says yes with the task in the queue, no with none left.
ProbeInv ==
    /\ Probe!TypeOK
    /\ Distinct(queue)
    /\ dep \in visited /\ visited \subseteq ReachableFrom(deps, {dep})
    /\ \A n \in visited \ Members(queue) : deps[n] \subseteq visited /\ n # task
    /\ answer # <<>> => \/ answer[1] = TRUE /\ task \in Members(queue)
                        \/ answer[1] = FALSE /\ queue = <<>>

\* The edge check starts from a right state.
LEMMA ProbeInit ==
    ASSUME Probe!Init
    PROVE  ProbeInv
<1>1. /\ deps \in [Ids -> SUBSET Ids] /\ task \in Ids /\ dep \in Ids
      /\ visited = {dep} /\ queue = <<dep>> /\ answer = <<>>
      /\ parent \in [Ids -> Ids \cup {NoId}]
    BY DEF Probe!Init
<1>2. DOMAIN queue = {1} /\ queue[1] = dep /\ queue \in Seq(Ids)
    BY <1>1
<1>3. Distinct(queue) /\ Members(queue) = {dep}
    BY <1>2 DEF Distinct, Members
<1>4. visited \subseteq ReachableFrom(deps, {dep})
    BY <1>1, ReachContains
<1>5. Probe!TypeOK
    BY <1>1, <1>2 DEF Probe!TypeOK
<1>6. QED
    BY <1>1, <1>3, <1>4, <1>5 DEF ProbeInv

\* Every step of the search keeps it right.
LEMMA ProbeStep ==
    ASSUME ProbeInv, Probe!Next
    PROVE  ProbeInv'
<1>1. /\ deps \in [Ids -> SUBSET Ids] /\ task \in Ids /\ dep \in Ids
      /\ visited \subseteq Ids /\ queue \in Seq(Ids)
      /\ parent \in [Ids -> Ids \cup {NoId}]
      /\ Members(queue) \subseteq visited
    BY DEF ProbeInv, Probe!TypeOK, Members
<1>2. /\ Distinct(queue) /\ dep \in visited /\ visited \subseteq ReachableFrom(deps, {dep})
      /\ \A n \in visited \ Members(queue) : deps[n] \subseteq visited /\ n # task
    BY DEF ProbeInv
<1>3. ASSUME queue # <<>>
      PROVE  Head(queue) \in Members(queue)
  <2>1. DOMAIN queue = 1..Len(queue) /\ 1 \in DOMAIN queue /\ Head(queue) = queue[1]
    BY <1>1, <1>3
  <2>2. QED
    BY <2>1 DEF Members
<1>4. ASSUME UNCHANGED <<deps, task, dep, visited, queue, parent>>,
             \/ answer'[1] = TRUE /\ task \in Members(queue)
             \/ answer'[1] = FALSE /\ queue = <<>>
      PROVE  ProbeInv'
  <2>1. Members(queue)' = Members(queue) /\ Distinct(queue)' = Distinct(queue)
        /\ Probe!TypeOK' = Probe!TypeOK
    BY <1>4 DEF Members, Distinct, Probe!TypeOK
  <2>2. QED
    BY <1>4, <2>1 DEF ProbeInv
<1>5. CASE Probe!FindTask
  <2>1. /\ answer' = <<TRUE, Probe!Witness>> /\ queue # <<>> /\ Head(queue) = task
        /\ UNCHANGED <<deps, task, dep, visited, queue, parent>>
    BY <1>5 DEF Probe!FindTask
  <2>2. answer'[1] = TRUE
    BY <2>1
  <2>3. QED
    BY <1>3, <1>4, <2>1, <2>2
<1>6. CASE Probe!Exhaust
  <2>1. /\ answer' = <<FALSE, <<>>>> /\ queue = <<>>
        /\ UNCHANGED <<deps, task, dep, visited, queue, parent>>
    BY <1>6 DEF Probe!Exhaust
  <2>2. answer'[1] = FALSE
    BY <2>1
  <2>3. QED
    BY <1>4, <2>1, <2>2
<1>7. CASE Probe!Expand
  <2> DEFINE node == Head(queue)
             fresh == deps[node] \ visited
  <2>1. /\ answer = <<>> /\ queue # <<>> /\ node # task
        /\ \E order \in Probe!SetToSeqs(fresh) : queue' = Tail(queue) \o order
        /\ visited' = visited \cup fresh
        /\ parent' = [i \in Ids |-> IF i \in fresh THEN node ELSE parent[i]]
        /\ UNCHANGED <<deps, task, dep, answer>>
    BY <1>7 DEF Probe!Expand, Probe!Fresh, Probe!Rest, Probe!Seen
  <2>2. node \in Members(queue) /\ node \in visited /\ node \in Ids
    BY <1>1, <1>3, <2>1
  <2>3. fresh \in SUBSET Ids /\ fresh \cap visited = {} /\ deps[node] \subseteq visited \cup fresh
        /\ fresh \subseteq deps[node]
    BY <1>1, <2>2
  <2>4. parent' \in [Ids -> Ids \cup {NoId}]
    BY <1>1, <2>1, <2>2
  <2>5. queue' \in Seq(Ids) /\ Distinct(queue') /\ Members(queue') = (Members(queue) \ {node}) \cup fresh
    <3>1. PICK order \in Probe!SetToSeqs(fresh) : queue' = Tail(queue) \o order
      BY <2>1
    <3>2. order \in Seq(Ids) /\ Distinct(order) /\ Members(order) = fresh
      BY <2>3, <3>1, EnumerationWords
    <3>3. Members(queue) \cap Members(order) = {}
      BY <1>1, <2>3, <3>2
    <3>4. queue \in Seq(Ids) /\ queue # <<>> /\ Distinct(queue)
      BY <1>1, <1>2, <2>1
    <3> HIDE DEF fresh
    <3>5. QED
      BY <3>1, <3>2, <3>3, <3>4, Requeue
  <2> HIDE DEF node, fresh
  <2>6. visited' \subseteq ReachableFrom(deps, {dep})
    <3>1. ClosedUnder(deps, ReachableFrom(deps, {dep}))
      BY <1>1, ReachClosed
    <3>2. QED
      BY <1>2, <2>1, <2>2, <2>3, <3>1 DEF ClosedUnder
  <2>7. \A n \in visited' \ Members(queue') : deps[n] \subseteq visited' /\ n # task
    BY <1>2, <2>1, <2>3, <2>5
  <2>8. Members(queue)' = Members(queue') /\ Distinct(queue)' = Distinct(queue')
    BY DEF Members, Distinct
  <2>9. Probe!TypeOK'
    <3>1. visited' \subseteq Ids
      BY <1>1, <2>1, <2>3
    <3>2. \A k \in DOMAIN queue' : queue'[k] \in visited'
      BY <1>1, <2>1, <2>5 DEF Members
    <3>3. QED
      BY <1>1, <2>1, <2>4, <2>5, <3>1, <3>2 DEF Probe!TypeOK
  <2>10. QED
    BY <1>2, <2>1, <2>5, <2>6, <2>7, <2>8, <2>9 DEF ProbeInv
<1>8. QED
    BY <1>5, <1>6, <1>7 DEF Probe!Next

\* The edge task -> dep closes a loop in an acyclic graph exactly when dep reaches task.
LEMMA EdgeClosesLoop ==
    ASSUME NEW g \in [Ids -> SUBSET Ids], NEW t \in Ids, NEW d \in Ids, IsAcyclic(g)
    PROVE  t \in ReachableFrom(g, {d}) <=> ~IsAcyclic([g EXCEPT ![t] = @ \cup {d}])
<1> DEFINE D == g[t] \cup {d}
<1>1. D \in SUBSET Ids /\ d \in D /\ [g EXCEPT ![t] = @ \cup {d}] = [g EXCEPT ![t] = D]
    OBVIOUS
<1>2. ASSUME t \in ReachableFrom(g, {d})
      PROVE  ~IsAcyclic([g EXCEPT ![t] = D])
    BY <1>1, <1>2, CyclicUpdate
<1>3. ASSUME t \notin ReachableFrom(g, {d})
      PROVE  IsAcyclic([g EXCEPT ![t] = D])
  <2>1. \A x \in g[t] : t \notin ReachableFrom(g, {x})
    BY AcyclicNoReturn
  <2>2. \A x \in D : t \notin ReachableFrom(g, {x})
    BY <1>3, <2>1
  <2> HIDE DEF D
  <2>3. QED
    BY <1>1, <2>2, AcyclicUpdate
<1>4. QED
    BY <1>1, <1>2, <1>3

\* The answer is right.
LEMMA ProbeRight ==
    ASSUME ProbeInv
    PROVE  Probe!AnswerIsReachability
<1> SUFFICES ASSUME answer # <<>>
             PROVE  answer[1] <=> task \in ReachableFrom(deps, {dep})
  <2>1. deps \in [Ids -> SUBSET Ids] /\ task \in Ids /\ dep \in Ids
    BY DEF ProbeInv, Probe!TypeOK
  <2>2. QED
    BY <2>1, EdgeClosesLoop, ProbeWords DEF Probe!AnswerIsReachability
<1>1. deps \in [Ids -> SUBSET Ids] /\ visited \in SUBSET Ids
      /\ Members(queue) \subseteq visited /\ visited \subseteq ReachableFrom(deps, {dep})
    BY DEF ProbeInv, Probe!TypeOK, Members
<1>2. CASE answer[1] = TRUE /\ task \in Members(queue)
    BY <1>1, <1>2
<1>3. CASE answer[1] = FALSE /\ queue = <<>>
  <2>1. Members(queue) = {}
    BY <1>3 DEF Members
  <2>2. ClosedUnder(deps, visited) /\ {dep} \subseteq visited /\ task \notin visited
    BY <2>1 DEF ProbeInv, ClosedUnder
  <2>3. ReachableFrom(deps, {dep}) \subseteq visited
    BY <1>1, <2>2, ReachLeast
  <2>4. QED
    BY <1>3, <2>2, <2>3
<1>4. QED
    BY <1>2, <1>3 DEF ProbeInv
-----------------------------------------------------------------------------
(* The cycle audit *)

\* The modules' words for acyclicity are the same.
LEMMA AuditWords ==
    ASSUME NEW succ
    PROVE  Audit!IsAcyclic(succ) = IsAcyclic(succ)
  BY DEF Audit!IsAcyclic, IsAcyclic

AuditFrame == [node : Ids, todo : SUBSET Ids]

\* The frames are a path of different nodes.  Of a frame's dependencies those already
\* looked at are finished, but for the one that the next frame is about.
Tracks(c, s) ==
    /\ \A k \in DOMAIN s : s[k].todo \subseteq deps[s[k].node]
    /\ \A k \in DOMAIN s : \A m \in deps[s[k].node] \ s[k].todo :
          c[m] = "black" \/ (k + 1 \in DOMAIN s /\ m = s[k + 1].node)
    /\ \A k \in DOMAIN s : k + 1 \in DOMAIN s => s[k + 1].node \in deps[s[k].node]
    /\ \A j, k \in DOMAIN s : s[j].node = s[k].node => j = k

\* The finished nodes depend on finished ones, and there is no cycle among them.
Black(c) == {n \in Ids : c[n] = "black"}
Settled(B) ==
    /\ \A n \in B : deps[n] \subseteq B
    /\ \A S \in SUBSET B : S # {} => \E n \in S : deps[n] \cap S = {}

AuditInv ==
    /\ Audit!TypeOK
    /\ \A i \in Ids \ tasks : deps[i] = {}
    /\ answer = <<>> => Tracks(color, stack) /\ Settled(Black(color))
    /\ answer # <<>> => \/ answer[1] = TRUE /\ ~IsAcyclic(deps)
                        \/ answer[1] = FALSE /\ IsAcyclic(deps)

\* The audit starts from a right state.
LEMMA AuditInit ==
    ASSUME Audit!Init
    PROVE  AuditInv
<1>1. /\ tasks \in SUBSET Ids /\ deps \in [Ids -> SUBSET Ids]
      /\ \A i \in Ids \ tasks : deps[i] = {}
      /\ color = [i \in Ids |-> "white"] /\ parent = [i \in Ids |-> NoId]
      /\ stack = <<>> /\ answer = <<>>
    BY DEF Audit!Init
<1>2. DOMAIN stack = {} /\ stack \in Seq(AuditFrame)
    BY <1>1
<1>3. Audit!TypeOK
    BY <1>1, <1>2 DEF Audit!TypeOK, AuditFrame
<1>4. Tracks(color, stack)
    BY <1>2 DEF Tracks
<1>5. Black(color) = {}
    BY <1>1 DEF Black
<1>6. Settled(Black(color))
    BY <1>5 DEF Settled
<1>7. QED
    BY <1>1, <1>3, <1>4, <1>6 DEF AuditInv

\* What the type invariant says of the frames.
LEMMA AuditFrames ==
    ASSUME AuditInv
    PROVE  /\ stack \in Seq(AuditFrame) /\ Len(stack) \in Nat /\ DOMAIN stack = 1..Len(stack)
           /\ \A k \in DOMAIN stack : /\ stack[k] \in AuditFrame
                                      /\ stack[k].node \in Ids /\ stack[k].todo \subseteq Ids
                                      /\ color[stack[k].node] = "gray"
           /\ \A i \in Ids : color[i] = "gray" => \E k \in DOMAIN stack : stack[k].node = i
<1>1. stack \in Seq(AuditFrame) /\ {i \in Ids : color[i] = "gray"} = {stack[k].node : k \in DOMAIN stack}
    BY DEF AuditInv, Audit!TypeOK, AuditFrame
<1>2. Len(stack) \in Nat /\ DOMAIN stack = 1..Len(stack) /\ \A k \in DOMAIN stack : stack[k] \in AuditFrame
    BY <1>1
<1>3. \A k \in DOMAIN stack : stack[k].node \in Ids /\ stack[k].todo \subseteq Ids
    BY <1>2 DEF AuditFrame
<1>4. QED
    BY <1>1, <1>2, <1>3

\* The top frame, and the stack once it has looked at d.
LEMMA AuditAdvanced ==
    ASSUME AuditInv, stack # <<>>, NEW d
    PROVE  /\ Len(stack) \in DOMAIN stack /\ Audit!Top = stack[Len(stack)]
           /\ Audit!Advanced(d) \in Seq(AuditFrame)
           /\ DOMAIN Audit!Advanced(d) = 1..Len(stack) /\ Len(Audit!Advanced(d)) = Len(stack)
           /\ \A k \in 1..Len(stack) :
                 /\ Audit!Advanced(d)[k].node = stack[k].node
                 /\ Audit!Advanced(d)[k].todo = IF k = Len(stack) THEN stack[k].todo \ {d}
                                                ELSE stack[k].todo
<1> DEFINE n == Len(stack)
           top == [stack[n] EXCEPT !.todo = @ \ {d}]
           adv == [stack EXCEPT ![n] = top]
<1>1. n \in Nat \ {0} /\ DOMAIN stack = 1..n /\ n \in DOMAIN stack /\ stack[n] \in AuditFrame
      /\ stack \in Seq(AuditFrame)
    BY AuditFrames
<1>2. top \in AuditFrame /\ top.node = stack[n].node /\ top.todo = stack[n].todo \ {d}
  <2> DEFINE f == stack[n]
  <2>1. f \in AuditFrame /\ top = [f EXCEPT !.todo = f.todo \ {d}]
    BY <1>1
  <2> HIDE DEF f, top
  <2>2. top \in AuditFrame /\ top.node = f.node /\ top.todo = f.todo \ {d}
    BY <2>1 DEF AuditFrame
  <2>3. QED
    BY <2>2 DEF f
<1>3. Audit!Advanced(d) = adv
    BY DEF Audit!Advanced
<1> HIDE DEF top
<1>4. /\ adv \in Seq(AuditFrame) /\ DOMAIN adv = 1..n /\ Len(adv) = n
      /\ \A k \in 1..n : adv[k] = IF k = n THEN top ELSE stack[k]
    BY <1>1, <1>2
<1> HIDE DEF adv
<1>5. QED
    BY <1>1, <1>2, <1>3, <1>4 DEF Audit!Top

\* What a step that goes on searching has to show.
LEMMA AuditGoesOn ==
    ASSUME AuditInv, UNCHANGED <<tasks, deps, answer>>, answer = <<>>,
           parent' \in [Ids -> Ids \cup {NoId}],
           color' \in [Ids -> {"white", "gray", "black"}],
           stack' \in Seq(AuditFrame),
           {i \in Ids : color'[i] = "gray"} = {stack'[k].node : k \in DOMAIN stack'},
           Tracks(color', stack'), Settled(Black(color'))
    PROVE  AuditInv'
<1>1. tasks \subseteq Ids /\ deps \in [Ids -> SUBSET Ids] /\ \A i \in Ids \ tasks : deps[i] = {}
    BY DEF AuditInv, Audit!TypeOK
<1>2. Audit!TypeOK'
    BY <1>1 DEF Audit!TypeOK, AuditFrame
<1>3. Tracks(color, stack)' /\ Settled(Black(color))'
  <2>1. Tracks(color, stack)'
    BY DEF Tracks
  <2>2. Settled(Black(color))'
    BY DEF Settled, Black
  <2>3. QED
    BY <2>1, <2>2
<1>4. QED
    BY <1>1, <1>2, <1>3 DEF AuditInv

\* A new node goes gray.
LEMMA AuditStartFrom ==
    ASSUME AuditInv, NEW root \in Ids, Audit!StartFrom(root)
    PROVE  AuditInv'
<1>1. /\ answer = <<>> /\ stack = <<>> /\ color[root] = "white"
      /\ color' = [color EXCEPT ![root] = "gray"]
      /\ stack' = <<[node |-> root, todo |-> deps[root]]>>
      /\ UNCHANGED <<tasks, deps, parent, answer>>
    BY DEF Audit!StartFrom, Audit!Frame
<1>2. /\ deps \in [Ids -> SUBSET Ids] /\ color \in [Ids -> {"white", "gray", "black"}]
      /\ parent \in [Ids -> Ids \cup {NoId}]
      /\ Settled(Black(color))
    BY <1>1 DEF AuditInv, Audit!TypeOK
<1>3. /\ DOMAIN stack' = {1} /\ stack'[1].node = root /\ stack'[1].todo = deps[root]
      /\ stack' \in Seq(AuditFrame)
    BY <1>1, <1>2 DEF AuditFrame
<1>4. Black(color') = Black(color) /\ color'[root] = "gray"
    BY <1>1, <1>2 DEF Black
<1>5. {i \in Ids : color'[i] = "gray"} = {stack'[k].node : k \in DOMAIN stack'}
  <2>1. \A i \in Ids : color[i] # "gray"
    BY <1>1, AuditFrames
  <2>2. {i \in Ids : color'[i] = "gray"} = {root}
    BY <1>1, <1>2, <2>1
  <2>3. {stack'[k].node : k \in DOMAIN stack'} = {root}
    BY <1>3
  <2>4. QED
    BY <2>2, <2>3
<1>6. Tracks(color', stack')
    BY <1>3 DEF Tracks
<1>7. color' \in [Ids -> {"white", "gray", "black"}]
    BY <1>1, <1>2
<1>8. QED
    BY <1>1, <1>2, <1>3, <1>4, <1>5, <1>6, <1>7, AuditGoesOn

\* A white dependency goes gray and gets a frame.
LEMMA AuditDescend ==
    ASSUME AuditInv, NEW d \in Ids, Audit!Descend(d)
    PROVE  AuditInv'
<1> DEFINE n == Len(stack)
           frame == [node |-> d, todo |-> deps[d]]
           adv == Audit!Advanced(d)
<1>1. /\ answer = <<>> /\ stack # <<>> /\ d \in Audit!Top.todo /\ color[d] = "white"
      /\ color' = [color EXCEPT ![d] = "gray"]
      /\ parent' = [parent EXCEPT ![d] = Audit!Top.node]
      /\ stack' = Append(adv, frame)
      /\ UNCHANGED <<tasks, deps, answer>>
    BY DEF Audit!Descend, Audit!Frame
<1>2. /\ deps \in [Ids -> SUBSET Ids] /\ color \in [Ids -> {"white", "gray", "black"}]
      /\ parent \in [Ids -> Ids \cup {NoId}]
      /\ Settled(Black(color)) /\ Tracks(color, stack)
    BY <1>1 DEF AuditInv, Audit!TypeOK
<1>3. /\ n \in Nat \ {0} /\ DOMAIN stack = 1..n
      /\ \A k \in 1..n : stack[k].node \in Ids /\ color[stack[k].node] = "gray"
      /\ Audit!Top = stack[n]
  <2>1. /\ n \in Nat /\ DOMAIN stack = 1..n
        /\ \A k \in DOMAIN stack : stack[k].node \in Ids /\ color[stack[k].node] = "gray"
    BY AuditFrames
  <2>2. n \in DOMAIN stack /\ Audit!Top = stack[n]
    BY <1>1, AuditAdvanced
  <2>3. QED
    BY <2>1, <2>2
<1>4. /\ adv \in Seq(AuditFrame) /\ Len(adv) = n
      /\ \A k \in 1..n : /\ adv[k].node = stack[k].node
                         /\ adv[k].todo = IF k = n THEN stack[k].todo \ {d} ELSE stack[k].todo
    BY <1>1, AuditAdvanced
<1>5. frame \in AuditFrame /\ frame.node = d /\ frame.todo = deps[d]
    BY <1>2 DEF AuditFrame
<1> HIDE DEF adv, frame, n
<1>6. /\ stack' \in Seq(AuditFrame) /\ DOMAIN stack' = 1..n + 1
      /\ \A k \in 1..n + 1 : stack'[k] = IF k = n + 1 THEN frame ELSE adv[k]
    BY <1>1, <1>3, <1>4, <1>5
<1>7. /\ \A k \in 1..n : /\ stack'[k].node = stack[k].node
                         /\ stack'[k].todo = IF k = n THEN stack[k].todo \ {d} ELSE stack[k].todo
      /\ stack'[n + 1].node = d /\ stack'[n + 1].todo = deps[d]
  <2>1. n + 1 \in 1..n + 1 /\ \A k \in 1..n : k \in 1..n + 1 /\ k # n + 1
    BY <1>3
  <2>2. QED
    BY <1>4, <1>5, <1>6, <2>1
<1>8. n \in 1..n /\ n + 1 \in 1..n + 1 /\ n + 1 \notin 1..n /\ 1..n + 1 = 1..n \cup {n + 1}
      /\ \A k \in 1..n : k + 1 \in 1..n + 1 /\ (k # n <=> k + 1 \in 1..n)
      /\ (n + 1) + 1 \notin 1..n + 1
    BY <1>3
<1>9. d \in deps[stack[n].node] /\ \A k \in 1..n : stack[k].node # d
    BY <1>1, <1>2, <1>3, <1>8 DEF Tracks
<1>10. Black(color') = Black(color)
    BY <1>1, <1>2 DEF Black
<1>11. Tracks(color', stack')
  <2>1. \A k \in 1..n + 1 : stack'[k].todo \subseteq deps[stack'[k].node]
    BY <1>2, <1>3, <1>7, <1>8 DEF Tracks
  <2>2. ASSUME NEW k \in 1..n + 1, NEW m \in deps[stack'[k].node] \ stack'[k].todo
        PROVE  color'[m] = "black" \/ (k + 1 \in 1..n + 1 /\ m = stack'[k + 1].node)
    <3>1. k \in 1..n /\ m \in deps[stack[k].node]
      BY <1>7, <1>8, <2>2
    <3>2. CASE k = n /\ m = d
      BY <1>7, <1>8, <3>2
    <3>3. CASE m \notin stack[k].todo
      <4>1. color[m] = "black" \/ (k + 1 \in 1..n /\ m = stack[k + 1].node)
        BY <1>2, <1>3, <3>1, <3>3 DEF Tracks
      <4>2. m \in Ids
        BY <1>2, <1>3, <3>1
      <4>3. QED
        BY <1>1, <1>2, <1>7, <1>8, <4>1, <4>2
    <3>4. QED
      BY <1>7, <2>2, <3>1, <3>2, <3>3
  <2>3. \A k \in 1..n + 1 : k + 1 \in 1..n + 1 => stack'[k + 1].node \in deps[stack'[k].node]
    <3> SUFFICES ASSUME NEW k \in 1..n + 1, k + 1 \in 1..n + 1
                 PROVE  stack'[k + 1].node \in deps[stack'[k].node]
      OBVIOUS
    <3>1. k \in 1..n
      BY <1>8
    <3>2. CASE k = n
      BY <1>7, <1>8, <1>9, <3>2
    <3>3. CASE k # n
      BY <1>2, <1>3, <1>7, <1>8, <3>1, <3>3 DEF Tracks
    <3>4. QED
      BY <3>2, <3>3
  <2>4. \A j, k \in 1..n + 1 : stack'[j].node = stack'[k].node => j = k
    BY <1>2, <1>3, <1>7, <1>8, <1>9 DEF Tracks
  <2>5. QED
    BY <1>6, <2>1, <2>2, <2>3, <2>4 DEF Tracks
<1>12. {i \in Ids : color'[i] = "gray"} = {stack'[k].node : k \in DOMAIN stack'}
  <2>1. ASSUME NEW i \in Ids, color'[i] = "gray"
        PROVE  \E k \in 1..n + 1 : stack'[k].node = i
    <3>1. i = d \/ \E k \in 1..n : stack[k].node = i
      BY <1>1, <1>2, <1>3, <2>1, AuditFrames
    <3>2. QED
      BY <1>7, <1>8, <3>1
  <2>2. ASSUME NEW k \in 1..n + 1
        PROVE  stack'[k].node \in Ids /\ color'[stack'[k].node] = "gray"
    BY <1>1, <1>2, <1>3, <1>7, <1>8
  <2>3. QED
    BY <1>6, <2>1, <2>2
<1>13. /\ color' \in [Ids -> {"white", "gray", "black"}]
       /\ parent' \in [Ids -> Ids \cup {NoId}]
    BY <1>1, <1>2, <1>3, <1>8
<1>14. QED
    BY <1>1, <1>2, <1>6, <1>10, <1>11, <1>12, <1>13, AuditGoesOn

\* A finished dependency is skipped.
LEMMA AuditCrossEdge ==
    ASSUME AuditInv, NEW d \in Ids, Audit!CrossEdge(d)
    PROVE  AuditInv'
<1> DEFINE n == Len(stack)
<1>1. /\ answer = <<>> /\ stack # <<>> /\ color[d] = "black" /\ stack' = Audit!Advanced(d)
      /\ UNCHANGED <<tasks, deps, color, parent, answer>>
    BY DEF Audit!CrossEdge
<1>2. /\ color \in [Ids -> {"white", "gray", "black"}] /\ parent \in [Ids -> Ids \cup {NoId}]
      /\ {i \in Ids : color[i] = "gray"} = {stack[k].node : k \in DOMAIN stack}
      /\ Settled(Black(color)) /\ Tracks(color, stack)
    BY <1>1 DEF AuditInv, Audit!TypeOK
<1>3. /\ DOMAIN stack = 1..n /\ stack' \in Seq(AuditFrame) /\ DOMAIN stack' = 1..n
      /\ \A k \in 1..n : /\ stack'[k].node = stack[k].node
                         /\ stack'[k].todo = IF k = n THEN stack[k].todo \ {d} ELSE stack[k].todo
    BY <1>1, AuditFrames, AuditAdvanced
<1> HIDE DEF n
<1>4. Tracks(color', stack')
  <2>1. \A k \in 1..n : stack'[k].todo \subseteq deps[stack'[k].node]
    BY <1>2, <1>3 DEF Tracks
  <2>2. ASSUME NEW k \in 1..n, NEW m \in deps[stack'[k].node] \ stack'[k].todo
        PROVE  color'[m] = "black" \/ (k + 1 \in 1..n /\ m = stack'[k + 1].node)
    <3>1. m = d \/ m \in deps[stack[k].node] \ stack[k].todo
      BY <1>3, <2>2
    <3>2. QED
      BY <1>1, <1>2, <1>3, <3>1 DEF Tracks
  <2>3. QED
    BY <1>2, <1>3, <2>1, <2>2 DEF Tracks
<1>5. {stack'[k].node : k \in DOMAIN stack'} = {stack[k].node : k \in DOMAIN stack}
    BY <1>3
<1>6. QED
    BY <1>1, <1>2, <1>3, <1>4, <1>5, AuditGoesOn

\* A node whose dependencies have all been looked at is finished.
LEMMA AuditRetreat ==
    ASSUME AuditInv, Audit!Retreat
    PROVE  AuditInv'
<1> DEFINE n == Len(stack)
           node == stack[n].node
<1>1. /\ answer = <<>> /\ stack # <<>> /\ Audit!Top.todo = {}
      /\ color' = [color EXCEPT ![Audit!Top.node] = "black"]
      /\ stack' = Audit!Front(stack)
      /\ UNCHANGED <<tasks, deps, parent, answer>>
    BY DEF Audit!Retreat, Audit!ColorFinished
<1>2. /\ deps \in [Ids -> SUBSET Ids] /\ color \in [Ids -> {"white", "gray", "black"}]
      /\ parent \in [Ids -> Ids \cup {NoId}]
      /\ Settled(Black(color)) /\ Tracks(color, stack)
    BY <1>1 DEF AuditInv, Audit!TypeOK
<1>3. /\ stack \in Seq(AuditFrame) /\ n \in Nat /\ DOMAIN stack = 1..n
      /\ \A k \in 1..n : stack[k] \in AuditFrame /\ stack[k].node \in Ids /\ color[stack[k].node] = "gray"
      /\ \A i \in Ids : color[i] = "gray" => \E k \in 1..n : stack[k].node = i
    BY AuditFrames
<1>4. n \in 1..n /\ Audit!Top = stack[n]
    BY <1>1, <1>3, AuditAdvanced
<1> HIDE DEF n
<1>5. /\ stack' \in Seq(AuditFrame) /\ DOMAIN stack' = 1..n - 1
      /\ \A k \in 1..n - 1 : stack'[k] = stack[k]
  <2>1. stack' = [k \in 1..n - 1 |-> stack[k]]
    BY <1>1, <1>3 DEF Audit!Front, n
  <2>2. n - 1 \in Nat /\ \A k \in 1..n - 1 : k \in 1..n
    BY <1>3, <1>4
  <2>3. QED
    BY <1>3, <2>1, <2>2
<1>6. /\ node \in Ids /\ color[node] = "gray" /\ stack[n].todo = {}
      /\ color' = [color EXCEPT ![node] = "black"]
    BY <1>1, <1>3, <1>4
<1>7. /\ 1..n = 1..n - 1 \cup {n} /\ n \notin 1..n - 1 /\ n + 1 \notin 1..n
      /\ \A k \in 1..n - 1 : (k + 1 \in 1..n - 1 \/ k + 1 = n) /\ k \in 1..n /\ k + 1 \in 1..n
    BY <1>3, <1>4
<1>8. deps[node] \subseteq Black(color)
    BY <1>2, <1>3, <1>4, <1>6, <1>7 DEF Tracks, Black
<1>9. \A k \in 1..n - 1 : stack[k].node # node
    BY <1>2, <1>3, <1>4, <1>7 DEF Tracks
<1> HIDE DEF node
<1>10. Black(color') = Black(color) \cup {node} /\ node \notin Black(color)
    BY <1>2, <1>6 DEF Black
<1>11. Tracks(color', stack')
  <2>1. \A k \in 1..n - 1 : stack'[k].todo \subseteq deps[stack'[k].node]
    BY <1>2, <1>3, <1>5, <1>7 DEF Tracks
  <2>2. ASSUME NEW k \in 1..n - 1, NEW m \in deps[stack'[k].node] \ stack'[k].todo
        PROVE  color'[m] = "black" \/ (k + 1 \in 1..n - 1 /\ m = stack'[k + 1].node)
    <3>1. color[m] = "black" \/ m = stack[k + 1].node
      BY <1>2, <1>3, <1>5, <1>7, <2>2 DEF Tracks
    <3>2. m \in Ids
      BY <1>2, <1>3, <1>5, <1>7, <2>2
    <3>3. CASE color[m] = "black"
      BY <1>2, <1>6, <3>2, <3>3
    <3>4. CASE m = stack[k + 1].node /\ k + 1 = n
      <4>1. m = node
        BY <3>4 DEF node
      <4>2. QED
        BY <1>2, <1>6, <4>1
    <3>5. CASE m = stack[k + 1].node /\ k + 1 \in 1..n - 1
      BY <1>5, <3>5
    <3>6. QED
      BY <1>7, <3>1, <3>3, <3>4, <3>5
  <2>3. \A k \in 1..n - 1 : k + 1 \in 1..n - 1 => stack'[k + 1].node \in deps[stack'[k].node]
    BY <1>2, <1>3, <1>5, <1>7 DEF Tracks
  <2>4. \A j, k \in 1..n - 1 : stack'[j].node = stack'[k].node => j = k
    BY <1>2, <1>3, <1>5, <1>7 DEF Tracks
  <2>5. QED
    BY <1>5, <2>1, <2>2, <2>3, <2>4 DEF Tracks
<1>12. {i \in Ids : color'[i] = "gray"} = {stack'[k].node : k \in DOMAIN stack'}
  <2>1. ASSUME NEW i \in Ids, color'[i] = "gray"
        PROVE  \E k \in 1..n - 1 : stack'[k].node = i
    <3>1. color[i] = "gray" /\ i # node
      BY <1>2, <1>6, <2>1
    <3>2. PICK k \in 1..n : stack[k].node = i
      BY <1>3, <3>1
    <3>3. k # n
      BY <3>1, <3>2 DEF node
    <3>4. QED
      BY <1>5, <1>7, <3>2, <3>3
  <2>2. ASSUME NEW k \in 1..n - 1
        PROVE  stack'[k].node \in Ids /\ color'[stack'[k].node] = "gray"
    BY <1>2, <1>3, <1>5, <1>6, <1>7, <1>9
  <2>3. QED
    BY <1>5, <2>1, <2>2
<1>13. Settled(Black(color'))
  <2> DEFINE B == Black(color)
  <2>1. /\ \A x \in B : deps[x] \subseteq B
        /\ \A S \in SUBSET B : S # {} => \E x \in S : deps[x] \cap S = {}
    BY <1>2 DEF Settled
  <2> HIDE DEF B
  <2>2. Black(color') = B \cup {node} /\ node \notin B /\ deps[node] \subseteq B
    BY <1>8, <1>10 DEF B
  <2>3. ASSUME NEW S \in SUBSET (B \cup {node}), S # {}
        PROVE  \E x \in S : deps[x] \cap S = {}
    <3>1. CASE S \cap B = {}
      <4>1. node \in S /\ deps[node] \cap S = {}
        BY <2>2, <2>3, <3>1
      <4>2. QED
        BY <4>1
    <3>2. CASE S \cap B # {}
      <4>1. S \cap B \in SUBSET B
        OBVIOUS
      <4>2. PICK x \in S \cap B : deps[x] \cap (S \cap B) = {}
        BY <2>1, <3>2, <4>1
      <4>3. deps[x] \subseteq B
        BY <2>1
      <4>4. deps[x] \cap S = {}
        BY <4>2, <4>3
      <4>5. QED
        BY <4>4
    <3>3. QED
      BY <3>1, <3>2
  <2>4. QED
    BY <2>1, <2>2, <2>3 DEF Settled
<1>14. color' \in [Ids -> {"white", "gray", "black"}]
    BY <1>2, <1>6
<1>15. QED
    BY <1>1, <1>2, <1>5, <1>11, <1>12, <1>13, <1>14, AuditGoesOn

\* A dependency that is still gray closes a cycle: the frames from its own on.
LEMMA AuditBackEdge ==
    ASSUME AuditInv, NEW d \in Ids, Audit!BackEdge(d)
    PROVE  AuditInv'
<1> DEFINE n == Len(stack)
<1>1. /\ answer = <<>> /\ stack # <<>> /\ d \in Audit!Top.todo /\ color[d] = "gray"
      /\ answer' = <<TRUE, Audit!Witness(Audit!Top.node, d)>>
      /\ stack' = Audit!Advanced(d)
      /\ UNCHANGED <<tasks, deps, color, parent>>
    BY DEF Audit!BackEdge
<1>2. /\ deps \in [Ids -> SUBSET Ids] /\ tasks \subseteq Ids
      /\ color \in [Ids -> {"white", "gray", "black"}]
      /\ parent \in [Ids -> Ids \cup {NoId}]
      /\ {i \in Ids : color[i] = "gray"} = {stack[k].node : k \in DOMAIN stack}
      /\ \A i \in Ids \ tasks : deps[i] = {}
      /\ Tracks(color, stack)
    BY <1>1 DEF AuditInv, Audit!TypeOK
<1>3. /\ n \in Nat /\ DOMAIN stack = 1..n
      /\ \A k \in 1..n : stack[k].node \in Ids
      /\ \E k \in 1..n : stack[k].node = d
    BY <1>1, AuditFrames
<1>4. /\ n \in 1..n /\ Audit!Top = stack[n]
      /\ stack' \in Seq(AuditFrame) /\ DOMAIN stack' = 1..n
      /\ \A k \in 1..n : stack'[k].node = stack[k].node
    BY <1>1, <1>3, AuditAdvanced
<1> HIDE DEF n
<1>5. d \in deps[stack[n].node]
    BY <1>1, <1>2, <1>3, <1>4 DEF Tracks
<1>6. ~IsAcyclic(deps)
  <2>1. PICK j \in 1..n : stack[j].node = d
    BY <1>3
  <2> DEFINE S == {stack[k].node : k \in j..n}
  <2>2. /\ j \in j..n /\ \A k \in j..n : k \in 1..n
        /\ \A k \in j..n : k = n \/ (k + 1 \in j..n /\ k + 1 \in 1..n)
    BY <1>3, <1>4
  <2>3. S \in SUBSET Ids /\ d \in S
    BY <1>3, <2>1, <2>2
  <2>4. ASSUME NEW x \in S
        PROVE  deps[x] \cap S # {}
    <3>1. PICK k \in j..n : x = stack[k].node
      OBVIOUS
    <3>2. CASE k = n
      BY <1>5, <2>3, <3>1, <3>2
    <3>3. CASE k # n
      <4>1. k \in 1..n /\ k + 1 \in 1..n /\ k + 1 \in j..n
        BY <2>2, <3>3
      <4>2. stack[k + 1].node \in deps[x] /\ stack[k + 1].node \in S
        BY <1>2, <1>3, <3>1, <4>1 DEF Tracks
      <4>3. QED
        BY <4>2
    <3>4. QED
      BY <3>2, <3>3
  <2> HIDE DEF S
  <2>5. S \in SUBSET DOMAIN deps /\ S # {}
    BY <1>2, <2>3
  <2>6. QED
    BY <2>4, <2>5 DEF IsAcyclic
<1>7. Audit!TypeOK'
  <2>1. {stack'[k].node : k \in DOMAIN stack'} = {stack[k].node : k \in DOMAIN stack}
    BY <1>3, <1>4
  <2>2. QED
    BY <1>1, <1>2, <1>4, <2>1 DEF Audit!TypeOK, AuditFrame
<1>8. answer' # <<>> /\ answer'[1] = TRUE
    BY <1>1
<1>9. IsAcyclic(deps)' = IsAcyclic(deps)
    BY <1>1 DEF IsAcyclic
<1>10. QED
    BY <1>1, <1>2, <1>6, <1>7, <1>8, <1>9 DEF AuditInv

\* When nothing is left to start from, every node with dependencies is finished.
LEMMA AuditConclude ==
    ASSUME AuditInv, Audit!Conclude
    PROVE  AuditInv'
<1>1. /\ answer = <<>> /\ stack = <<>> /\ \A i \in tasks : color[i] # "white"
      /\ answer' = <<FALSE, <<>>>>
      /\ UNCHANGED <<tasks, deps, color, parent, stack>>
    BY DEF Audit!Conclude
<1>2. /\ deps \in [Ids -> SUBSET Ids] /\ tasks \subseteq Ids
      /\ color \in [Ids -> {"white", "gray", "black"}]
      /\ \A i \in Ids \ tasks : deps[i] = {}
      /\ Settled(Black(color))
    BY <1>1 DEF AuditInv, Audit!TypeOK
<1>3. \A i \in Ids : color[i] # "gray"
    BY <1>1, AuditFrames
<1>4. IsAcyclic(deps)
  <2> SUFFICES ASSUME NEW S \in SUBSET Ids, S # {}
               PROVE  \E x \in S : deps[x] \cap S = {}
    BY <1>2 DEF IsAcyclic
  <2>1. CASE S \subseteq tasks
    <3>1. S \in SUBSET Black(color)
      BY <1>1, <1>2, <1>3, <2>1 DEF Black
    <3>2. QED
      BY <1>2, <3>1 DEF Settled
  <2>2. CASE ~(S \subseteq tasks)
    <3>1. PICK x \in S : x \notin tasks
      BY <2>2
    <3>2. deps[x] = {}
      BY <1>2, <3>1
    <3>3. QED
      BY <3>2
  <2>3. QED
    BY <2>1, <2>2
<1>5. answer' # <<>> /\ answer'[1] = FALSE
    BY <1>1
<1>6. IsAcyclic(deps)' = IsAcyclic(deps) /\ Audit!TypeOK' = Audit!TypeOK
    BY <1>1 DEF IsAcyclic, Audit!TypeOK
<1>7. QED
    BY <1>1, <1>4, <1>5, <1>6 DEF AuditInv

\* Every step of the audit keeps it right.
LEMMA AuditStep ==
    ASSUME AuditInv, Audit!Next
    PROVE  AuditInv'
  BY AuditStartFrom, AuditDescend, AuditBackEdge, AuditCrossEdge, AuditRetreat, AuditConclude
  DEF Audit!Next

-----------------------------------------------------------------------------
(* The witness of the edge check *)

\* What PathTo has to satisfy.
IsUp(f) ==
    f = [n \in Ids |-> IF n = dep THEN <<n>>
                       ELSE IF parent[n] = NoId THEN <<>> ELSE Append(f[parent[n]], n)]

\* A path from s to n along dependencies.
IsPath(p, s, n) ==
    /\ p \in Seq(Ids) /\ Len(p) > 0 /\ p[1] = s /\ p[Len(p)] = n
    /\ \A k \in 1..(Len(p) - 1) : p[k + 1] \in deps[p[k]]

\* Parents were visited before their children, and the parents of visited nodes lead
\* up to dep.  That PathTo is well defined is part of the invariant: every step that
\* gives nodes a parent extends it.
WitnessInv ==
    /\ \A n \in Ids : parent[n] # NoId => parent[n] \in visited /\ n \in visited
    /\ \E f : IsUp(f)
    /\ \A f : IsUp(f) => \A n \in visited : IsPath(f[n], dep, n)
    /\ Probe!WitnessClosesLoop

\* PathTo is what it has to be, if anything is.
LEMMA PathToIsUp ==
    ASSUME \E f : IsUp(f)
    PROVE  IsUp(Probe!PathTo)
<1> DEFINE Eqn(f) ==
        f = [n \in Ids |-> IF n = dep THEN <<n>>
                           ELSE IF parent[n] = NoId THEN <<>> ELSE Append(f[parent[n]], n)]
<1>1. Probe!PathTo = CHOOSE f : Eqn(f)
    BY DEF Probe!PathTo
<1>2. \E f : Eqn(f)
    BY DEF IsUp
<1> HIDE DEF Eqn
<1>3. Eqn(Probe!PathTo)
    BY <1>1, <1>2
<1>4. QED
    BY <1>3 DEF Eqn, IsUp

\* A path and one more dependency.
LEMMA PathGrows ==
    ASSUME NEW p, NEW s, NEW n, IsPath(p, s, n), NEW m \in Ids, m \in deps[n]
    PROVE  IsPath(Append(p, m), s, m)
<1>1. p \in Seq(Ids) /\ Len(p) \in Nat \ {0} /\ p[1] = s /\ p[Len(p)] = n
    BY DEF IsPath
<1>2. /\ Append(p, m) \in Seq(Ids) /\ Len(Append(p, m)) = Len(p) + 1
      /\ \A k \in 1..Len(p) : Append(p, m)[k] = p[k]
      /\ Append(p, m)[Len(p) + 1] = m
    BY <1>1
<1>3. Append(p, m)[1] = s
    BY <1>1, <1>2
<1>4. ASSUME NEW k \in 1..(Len(p) + 1 - 1)
      PROVE  Append(p, m)[k + 1] \in deps[Append(p, m)[k]]
  <2>1. CASE k = Len(p)
    BY <1>1, <1>2, <2>1
  <2>2. CASE k # Len(p)
    <3>1. k \in 1..(Len(p) - 1) /\ k \in 1..Len(p) /\ k + 1 \in 1..Len(p)
      BY <1>1, <2>2
    <3>2. p[k + 1] \in deps[p[k]]
      BY <3>1 DEF IsPath
    <3>3. QED
      BY <1>2, <3>1, <3>2
  <2>3. QED
    BY <2>1, <2>2
<1> DEFINE q == Append(p, m)
<1>5. q \in Seq(Ids) /\ Len(q) = Len(p) + 1 /\ q[1] = s /\ q[Len(q)] = m
    BY <1>2, <1>3
<1>6. \A k \in 1..(Len(q) - 1) : q[k + 1] \in deps[q[k]]
    BY <1>4, <1>5
<1> HIDE DEF q
<1>7. IsPath(q, s, m)
    BY <1>1, <1>5, <1>6 DEF IsPath
<1>8. QED
    BY <1>7 DEF q

\* The witness starts from a right state.
LEMMA WitnessInit ==
    ASSUME Probe!Init
    PROVE  WitnessInv
<1>1. /\ parent = [i \in Ids |-> NoId] /\ dep \in Ids /\ visited = {dep} /\ answer = <<>>
    BY DEF Probe!Init
<1>2. \E f : IsUp(f)
  <2>1. IsUp([n \in Ids |-> IF n = dep THEN <<n>> ELSE <<>>])
    BY <1>1 DEF IsUp
  <2>2. QED
    BY <2>1
<1>3. ASSUME NEW f, IsUp(f)
      PROVE  IsPath(f[dep], dep, dep)
  <2>1. f[dep] = <<dep>>
    BY <1>1, <1>3 DEF IsUp
  <2>2. <<dep>> \in Seq(Ids) /\ Len(<<dep>>) = 1 /\ <<dep>>[1] = dep
    BY <1>1
  <2>3. QED
    BY <2>1, <2>2 DEF IsPath
<1>4. QED
    BY <1>1, <1>2, <1>3 DEF WitnessInv, Probe!WitnessClosesLoop

\* Expanding a node gives its fresh dependencies a path.
LEMMA WitnessExpand ==
    ASSUME ProbeInv, WitnessInv, Probe!Expand
    PROVE  WitnessInv'
<1> DEFINE node == Head(queue)
           fresh == deps[node] \ visited
<1>1. /\ deps \in [Ids -> SUBSET Ids] /\ dep \in Ids /\ visited \subseteq Ids /\ queue \in Seq(Ids)
      /\ parent \in [Ids -> Ids \cup {NoId}] /\ dep \in visited
      /\ \A k \in DOMAIN queue : queue[k] \in visited
    BY DEF ProbeInv, Probe!TypeOK
<1>2. /\ answer = <<>> /\ queue # <<>>
      /\ visited' = visited \cup fresh
      /\ parent' = [i \in Ids |-> IF i \in fresh THEN node ELSE parent[i]]
      /\ UNCHANGED <<deps, task, dep, answer>>
    BY DEF Probe!Expand, Probe!Fresh, Probe!Seen
<1>3. node \in visited /\ node \in Ids
  <2>1. DOMAIN queue = 1..Len(queue) /\ 1 \in DOMAIN queue /\ node = queue[1]
    BY <1>1, <1>2
  <2>2. QED
    BY <1>1, <2>1
<1>4. fresh \subseteq deps[node] /\ fresh \subseteq Ids /\ fresh \cap visited = {}
    BY <1>1, <1>3
<1> HIDE DEF node, fresh
<1>5. /\ \A n \in Ids : parent[n] # NoId => parent[n] \in visited /\ n \in visited
      /\ \A n \in fresh : parent[n] = NoId /\ parent'[n] = node /\ n # dep
      /\ \A n \in Ids \ fresh : parent'[n] = parent[n]
      /\ node # NoId
    BY <1>1, <1>2, <1>3, <1>4, AgnesWalksAssumption DEF WitnessInv
<1>6. \E f : IsUp(f)'
  <2>1. PICK f : IsUp(f)
    BY DEF WitnessInv
  <2> DEFINE g == [n \in Ids |-> IF n \in fresh THEN Append(f[node], n) ELSE f[n]]
  <2>2. ASSUME NEW n \in Ids
        PROVE  g[n] = IF n = dep THEN <<n>>
                      ELSE IF parent'[n] = NoId THEN <<>> ELSE Append(g[parent'[n]], n)
    <3>1. f[n] = IF n = dep THEN <<n>>
                 ELSE IF parent[n] = NoId THEN <<>> ELSE Append(f[parent[n]], n)
      BY <2>1 DEF IsUp
    <3>2. CASE n \in fresh
      <4>1. g[node] = f[node] /\ g[n] = Append(f[node], n)
        BY <1>3, <1>4, <3>2
      <4>2. QED
        BY <1>5, <3>2, <4>1
    <3>3. CASE n \notin fresh
      <4>1. parent[n] # NoId => g[parent[n]] = f[parent[n]]
        BY <1>1, <1>4, <1>5
      <4>2. g[n] = f[n]
        BY <3>3
      <4> HIDE DEF g
      <4>3. QED
        BY <1>5, <3>1, <3>3, <4>1, <4>2
    <3>4. QED
      BY <3>2, <3>3
  <2>3. g = [n \in Ids |-> g[n]]
    OBVIOUS
  <2> HIDE DEF g
  <2>4. PICK h : h = g
    OBVIOUS
  <2>5. IsUp(h)'
    BY <1>2, <2>2, <2>3, <2>4 DEF IsUp
  <2>6. QED
    BY <2>5
<1>7. ASSUME NEW f, IsUp(f)'
      PROVE  \A n \in visited' : IsPath(f[n], dep, n)'
  <2> DEFINE g == [n \in Ids |-> IF n \in fresh THEN <<>> ELSE f[n]]
  <2>1. \A n \in Ids : f[n] = IF n = dep THEN <<n>>
                              ELSE IF parent'[n] = NoId THEN <<>> ELSE Append(f[parent'[n]], n)
    BY <1>2, <1>7 DEF IsUp
  <2>2. ASSUME NEW n \in Ids
        PROVE  g[n] = IF n = dep THEN <<n>>
                      ELSE IF parent[n] = NoId THEN <<>> ELSE Append(g[parent[n]], n)
    <3>1. CASE n \in fresh
      BY <1>5, <3>1
    <3>2. CASE n \notin fresh
      <4>1. parent[n] # NoId => g[parent[n]] = f[parent[n]]
        BY <1>1, <1>4, <1>5
      <4>2. g[n] = f[n]
        BY <3>2
      <4> HIDE DEF g
      <4>3. QED
        BY <1>5, <2>1, <3>2, <4>1, <4>2
    <3>3. QED
      BY <3>1, <3>2
  <2>3. g = [n \in Ids |-> g[n]]
    OBVIOUS
  <2>4. \A n \in visited : g[n] = f[n]
    BY <1>1, <1>4
  <2> HIDE DEF g
  <2>5. IsUp(g)
    BY <2>2, <2>3 DEF IsUp
  <2>6. \A n \in visited : IsPath(f[n], dep, n)
    BY <2>4, <2>5 DEF WitnessInv
  <2>7. ASSUME NEW n \in fresh
        PROVE  IsPath(f[n], dep, n)
    <3>1. f[n] = Append(f[node], n) /\ n \in deps[node] /\ n \in Ids
      BY <1>4, <1>5, <2>1
    <3>2. QED
      BY <1>3, <2>6, <3>1, PathGrows
  <2>8. QED
    BY <1>2, <2>6, <2>7 DEF IsPath
<1>8. Probe!WitnessClosesLoop'
    BY <1>2 DEF Probe!WitnessClosesLoop
<1>9. \A n \in Ids : parent'[n] # NoId => parent'[n] \in visited' /\ n \in visited'
    BY <1>2, <1>3, <1>5
<1>10. QED
    BY <1>6, <1>7, <1>8, <1>9 DEF WitnessInv

\* What a step that gives nobody a parent has to show.
LEMMA WitnessStays ==
    ASSUME WitnessInv, UNCHANGED <<deps, dep, visited, parent>>, Probe!WitnessClosesLoop'
    PROVE  WitnessInv'
  BY DEF WitnessInv, IsUp, IsPath

\* When the task is found its path is one, and closed by dep a loop.
LEMMA WitnessFindTask ==
    ASSUME ProbeInv, WitnessInv, Probe!FindTask
    PROVE  WitnessInv'
<1> DEFINE p == Probe!PathTo[task]
           n == Len(p)
<1>1. /\ answer' = <<TRUE, Probe!Witness>> /\ queue # <<>> /\ Head(queue) = task
      /\ UNCHANGED <<deps, task, dep, visited, queue, parent>>
    BY DEF Probe!FindTask
<1>2. task \in visited
  <2>1. queue \in Seq(Ids) /\ \A k \in DOMAIN queue : queue[k] \in visited
    BY DEF ProbeInv, Probe!TypeOK
  <2>2. DOMAIN queue = 1..Len(queue) /\ 1 \in DOMAIN queue /\ Head(queue) = queue[1]
    BY <1>1, <2>1
  <2>3. QED
    BY <1>1, <2>1, <2>2
<1>3. IsPath(p, dep, task)
  <2>1. IsUp(Probe!PathTo)
    BY PathToIsUp DEF WitnessInv
  <2>2. QED
    BY <1>2, <2>1 DEF WitnessInv
<1>4. Probe!Witness = IF p # <<>> /\ Head(p) = dep THEN Append(p, dep) ELSE <<dep, task>>
    BY DEF Probe!Witness
<1> HIDE DEF p
<1>5. /\ p \in Seq(Ids) /\ n \in Nat \ {0} /\ p[1] = dep /\ p[n] = task
      /\ \A k \in 1..(n - 1) : p[k + 1] \in deps[p[k]]
    BY <1>3 DEF IsPath
<1>6. p # <<>> /\ Head(p) = dep /\ Probe!Witness = Append(p, dep)
    BY <1>4, <1>5
<1>7. dep \in Ids
    BY DEF ProbeInv, Probe!TypeOK
<1>8. /\ Len(Append(p, dep)) = n + 1 /\ Append(p, dep)[n + 1] = dep
      /\ \A k \in 1..n : Append(p, dep)[k] = p[k]
    BY <1>5, <1>7
<1> HIDE DEF n
<1>9. Probe!WitnessClosesLoop'
  <2> DEFINE w == Append(p, dep)
  <2>1. answer'[2] = w
    BY <1>1, <1>6
  <2>2. /\ Len(w) = n + 1 /\ n + 1 > 1 /\ (n + 1) - 1 = n /\ 1 \in 1..n /\ n \in 1..n
        /\ w[1] = dep /\ w[n + 1] = dep /\ w[n] = task
    BY <1>5, <1>8
  <2>3. \A k \in 1..((n + 1) - 2) : k \in 1..(n - 1) /\ k \in 1..n /\ k + 1 \in 1..n
    BY <1>5
  <2>4. \A k \in 1..((n + 1) - 2) : w[k + 1] \in deps[w[k]]
    BY <1>5, <1>8, <2>3
  <2> HIDE DEF w
  <2>5. QED
    BY <1>1, <2>1, <2>2, <2>4 DEF Probe!WitnessClosesLoop
<1>10. QED
    BY <1>1, <1>9, WitnessStays

\* Every step of the search keeps its witness right.
LEMMA WitnessStep ==
    ASSUME ProbeInv, WitnessInv, Probe!Next
    PROVE  WitnessInv'
<1>1. CASE Probe!Exhaust
  <2>1. answer' = <<FALSE, <<>>>> /\ UNCHANGED <<deps, task, dep, visited, queue, parent>>
    BY <1>1 DEF Probe!Exhaust
  <2>2. Probe!WitnessClosesLoop'
    BY <2>1 DEF Probe!WitnessClosesLoop
  <2>3. QED
    BY <2>1, <2>2, WitnessStays
<1>2. QED
    BY <1>1, WitnessExpand, WitnessFindTask DEF Probe!Next

-----------------------------------------------------------------------------
(* The witness of the audit *)

\* What the chains up to the ancestor a have to satisfy.
IsChain(f, a) ==
    f = [n \in Ids |-> IF n = a THEN <<n>>
                       ELSE IF parent[n] = NoId THEN <<>> ELSE Append(f[parent[n]], n)]

\* Parents are visited nodes, and the parent of a frame's node is that of the frame
\* under it.  The chains are well defined: a node is visited after its parent.
ChainInv ==
    /\ \A n \in Ids : parent[n] # NoId => color[parent[n]] # "white" /\ color[n] # "white"
    /\ answer = <<>> =>
          \A k \in DOMAIN stack : k + 1 \in DOMAIN stack => parent[stack[k + 1].node] = stack[k].node
    /\ \A a \in Ids : \E f : IsChain(f, a)
    /\ Audit!WitnessIsCycle

\* Chain(a) is what it has to be, if anything is.
LEMMA ChainIsChain ==
    ASSUME NEW a, \E f : IsChain(f, a)
    PROVE  IsChain(Audit!Chain(a), a)
<1> DEFINE Eqn(f) ==
        f = [n \in Ids |-> IF n = a THEN <<n>>
                           ELSE IF parent[n] = NoId THEN <<>> ELSE Append(f[parent[n]], n)]
<1>1. Audit!Chain(a) = CHOOSE f : Eqn(f)
    BY DEF Audit!Chain
<1>2. \E f : Eqn(f)
    BY DEF IsChain
<1> HIDE DEF Eqn
<1>3. Eqn(Audit!Chain(a))
    BY <1>1, <1>2
<1>4. QED
    BY <1>3 DEF Eqn, IsChain

\* The witness of the audit starts from a right state.
LEMMA ChainInit ==
    ASSUME Audit!Init
    PROVE  ChainInv
<1>1. parent = [i \in Ids |-> NoId] /\ stack = <<>> /\ answer = <<>> /\ DOMAIN stack = {}
    BY DEF Audit!Init
<1>2. ASSUME NEW a \in Ids
      PROVE  \E f : IsChain(f, a)
  <2>1. IsChain([n \in Ids |-> IF n = a THEN <<n>> ELSE <<>>], a)
    BY <1>1 DEF IsChain
  <2>2. QED
    BY <2>1
<1>3. QED
    BY <1>1, <1>2 DEF ChainInv, Audit!WitnessIsCycle

\* Visiting a white node extends the chains.
LEMMA ChainDescend ==
    ASSUME AuditInv, ChainInv, NEW d \in Ids, Audit!Descend(d)
    PROVE  ChainInv'
<1> DEFINE n == Len(stack)
           top == stack[n].node
           adv == Audit!Advanced(d)
           frame == [node |-> d, todo |-> deps[d]]
<1>1. /\ answer = <<>> /\ stack # <<>> /\ color[d] = "white"
      /\ color' = [color EXCEPT ![d] = "gray"]
      /\ parent' = [parent EXCEPT ![d] = Audit!Top.node]
      /\ stack' = Append(adv, frame)
      /\ UNCHANGED <<tasks, deps, answer>>
    BY DEF Audit!Descend, Audit!Frame
<1>2. /\ deps \in [Ids -> SUBSET Ids]
      /\ color \in [Ids -> {"white", "gray", "black"}] /\ parent \in [Ids -> Ids \cup {NoId}]
    BY <1>1 DEF AuditInv, Audit!TypeOK
<1>3. n \in Nat /\ DOMAIN stack = 1..n /\ \A k \in 1..n : stack[k].node \in Ids /\ color[stack[k].node] = "gray"
    BY AuditFrames
<1>4. /\ n \in 1..n /\ Audit!Top = stack[n]
      /\ adv \in Seq(AuditFrame) /\ Len(adv) = n
      /\ \A k \in 1..n : adv[k].node = stack[k].node
    BY <1>1, <1>3, AuditAdvanced
<1>5. frame \in AuditFrame /\ frame.node = d
    BY <1>2 DEF AuditFrame
<1> HIDE DEF n, adv, frame
<1>6. DOMAIN stack' = 1..n + 1 /\ \A k \in 1..n + 1 : stack'[k] = IF k = n + 1 THEN frame ELSE adv[k]
    BY <1>1, <1>3, <1>4, <1>5
<1>7. /\ \A k \in 1..n : k \in 1..n + 1 /\ k # n + 1 /\ stack'[k].node = stack[k].node
      /\ stack'[n + 1].node = d
      /\ \A k \in 1..n + 1 : k + 1 \in 1..n + 1 => k \in 1..n /\ (k + 1 \in 1..n \/ k = n)
  <2>1. /\ \A k \in 1..n : k \in 1..n + 1 /\ k # n + 1
        /\ n + 1 \in 1..n + 1
        /\ \A k \in 1..n + 1 : k + 1 \in 1..n + 1 => k \in 1..n /\ (k + 1 \in 1..n \/ k = n)
    BY <1>3
  <2>2. QED
    BY <1>4, <1>5, <1>6, <2>1
<1>8. /\ top \in Ids /\ color[top] = "gray" /\ top # NoId /\ d # top
      /\ parent' = [parent EXCEPT ![d] = top]
      /\ \A k \in 1..n : stack[k].node # d
    BY <1>1, <1>3, <1>4, AgnesWalksAssumption
<1> HIDE DEF top
<1>9. /\ parent[d] = NoId
      /\ \A i \in Ids : parent[i] # d /\ (i # d => parent'[i] = parent[i])
      /\ parent'[d] = top
  <2>1. \A i \in Ids : parent[i] # NoId => color[parent[i]] # "white" /\ color[i] # "white"
    BY DEF ChainInv
  <2>2. d # NoId
    BY AgnesWalksAssumption
  <2>3. QED
    BY <1>1, <1>2, <1>8, <2>1, <2>2
<1>10. ASSUME NEW a \in Ids
       PROVE  \E f : IsChain(f, a)'
  <2>1. PICK f : IsChain(f, a)
    BY DEF ChainInv
  <2> DEFINE g == [i \in Ids |-> IF i = d /\ i # a THEN Append(f[top], d) ELSE f[i]]
  <2>2. ASSUME NEW i \in Ids
        PROVE  g[i] = IF i = a THEN <<i>>
                      ELSE IF parent'[i] = NoId THEN <<>> ELSE Append(g[parent'[i]], i)
    <3>1. f[i] = IF i = a THEN <<i>>
                 ELSE IF parent[i] = NoId THEN <<>> ELSE Append(f[parent[i]], i)
      BY <2>1 DEF IsChain
    <3>2. CASE i = d /\ i # a
      <4>1. g[top] = f[top] /\ g[i] = Append(f[top], d)
        BY <1>8, <3>2
      <4> HIDE DEF g
      <4>2. QED
        BY <1>8, <1>9, <3>2, <4>1
    <3>3. CASE i = a
      <4>1. g[i] = f[i]
        BY <3>3
      <4> HIDE DEF g
      <4>2. QED
        BY <3>1, <3>3, <4>1
    <3>4. CASE i # d /\ i # a
      <4>1. parent[i] # NoId => g[parent[i]] = f[parent[i]]
        BY <1>2, <1>9
      <4>2. g[i] = f[i]
        BY <3>4
      <4> HIDE DEF g
      <4>3. QED
        BY <1>9, <3>1, <3>4, <4>1, <4>2
    <3>5. QED
      BY <3>2, <3>3, <3>4
  <2>3. g = [i \in Ids |-> g[i]]
    OBVIOUS
  <2> HIDE DEF g
  <2>4. PICK h : h = g
    OBVIOUS
  <2>5. IsChain(h, a)'
    BY <2>2, <2>3, <2>4 DEF IsChain
  <2>6. QED
    BY <2>5
<1>11. \A i \in Ids : parent'[i] # NoId => color'[parent'[i]] # "white" /\ color'[i] # "white"
    BY <1>1, <1>2, <1>8, <1>9 DEF ChainInv
<1>12. ASSUME NEW k \in 1..n + 1, k + 1 \in 1..n + 1
       PROVE  parent'[stack'[k + 1].node] = stack'[k].node
  <2>1. CASE k = n
    BY <1>3, <1>4, <1>7, <1>9, <2>1 DEF top
  <2>2. CASE k # n
    <3>1. k \in 1..n /\ k + 1 \in 1..n
      BY <1>7, <1>12, <2>2
    <3>2. parent[stack[k + 1].node] = stack[k].node
      BY <1>1, <1>3, <3>1 DEF ChainInv
    <3>3. QED
      BY <1>3, <1>7, <1>8, <1>9, <3>1, <3>2
  <2>3. QED
    BY <2>1, <2>2
<1>13. Audit!WitnessIsCycle'
    BY <1>1 DEF Audit!WitnessIsCycle
<1>14. QED
    BY <1>6, <1>10, <1>11, <1>12, <1>13 DEF ChainInv

\* What a step that gives nobody a parent has to show.
LEMMA ChainStays ==
    ASSUME ChainInv, UNCHANGED parent,
           \A n \in Ids : color[n] # "white" => color'[n] # "white",
           parent \in [Ids -> Ids \cup {NoId}],
           answer' = <<>> =>
              \A k \in DOMAIN stack' : k + 1 \in DOMAIN stack' =>
                    parent[stack'[k + 1].node] = stack'[k].node,
           Audit!WitnessIsCycle'
    PROVE  ChainInv'
<1>1. \A n \in Ids : parent'[n] # NoId => color'[parent'[n]] # "white" /\ color'[n] # "white"
    BY DEF ChainInv
<1>2. \A a \in Ids : \E f : IsChain(f, a)'
    BY DEF ChainInv, IsChain
<1>3. QED
    BY <1>1, <1>2 DEF ChainInv

\* The chain from a gray dependency up the frames, closed, is the cycle.
LEMMA ChainBackEdge ==
    ASSUME AuditInv, ChainInv, NEW d \in Ids, Audit!BackEdge(d)
    PROVE  ChainInv'
<1> DEFINE n == Len(stack)
           f == Audit!Chain(d)
           p == f[stack[n].node]
<1>1. /\ answer = <<>> /\ stack # <<>> /\ d \in Audit!Top.todo /\ color[d] = "gray"
      /\ answer' = <<TRUE, Audit!Witness(Audit!Top.node, d)>>
      /\ UNCHANGED <<tasks, deps, color, parent>>
    BY DEF Audit!BackEdge
<1>2. /\ deps \in [Ids -> SUBSET Ids] /\ parent \in [Ids -> Ids \cup {NoId}]
      /\ Tracks(color, stack)
    BY <1>1 DEF AuditInv, Audit!TypeOK
<1>3. /\ n \in Nat /\ DOMAIN stack = 1..n
      /\ \A k \in 1..n : stack[k].node \in Ids
      /\ \E k \in 1..n : stack[k].node = d
    BY <1>1, AuditFrames
<1>4. n \in 1..n /\ Audit!Top = stack[n] /\ d \in deps[stack[n].node]
  <2>1. n \in 1..n /\ Audit!Top = stack[n]
    BY <1>1, <1>3, AuditAdvanced
  <2>2. QED
    BY <1>1, <1>2, <1>3, <2>1 DEF Tracks
<1>5. \A i \in Ids : f[i] = IF i = d THEN <<i>>
                            ELSE IF parent[i] = NoId THEN <<>> ELSE Append(f[parent[i]], i)
  <2>1. IsChain(f, d)
    BY ChainIsChain DEF ChainInv
  <2>2. QED
    BY <2>1 DEF IsChain
<1> HIDE DEF f, n
<1>6. IsPath(p, d, stack[n].node)
  <2>1. PICK j \in 1..n : stack[j].node = d
    BY <1>3
  <2> DEFINE Wrong == {k \in j..n : ~IsPath(f[stack[k].node], d, stack[k].node)}
  <2>2. SUFFICES ASSUME Wrong # {} PROVE FALSE
    BY <1>4
  <2>3. Wrong \in SUBSET Nat
    BY <2>1
  <2>4. PICK m \in Wrong : \A k \in Wrong : m <= k
    BY <2>2, <2>3, LeastNumber
  <2>5. m \in j..n /\ m \in 1..n /\ ~IsPath(f[stack[m].node], d, stack[m].node)
    BY <2>1, <1>3, <2>4
  <2>6. m # j
    <3>1. f[d] = <<d>>
      BY <1>5
    <3>2. <<d>> \in Seq(Ids) /\ Len(<<d>>) = 1 /\ <<d>>[1] = d
      OBVIOUS
    <3>3. IsPath(f[d], d, d)
      BY <3>1, <3>2 DEF IsPath
    <3>4. QED
      BY <2>1, <2>5, <3>3
  <2>7. m - 1 \in j..n /\ m - 1 \in 1..n /\ m - 1 < m /\ (m - 1) + 1 = m
    BY <1>3, <2>1, <2>5, <2>6
  <2>8. IsPath(f[stack[m - 1].node], d, stack[m - 1].node)
    <3>1. m - 1 \notin Wrong
      BY <2>3, <2>4, <2>7
    <3>2. QED
      BY <2>7, <3>1
  <2>9. /\ stack[m].node \in deps[stack[m - 1].node] /\ parent[stack[m].node] = stack[m - 1].node
        /\ stack[m].node # d /\ stack[m].node \in Ids /\ stack[m - 1].node \in Ids
    BY <1>1, <1>2, <1>3, <2>1, <2>5, <2>6, <2>7 DEF Tracks, ChainInv
  <2>10. f[stack[m].node] = Append(f[stack[m - 1].node], stack[m].node)
    BY <1>5, <2>9, AgnesWalksAssumption
  <2>11. QED
    BY <2>5, <2>8, <2>9, <2>10, PathGrows
<1>7. Audit!Witness(Audit!Top.node, d) =
          IF p # <<>> /\ Head(p) = d THEN Append(p, d) ELSE <<Audit!Top.node, d>>
    BY <1>4 DEF Audit!Witness, f
<1> HIDE DEF p
<1>8. p \in Seq(Ids) /\ Len(p) \in Nat \ {0} /\ p[1] = d
    BY <1>6 DEF IsPath
<1>9. p # <<>> /\ Head(p) = d /\ Len(Append(p, d)) = Len(p) + 1
    BY <1>8
<1>10. IsPath(Append(p, d), d, d)
    BY <1>4, <1>6, PathGrows
<1>11. Audit!WitnessIsCycle'
  <2> DEFINE w == Append(p, d)
  <2>1. answer'[2] = w
    BY <1>1, <1>7, <1>9
  <2>2. Len(w) > 1
    BY <1>8, <1>9
  <2>3. w[1] = w[Len(w)] /\ \A k \in 1..(Len(w) - 1) : w[k + 1] \in deps[w[k]]
    BY <1>10 DEF IsPath
  <2> HIDE DEF w
  <2>4. QED
    BY <1>1, <2>1, <2>2, <2>3 DEF Audit!WitnessIsCycle
<1>12. answer' # <<>>
    BY <1>1
<1>13. QED
    BY <1>1, <1>2, <1>11, <1>12, ChainStays

\* Every step of the audit keeps its witness right.
LEMMA ChainStep ==
    ASSUME AuditInv, ChainInv, Audit!Next
    PROVE  ChainInv'
<1>1. /\ parent \in [Ids -> Ids \cup {NoId}] /\ color \in [Ids -> {"white", "gray", "black"}]
      /\ DOMAIN stack = 1..Len(stack) /\ Len(stack) \in Nat
      /\ stack \in Seq(AuditFrame) /\ \A k \in 1..Len(stack) : stack[k].node \in Ids
    BY AuditFrames DEF AuditInv, Audit!TypeOK
<1>2. ASSUME NEW root \in Ids, Audit!StartFrom(root)
      PROVE  ChainInv'
  <2>1. /\ answer = <<>> /\ answer' = <<>> /\ UNCHANGED parent
        /\ color' = [color EXCEPT ![root] = "gray"]
        /\ stack' = <<[node |-> root, todo |-> deps[root]]>>
    BY <1>2 DEF Audit!StartFrom, Audit!Frame
  <2>2. DOMAIN stack' = {1} /\ 1 + 1 \notin DOMAIN stack'
    BY <2>1
  <2>3. Audit!WitnessIsCycle'
    BY <2>1 DEF Audit!WitnessIsCycle
  <2>4. \A i \in Ids : color[i] # "white" => color'[i] # "white"
    BY <1>1, <2>1
  <2>5. QED
    BY <1>1, <2>1, <2>2, <2>3, <2>4, ChainStays
<1>3. ASSUME NEW d \in Ids, Audit!CrossEdge(d)
      PROVE  ChainInv'
  <2>1. /\ answer = <<>> /\ answer' = <<>> /\ UNCHANGED <<parent, color>> /\ stack # <<>>
        /\ stack' = Audit!Advanced(d)
    BY <1>3 DEF Audit!CrossEdge
  <2>2. DOMAIN stack' = 1..Len(stack) /\ \A k \in 1..Len(stack) : stack'[k].node = stack[k].node
    BY <2>1, AuditAdvanced
  <2>3. Audit!WitnessIsCycle'
    BY <2>1 DEF Audit!WitnessIsCycle
  <2>4. \A k \in DOMAIN stack' : k + 1 \in DOMAIN stack' =>
              parent[stack'[k + 1].node] = stack'[k].node
    BY <1>1, <2>1, <2>2 DEF ChainInv
  <2>5. QED
    BY <1>1, <2>1, <2>3, <2>4, ChainStays
<1>4. CASE Audit!Retreat
  <2>1. /\ answer = <<>> /\ answer' = <<>> /\ UNCHANGED parent /\ stack # <<>>
        /\ color' = [color EXCEPT ![Audit!Top.node] = "black"]
        /\ stack' = [k \in 1..Len(stack) - 1 |-> stack[k]]
    BY <1>1, <1>4 DEF Audit!Retreat, Audit!Front, Audit!ColorFinished
  <2>2. /\ DOMAIN stack' = 1..Len(stack) - 1
        /\ \A k \in 1..Len(stack) - 1 : stack'[k] = stack[k] /\ k \in 1..Len(stack)
    BY <1>1, <2>1
  <2>3. Audit!WitnessIsCycle'
    BY <2>1 DEF Audit!WitnessIsCycle
  <2>4. \A i \in Ids : color[i] # "white" => color'[i] # "white"
    BY <1>1, <2>1
  <2>5. \A k \in DOMAIN stack' : k + 1 \in DOMAIN stack' =>
              parent[stack'[k + 1].node] = stack'[k].node
    BY <1>1, <2>1, <2>2 DEF ChainInv
  <2>6. QED
    BY <1>1, <2>1, <2>3, <2>4, <2>5, ChainStays
<1>5. CASE Audit!Conclude
  <2>1. answer' = <<FALSE, <<>>>> /\ UNCHANGED <<parent, color, stack>>
    BY <1>5 DEF Audit!Conclude
  <2>2. answer' # <<>> /\ answer'[1] = FALSE
    BY <2>1
  <2>3. Audit!WitnessIsCycle'
    BY <2>2 DEF Audit!WitnessIsCycle
  <2>4. QED
    BY <1>1, <2>1, <2>2, <2>3, ChainStays
<1>6. QED
    BY <1>2, <1>3, <1>4, <1>5, ChainDescend, ChainBackEdge DEF Audit!Next

-----------------------------------------------------------------------------
(* The theorems *)

\* What the walk of a behaviour has done so far is right.
WalksInv ==
    /\ walk = "probe" => ProbeInv /\ WitnessInv
    /\ walk = "audit" => AuditInv /\ ChainInv
    /\ walk = "propagation" => PropagationInv
    /\ walk \in {"probe", "audit", "propagation"}

\* Each walk starts right, and each of its steps keeps it right.
LEMMA WalksInvInductive ==
    /\ Init => WalksInv
    /\ WalksInv /\ [Next]_vars => WalksInv'
<1>1. ASSUME Init PROVE WalksInv
    BY <1>1, ProbeInit, WitnessInit, AuditInit, ChainInit, PropagationInit DEF Init, WalksInv
<1>2. ASSUME WalksInv, Next PROVE WalksInv'
    BY <1>2, ProbeStep, WitnessStep, AuditStep, ChainStep, PropagationVisit DEF Next, WalksInv
<1>3. ASSUME WalksInv, UNCHANGED vars PROVE WalksInv'
  <2>1. /\ UNCHANGED <<walk, deps, parent, answer, visited, queue, task, dep>>
        /\ UNCHANGED <<tasks, color, stack, before, dependents, origin, status, marked>>
    BY <1>3 DEF vars, probeVars, auditVars, propagationVars, graphVars, queueVars
  <2>2. ProbeInv' = ProbeInv
    BY <2>1 DEF ProbeInv, Probe!TypeOK, Distinct, Members
  <2>3. WitnessInv => WitnessInv'
    <3>1. Probe!WitnessClosesLoop' = Probe!WitnessClosesLoop
      BY <2>1 DEF Probe!WitnessClosesLoop
    <3>2. QED
      BY <2>1, <3>1, WitnessStays DEF WitnessInv
  <2>4. AuditInv' = AuditInv
    BY <2>1 DEF AuditInv, Audit!TypeOK, Tracks, Settled, Black, IsAcyclic
  <2>5. AuditInv /\ ChainInv => ChainInv'
    <3>1. Audit!WitnessIsCycle' = Audit!WitnessIsCycle
      BY <2>1 DEF Audit!WitnessIsCycle
    <3>2. ASSUME AuditInv, ChainInv
          PROVE  ChainInv'
      <4>1. parent \in [Ids -> Ids \cup {NoId}]
        BY <3>2 DEF AuditInv, Audit!TypeOK
      <4>2. answer' = <<>> =>
              \A k \in DOMAIN stack' : k + 1 \in DOMAIN stack' =>
                    parent[stack'[k + 1].node] = stack'[k].node
        BY <2>1, <3>2 DEF ChainInv
      <4>3. Audit!WitnessIsCycle'
        BY <3>1, <3>2 DEF ChainInv
      <4>4. QED
        BY <2>1, <3>2, <4>1, <4>2, <4>3, ChainStays
    <3>3. QED
      BY <3>2
  <2>6. PropagationInv' = PropagationInv
    BY <2>1 DEF PropagationInv, Propagation!TypeOK, Distinct, Members, Onward,
                Propagation!Onward, Propagation!Fail
  <2>7. QED
    BY <1>3, <2>1, <2>2, <2>3, <2>4, <2>5, <2>6 DEF WalksInv
<1>4. QED
    BY <1>1, <1>2, <1>3

\* What the walks work on has its type, and what is queued was visited.
THEOREM TypeCorrect == Spec => []TypeOK
<1>1. WalksInv => TypeOK
    BY DEF WalksInv, TypeOK, ProbeInv, AuditInv, PropagationInv
<1>2. QED
    BY <1>1, WalksInvInductive, PTL DEF Spec

\* The edge check (_wouldCreateCycle, _witnessPath) answers whether the dependency
\* reaches the task, so whether the edge would close a loop, and names that loop.
THEOREM EdgeCheckSound == Spec => []EdgeCheckIsRight
<1>1. WalksInv => EdgeCheckIsRight
    BY ProbeRight DEF WalksInv, EdgeCheckIsRight, WitnessInv
<1>2. QED
    BY <1>1, WalksInvInductive, PTL DEF Spec

\* The audit (hasCycle) reports a cycle exactly when the graph has one, and the
\* cycle it reports is one.
THEOREM AuditSound == Spec => []AuditIsRight
<1>1. AuditInv => Audit!VerdictIsRight
  <2>1. ASSUME AuditInv
        PROVE  answer # <<>> => (answer[1] <=> ~IsAcyclic(deps))
    BY <2>1 DEF AuditInv
  <2>2. Audit!IsAcyclic(deps) = IsAcyclic(deps)
    BY AuditWords
  <2>3. QED
    BY <2>1, <2>2 DEF Audit!VerdictIsRight
<1>2. WalksInv => AuditIsRight
    BY <1>1 DEF WalksInv, AuditIsRight, ChainInv
<1>3. QED
    BY <1>2, WalksInvInductive, PTL DEF Spec

\* The propagation (_propagateFailure) fails exactly the tasks that the statuses it
\* started from make victims, although it decides by statuses it is changing.
THEOREM PropagationSound == Spec => []PropagationIsRight
<1>1. WalksInv => PropagationIsRight
    BY PropagationRight DEF WalksInv, PropagationIsRight
<1>2. QED
    BY <1>1, WalksInvInductive, PTL DEF Spec
=============================================================================
