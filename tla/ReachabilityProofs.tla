------------------------- MODULE ReachabilityProofs -------------------------
(***************************************************************************)
(* What every use of Reachability rests on: the reachable set is the least *)
(* closed one, and new edges out of a node close a cycle if and only if    *)
(* the end of one of them reaches the node.  And the least-number          *)
(* principle for a set of numbers, which stands for induction: a recursion *)
(* is right if there is no least number at which it is wrong.              *)
(***************************************************************************)
EXTENDS Reachability, FiniteSetTheorems, TLAPS

\* A walk visits where it starts.
LEMMA ReachContains ==
    ASSUME NEW N, NEW succ \in [N -> SUBSET N], NEW from \in SUBSET N
    PROVE  from \subseteq ReachableFrom(succ, from)
  BY DEF ReachableFrom

\* A walk visits the successors of what it visits.
LEMMA ReachClosed ==
    ASSUME NEW N, NEW succ \in [N -> SUBSET N], NEW from \in SUBSET N
    PROVE  ClosedUnder(succ, ReachableFrom(succ, from))
<1> SUFFICES ASSUME NEW n \in ReachableFrom(succ, from), NEW m \in succ[n],
                    NEW S \in SUBSET N, from \subseteq S, ClosedUnder(succ, S)
             PROVE  m \in N /\ m \in S
    BY DEF ReachableFrom, ClosedUnder
<1>1. n \in N /\ n \in S
    BY DEF ReachableFrom
<1>2. QED
    BY <1>1 DEF ClosedUnder

\* A walk visits nothing outside a closed set that holds its start.
LEMMA ReachLeast ==
    ASSUME NEW N, NEW succ \in [N -> SUBSET N], NEW from, NEW S \in SUBSET N,
           from \subseteq S, ClosedUnder(succ, S)
    PROVE  ReachableFrom(succ, from) \subseteq S
  BY DEF ReachableFrom

\* What a walk visits are nodes.
LEMMA ReachType ==
    ASSUME NEW N, NEW succ \in [N -> SUBSET N], NEW from
    PROVE  ReachableFrom(succ, from) \subseteq N
  BY DEF ReachableFrom

\* Giving one node new successors closes no cycle when none of them reaches it.
LEMMA AcyclicUpdate ==
    ASSUME NEW N, NEW succ \in [N -> SUBSET N], IsAcyclic(succ),
           NEW id \in N, NEW D \in SUBSET N,
           \A d \in D : id \notin ReachableFrom(succ, {d})
    PROVE  IsAcyclic([succ EXCEPT ![id] = D])
<1> DEFINE new == [succ EXCEPT ![id] = D]
<1>0. new \in [N -> SUBSET N] /\ DOMAIN new = N /\ DOMAIN succ = N
    OBVIOUS
<1> SUFFICES ASSUME NEW S \in SUBSET N, S # {}, \A n \in S : new[n] \cap S # {}
             PROVE  FALSE
    BY <1>0 DEF IsAcyclic
<1>1. CASE id \notin S
  <2>1. \A n \in S : succ[n] \cap S # {}
    BY <1>1
  <2>2. QED
    BY <2>1, <1>0 DEF IsAcyclic
<1>2. CASE id \in S
  <2>1. PICK d \in D : d \in S
    BY <1>2
  <2> DEFINE R == ReachableFrom(succ, {d})
             T == S \cap R
  <2>2. R \subseteq N /\ d \in R /\ id \notin R /\ ClosedUnder(succ, R)
    <3>1. {d} \in SUBSET N /\ {d} \subseteq R
      BY ReachContains
    <3>2. ClosedUnder(succ, R)
      BY <3>1, ReachClosed
    <3>3. R \subseteq N
      BY ReachType
    <3>4. QED
      BY <3>1, <3>2, <3>3
  <2>3. T # {} /\ T \in SUBSET N
    BY <2>1, <2>2
  <2>4. ASSUME NEW n \in T PROVE succ[n] \cap T # {}
    <3>1. n \in N /\ n # id
      BY <2>2
    <3>2. PICK m \in new[n] : m \in S
      OBVIOUS
    <3>3. m \in succ[n]
      BY <3>1, <3>2
    <3>4. m \in R
      BY <3>3, <2>2 DEF ClosedUnder
    <3>5. QED
      BY <3>2, <3>3, <3>4
  <2> HIDE DEF T
  <2>5. PICK n \in T : succ[n] \cap T = {}
    BY <2>3, <1>0 DEF IsAcyclic
  <2>6. QED
    BY <2>4, <2>5
<1>3. QED
    BY <1>1, <1>2

\* Dropping successors closes no cycle.
LEMMA AcyclicSubgraph ==
    ASSUME NEW N, NEW succ \in [N -> SUBSET N], IsAcyclic(succ),
           NEW less \in [N -> SUBSET N], \A n \in N : less[n] \subseteq succ[n]
    PROVE  IsAcyclic(less)
<1> SUFFICES ASSUME NEW S \in SUBSET N, S # {}
             PROVE  \E n \in S : less[n] \cap S = {}
    BY DEF IsAcyclic
<1>1. PICK n \in S : succ[n] \cap S = {}
    BY DEF IsAcyclic
<1>2. QED
    BY <1>1

\* A walk that reaches another node than its start reaches it through a successor
\* of its start.
LEMMA ReachStep ==
    ASSUME NEW N, NEW succ \in [N -> SUBSET N], NEW n \in N, NEW goal \in N, goal # n,
           goal \in ReachableFrom(succ, {n})
    PROVE  \E m \in succ[n] : goal \in ReachableFrom(succ, {m})
<1> DEFINE T == {n} \cup {x \in N : \E m \in succ[n] : x \in ReachableFrom(succ, {m})}
<1>1. T \in SUBSET N /\ {n} \subseteq T
    OBVIOUS
<1>2. ASSUME NEW x \in T, NEW y \in succ[x]
      PROVE  y \in T
  <2>1. y \in N
    BY <1>1
  <2>2. CASE x = n
    <3>1. {y} \in SUBSET N /\ y \in ReachableFrom(succ, {y})
      BY <2>1, ReachContains
    <3>2. QED
      BY <2>1, <2>2, <3>1
  <2>3. CASE x # n
    <3>1. PICK m \in succ[n] : x \in ReachableFrom(succ, {m})
      BY <2>3
    <3>2. {m} \in SUBSET N
      OBVIOUS
    <3>3. y \in ReachableFrom(succ, {m})
      BY <3>1, <3>2, ReachClosed DEF ClosedUnder
    <3>4. QED
      BY <2>1, <3>3
  <2>4. QED
    BY <2>2, <2>3
<1>3. ClosedUnder(succ, T)
    BY <1>2 DEF ClosedUnder
<1> HIDE DEF T
<1>4. goal \in T
    BY <1>1, <1>3, ReachLeast
<1>5. QED
    BY <1>4 DEF T

\* Giving a node a new successor that reaches it closes a cycle.
LEMMA CyclicUpdate ==
    ASSUME NEW N, NEW succ \in [N -> SUBSET N], NEW id \in N, NEW D \in SUBSET N,
           NEW d \in D, id \in ReachableFrom(succ, {d})
    PROVE  ~IsAcyclic([succ EXCEPT ![id] = D])
<1> DEFINE new == [succ EXCEPT ![id] = D]
           R == ReachableFrom(succ, {d})
           S == {n \in R : id \in ReachableFrom(succ, {n})}
<1>1. /\ R \subseteq N /\ ClosedUnder(succ, R) /\ d \in R
      /\ id \in ReachableFrom(succ, {id})
  <2>1. {d} \in SUBSET N /\ {id} \in SUBSET N
    OBVIOUS
  <2>2. QED
    BY <2>1, ReachContains, ReachClosed, ReachType
<1> HIDE DEF R
<1>2. S \in SUBSET N /\ d \in S /\ id \in S
    BY <1>1 DEF R
<1>3. ASSUME NEW n \in S
      PROVE  new[n] \cap S # {}
  <2>1. n \in N /\ n \in R /\ id \in ReachableFrom(succ, {n})
    BY <1>1
  <2>2. CASE n = id
    BY <1>2, <2>1, <2>2
  <2>3. CASE n # id
    <3>1. PICK m \in succ[n] : id \in ReachableFrom(succ, {m})
      BY <2>1, <2>3, ReachStep
    <3>2. m \in R
      BY <1>1, <2>1 DEF ClosedUnder
    <3>3. m \in S /\ new[n] = succ[n]
      BY <2>1, <2>3, <3>1, <3>2
    <3>4. QED
      BY <3>3
  <2>4. QED
    BY <2>2, <2>3
<1> HIDE DEF S
<1>4. DOMAIN new = N
    OBVIOUS
<1> HIDE DEF new
<1>5. ~IsAcyclic(new)
    BY <1>2, <1>3, <1>4 DEF IsAcyclic
<1>6. QED
    BY <1>5 DEF new

\* Where there is no cycle, no successor of a node reaches it.
LEMMA AcyclicNoReturn ==
    ASSUME NEW N, NEW succ \in [N -> SUBSET N], IsAcyclic(succ), NEW id \in N, NEW d \in succ[id]
    PROVE  id \notin ReachableFrom(succ, {d})
<1> SUFFICES ASSUME id \in ReachableFrom(succ, {d}) PROVE FALSE
    OBVIOUS
<1>1. succ[id] \in SUBSET N /\ [succ EXCEPT ![id] = succ[id]] = succ
    OBVIOUS
<1>2. ~IsAcyclic([succ EXCEPT ![id] = succ[id]])
    BY <1>1, CyclicUpdate
<1>3. QED
    BY <1>1, <1>2

\* A set of numbers that is not empty has a least member: otherwise subtracting one
\* would map the finite set of the numbers from the members of S up to one of them
\* into itself, one to one, and miss that one.
LEMMA LeastNumber ==
    ASSUME NEW S \in SUBSET Nat, NEW top \in S
    PROVE  \E m \in S : \A k \in S : m <= k
<1> SUFFICES ASSUME \A m \in S : \E k \in S : k < m
             PROVE  FALSE
    OBVIOUS
<1> DEFINE U == {x \in 0..top : \E k \in S : k <= x}
           f == [x \in U |-> x - 1]
<1>1. IsFiniteSet(U)
  <2>1. IsFiniteSet(0..top)
    BY FS_Interval
  <2>2. QED
    BY <2>1, FS_Subset
<1>2. ASSUME NEW x \in U
      PROVE  x - 1 \in U
  <2>1. PICK k \in S : k <= x
    OBVIOUS
  <2>2. PICK j \in S : j < k
    OBVIOUS
  <2>3. j <= x - 1 /\ x - 1 \in 0..top
    BY <2>1, <2>2
  <2>4. QED
    BY <2>3
<1>3. f \in Injection(U, U)
  <2>1. f \in [U -> U] /\ \A x \in U : f[x] = x - 1 /\ x \in Int
    BY <1>2
  <2> HIDE DEF f, U
  <2>2. \A x, y \in U : f[x] = f[y] => x = y
    BY <2>1
  <2>3. QED
    BY <2>1, <2>2 DEF Injection, IsInjective
<1>4. f \in Surjection(U, U)
    BY <1>1, <1>3, FS_Injection
<1>5. top \in U
    OBVIOUS
<1>6. PICK x \in U : f[x] = top
    BY <1>4, <1>5 DEF Surjection
<1>7. x - 1 = top /\ x \in 0..top
    BY <1>6
<1>8. QED
    BY <1>7
=============================================================================
