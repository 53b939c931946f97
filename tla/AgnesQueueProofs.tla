-------------------------- MODULE AgnesQueueProofs --------------------------
(***************************************************************************)
(* Theorems about the single-writer queue of AgnesQueue, for every set of  *)
(* operations, finite or not, and every discipline of the code inside      *)
(* them: the queue implements SerialWriter, and _current names the         *)
(* innermost operation as long as nested calls are awaited.                *)
(***************************************************************************)
EXTENDS AgnesQueue, ReachabilityProofs

-----------------------------------------------------------------------------
(* Types *)

\* One sequence after another.
LEMMA Concatenated ==
    ASSUME NEW a \in Seq(Ops), NEW b \in Seq(Ops)
    PROVE  /\ a \o b \in Seq(Ops) /\ Len(a \o b) = Len(a) + Len(b)
           /\ \A k \in 1..Len(a) + Len(b) :
                 (a \o b)[k] = IF k <= Len(a) THEN a[k] ELSE b[k - Len(a)]
  OBVIOUS

\* _pending without one of its operations: the others in their order.
LEMMA RemainingRight ==
    ASSUME pending \in Seq(Ops), NEW op \in Ops, op \in ToSet(pending)
    PROVE  LET at == Position(op)
           IN  /\ at \in DOMAIN pending /\ pending[at] = op
               /\ Remaining(op) \in Seq(Ops)
               /\ DOMAIN Remaining(op) = 1..Len(pending) - 1
               /\ \A k \in 1..Len(pending) - 1 :
                     Remaining(op)[k] = IF k < at THEN pending[k] ELSE pending[k + 1]
<1> DEFINE at == Position(op)
           n == Len(pending)
<1>1. at \in DOMAIN pending /\ pending[at] = op
  <2>1. \E i \in DOMAIN pending : pending[i] = op
    BY DEF ToSet
  <2>2. QED
    BY <2>1 DEF Position
<1>2. n \in Nat /\ DOMAIN pending = 1..n /\ at \in 1..n /\ \A k \in 1..n : pending[k] \in Ops
    BY <1>1
<1> HIDE DEF at
<1> DEFINE left == SubSeq(pending, 1, at - 1)
           right == SubSeq(pending, at + 1, n)
<1>3. /\ left \in Seq(Ops) /\ Len(left) = at - 1 /\ \A k \in 1..at - 1 : left[k] = pending[k]
  <2>1. left = [k \in 1..at - 1 |-> pending[k]]
    BY <1>2
  <2>2. at - 1 \in Nat /\ \A k \in 1..at - 1 : k \in 1..n
    BY <1>2
  <2>3. QED
    BY <1>2, <2>1, <2>2
<1>4. /\ right \in Seq(Ops) /\ Len(right) = n - at /\ \A k \in 1..n - at : right[k] = pending[k + at]
  <2>1. right = [k \in 1..n - at |-> pending[k + at]]
    BY <1>2
  <2> DEFINE m == n - at
  <2>2. m \in Nat /\ \A k \in 1..m : k + at \in 1..n
    BY <1>2
  <2>3. right = [k \in 1..m |-> pending[k + at]] /\ \A k \in 1..m : pending[k + at] \in Ops
    BY <1>2, <2>1, <2>2
  <2> HIDE DEF m, right
  <2>4. right \in Seq(Ops) /\ Len(right) = m /\ \A k \in 1..m : right[k] = pending[k + at]
    BY <2>2, <2>3
  <2>5. QED
    BY <2>4 DEF m
<1>5. Remaining(op) = left \o right
    BY DEF Remaining, RemoveAt, at
<1> HIDE DEF left, right, n
<1>6. /\ left \o right \in Seq(Ops) /\ Len(left \o right) = n - 1
      /\ \A k \in 1..n - 1 :
            (left \o right)[k] = IF k <= at - 1 THEN left[k] ELSE right[k - (at - 1)]
  <2>1. left \in Seq(Ops) /\ right \in Seq(Ops) /\ Len(left) + Len(right) = n - 1 /\ Len(left) = at - 1
        /\ Len(left) \in Nat /\ Len(right) \in Nat
    BY <1>2, <1>3, <1>4
  <2>2. /\ left \o right \in Seq(Ops) /\ Len(left \o right) = Len(left) + Len(right)
        /\ \A k \in 1..Len(left) + Len(right) :
              (left \o right)[k] = IF k <= Len(left) THEN left[k] ELSE right[k - Len(left)]
    BY <2>1, Concatenated
  <2>3. QED
    BY <2>1, <2>2
<1>7. DOMAIN (left \o right) = 1..n - 1
    BY <1>2, <1>6
<1>8. ASSUME NEW k \in 1..n - 1
      PROVE  (left \o right)[k] = IF k < at THEN pending[k] ELSE pending[k + 1]
  <2>1. CASE k < at
    <3>1. k <= at - 1 /\ k \in 1..at - 1
      BY <1>2, <2>1
    <3>2. QED
      BY <1>3, <1>6, <2>1, <3>1
  <2>2. CASE ~(k < at)
    <3>1. ~(k <= at - 1) /\ k - (at - 1) \in 1..n - at /\ (k - (at - 1)) + at = k + 1
      BY <1>2, <2>2
    <3>2. QED
      BY <1>4, <1>6, <2>2, <3>1
  <2>3. QED
    BY <2>1, <2>2
<1>9. QED
    BY <1>1, <1>5, <1>6, <1>7, <1>8 DEF at, n

\* One operation more at the end of _pending.
LEMMA AppendRight ==
    ASSUME NEW s \in Seq(Ops), NEW op \in Ops
    PROVE  /\ Append(s, op) \in Seq(Ops) /\ DOMAIN Append(s, op) = 1..Len(s) + 1
           /\ \A k \in 1..Len(s) : Append(s, op)[k] = s[k]
           /\ Append(s, op)[Len(s) + 1] = op
           /\ ToSet(Append(s, op)) = ToSet(s) \cup {op}
<1> DEFINE t == Append(s, op)
<1>1. /\ t \in Seq(Ops) /\ DOMAIN t = 1..Len(s) + 1 /\ DOMAIN s = 1..Len(s) /\ Len(s) \in Nat
      /\ \A k \in 1..Len(s) : t[k] = s[k]
      /\ t[Len(s) + 1] = op
    OBVIOUS
<1>2. 1..Len(s) + 1 = 1..Len(s) \cup {Len(s) + 1}
    BY <1>1
<1> HIDE DEF t
<1>3. ToSet(t) = ToSet(s) \cup {op}
    BY <1>1, <1>2 DEF ToSet
<1>4. QED
    BY <1>1, <1>3 DEF t

\* The words for states.
LEMMA Words ==
    /\ States = {"idle", "queued", "running", "refusing", "fulfilled", "rejected", "skipped"}
    /\ Running = {"running", "refusing"} /\ Settled = {"fulfilled", "rejected", "skipped"}
  BY DEF States, Running, Settled, Rejected

\* The promise an operation is chained on is one.
LEMMA NextTailRight ==
    ASSUME pending \in Seq(Ops)
    PROVE  /\ NextTail \in Ops \cup Heads
           /\ disposed => NextTail = "rejectedHead"
           /\ ~disposed /\ pending = <<>> => NextTail = "resolvedHead"
           /\ ~disposed /\ pending # <<>> =>
                 Len(pending) \in DOMAIN pending /\ NextTail = pending[Len(pending)]
<1>1. pending # <<>> => Len(pending) \in DOMAIN pending /\ pending[Len(pending)] \in Ops
    OBVIOUS
<1>2. QED
    BY <1>1 DEF NextTail, Last, Heads

\* Every step keeps the types, and the queued operations in _pending.
LEMMA TypeStep ==
    ASSUME TypeOK, [Next]_vars
    PROVE  TypeOK'
<1>t. /\ discipline \in Disciplines /\ state \in [Ops -> States]
      /\ store \in [Ops -> Ops \cup {NoOp}] /\ tail \in [Ops -> Ops \cup Heads]
      /\ prev \in [Ops -> Ops \cup {NoOp}] /\ current \in Ops \cup {NoOp}
      /\ pending \in Seq(Ops) /\ submitted \in Seq(Ops) /\ disposed \in BOOLEAN
      /\ \A op \in Ops : state[op] = "queued" => op \in ToSet(pending)
    BY DEF TypeOK
<1>1. ASSUME NEW op \in Ops, Execute(op)
      PROVE  /\ prev' \in [Ops -> Ops \cup {NoOp}] /\ current' \in Ops \cup {NoOp}
             /\ state' \in [Ops -> States] /\ disposed' \in BOOLEAN
             /\ \A o \in Ops : state'[o] = "queued" => state[o] = "queued"
    BY <1>t, <1>1, Words DEF Execute
<1>2. ASSUME NEW op \in Ops, NEW s \in Ops \cup {NoOp}, Enqueue(op, s)
      PROVE  TypeOK'
  <2>1. /\ state' = [state EXCEPT ![op] = "queued"] /\ store' = [store EXCEPT ![op] = s]
        /\ tail' = [tail EXCEPT ![op] = NextTail]
        /\ pending' = Append(pending, op) /\ submitted' = Append(submitted, op)
        /\ UNCHANGED <<discipline, prev, current, disposed>>
    BY <1>2 DEF Enqueue
  <2>2. pending' \in Seq(Ops) /\ submitted' \in Seq(Ops) /\ ToSet(pending') = ToSet(pending) \cup {op}
    BY <1>t, <2>1, AppendRight
  <2>3. tail' \in [Ops -> Ops \cup Heads]
    BY <1>t, <2>1, NextTailRight
  <2>4. \A o \in Ops : state'[o] = "queued" => o \in ToSet(pending')
    BY <1>t, <2>1, <2>2
  <2>5. QED
    BY <1>t, <2>1, <2>2, <2>3, <2>4, Words DEF TypeOK, ToSet
<1>3. ASSUME NEW op \in Ops, NEW s \in Ops \cup {NoOp}, Bypass(op, s)
      PROVE  TypeOK'
    BY <1>t, <1>1, <1>3 DEF Bypass, TypeOK, ToSet
<1>4. ASSUME NEW op \in Ops, Begin(op)
      PROVE  TypeOK'
    BY <1>t, <1>1, <1>4 DEF Begin, TypeOK, ToSet
<1>5. ASSUME NEW op \in Ops, Skip(op)
      PROVE  TypeOK'
    BY <1>t, <1>5, Words DEF Skip, TypeOK, ToSet
<1>6. ASSUME NEW op \in Ops, Finish(op)
      PROVE  TypeOK'
  <2>1. PICK outcome \in Outcomes(op) : state' = [state EXCEPT ![op] = outcome]
    BY <1>6 DEF Finish
  <2>2. outcome \in {"fulfilled", "rejected"}
    BY DEF Outcomes
  <2>3. QED
    BY <1>t, <1>6, <2>1, <2>2, Words DEF Finish, RestoredBy, TypeOK, ToSet
<1>7. ASSUME NEW op \in Ops, Dequeue(op)
      PROVE  TypeOK'
  <2>1. /\ op \in ToSet(pending) /\ state[op] \in Settled /\ pending' = Remaining(op)
        /\ UNCHANGED <<discipline, state, store, tail, prev, current, disposed, submitted>>
    BY <1>7 DEF Dequeue
  <2>2. PICK at \in DOMAIN pending :
            /\ pending[at] = op /\ pending' \in Seq(Ops)
            /\ DOMAIN pending' = 1..Len(pending) - 1
            /\ \A k \in 1..Len(pending) - 1 :
                  pending'[k] = IF k < at THEN pending[k] ELSE pending[k + 1]
    BY <1>t, <2>1, RemainingRight
  <2>3. ASSUME NEW o \in Ops, state[o] = "queued"
        PROVE  o \in ToSet(pending')
    <3>1. PICK k \in DOMAIN pending : pending[k] = o
      BY <1>t, <2>3 DEF ToSet
    <3>2. k # at
      BY <2>1, <2>2, <2>3, <3>1, Words
    <3>3. CASE k < at
      <4>1. k \in 1..Len(pending) - 1 /\ pending'[k] = o
        BY <1>t, <2>2, <3>1, <3>3
      <4>2. QED
        BY <2>2, <4>1 DEF ToSet
    <3>4. CASE k > at
      <4>1. k - 1 \in 1..Len(pending) - 1 /\ ~(k - 1 < at) /\ (k - 1) + 1 = k
        BY <1>t, <3>1, <3>4
      <4>2. pending'[k - 1] = o
        BY <2>2, <3>1, <4>1
      <4>3. QED
        BY <2>2, <4>1, <4>2 DEF ToSet
    <3>5. QED
      BY <1>t, <3>2, <3>3, <3>4
  <2>4. QED
    BY <1>t, <2>1, <2>2, <2>3 DEF TypeOK
<1>8. CASE UNCHANGED vars
    BY <1>t, <1>8 DEF vars, TypeOK, ToSet
<1>9. QED
    BY <1>2, <1>3, <1>4, <1>5, <1>6, <1>7, <1>8 DEF Next

\* The queue starts with its types.
LEMMA InitTyped ==
    ASSUME Init
    PROVE  TypeOK
<1>1. /\ discipline \in Disciplines
      /\ state = [op \in Ops |-> "idle"] /\ store = [op \in Ops |-> NoOp]
      /\ tail = [op \in Ops |-> "resolvedHead"] /\ prev = [op \in Ops |-> NoOp]
      /\ current = NoOp /\ pending = <<>> /\ disposed = FALSE /\ submitted = <<>>
  BY DEF Init
<1>2. pending \in Seq(Ops) /\ submitted \in Seq(Ops)
  BY <1>1
<1>3. \A op \in Ops : state[op] # "queued"
  BY <1>1
<1>4. state \in [Ops -> States] /\ tail \in [Ops -> Ops \cup Heads]
  BY <1>1, Words DEF Heads
<1>5. QED
  BY <1>1, <1>2, <1>3, <1>4 DEF TypeOK

\* What the queue works on has its type, and whatever is queued is in _pending, so
\* that the next submission is chained behind it.
THEOREM TypeCorrect == Spec => []TypeOK
<1>1. Init => TypeOK
    BY InitTyped
<1>2. QED
    BY <1>1, TypeStep, PTL DEF Spec

-----------------------------------------------------------------------------
(* The chain of promises *)

Done(op)      == state[op] \in Settled
DoneBefore(i) == \A j \in DOMAIN submitted : j < i => Done(submitted[j])

\* Each operation is submitted once, and what is no longer in _pending has settled.
Submissions ==
    /\ \A i, j \in DOMAIN submitted : submitted[i] = submitted[j] => i = j
    /\ \A i \in DOMAIN submitted : state[submitted[i]] # "idle"
    /\ \A i \in DOMAIN submitted : submitted[i] \in ToSet(pending) \/ Done(submitted[i])

\* _pending is in the order of submission.
PendingInOrder ==
    /\ ToSet(pending) \subseteq ToSet(submitted)
    /\ \A a, b \in DOMAIN pending : a < b =>
          \A i, j \in DOMAIN submitted :
             submitted[i] = pending[a] /\ submitted[j] = pending[b] => i < j

\* Whatever was submitted between an operation and the one it is chained on has
\* settled; those chained on the head that dispose left never begin, and nothing is
\* chained on them.
TailsRight ==
    \A i \in DOMAIN submitted :
        LET op == submitted[i]
        IN  /\ tail[op] = "resolvedHead" => DoneBefore(i)
            /\ tail[op] \in Ops =>
                  \E j \in DOMAIN submitted :
                     /\ j < i /\ submitted[j] = tail[op]
                     /\ \A k \in DOMAIN submitted : j < k /\ k < i => Done(submitted[k])
            /\ tail[op] = "rejectedHead" => disposed /\ state[op] \in {"queued", "skipped"}
            /\ tail[op] # "rejectedHead" =>
                  \A j \in DOMAIN submitted : j < i => tail[submitted[j]] # "rejectedHead"

\* An operation begins, or is skipped for the sake of an earlier one, when all
\* submitted before it have settled.
InTurn ==
    \A i \in DOMAIN submitted :
        tail[submitted[i]] # "rejectedHead" /\ state[submitted[i]] # "queued" => DoneBefore(i)

QueueInv == TypeOK /\ Submissions /\ PendingInOrder /\ TailsRight /\ InTurn

\* The operations that run, each inside the one before, from one that was queued.
Innermost(ch) == IF ch = <<>> THEN NoOp ELSE ch[Len(ch)]

IsChain(ch) ==
    /\ ch \in Seq(Ops)
    /\ \A j, k \in DOMAIN ch : ch[j] = ch[k] => j = k
    /\ RunningOps = ToSet(ch)
    /\ current = Innermost(ch)
    /\ ch # <<>> => prev[ch[1]] = NoOp /\ ch[1] \in ToSet(submitted)
    /\ \A k \in DOMAIN ch : k + 1 \in DOMAIN ch =>
          prev[ch[k + 1]] = ch[k] /\ store[ch[k + 1]] = ch[k]

NestingInv == discipline # "detached" => \E ch \in Seq(Ops) : IsChain(ch)

\* The heads are no operations, and a settled operation is not queued or running.
LEMMA Apart ==
    /\ "resolvedHead" \notin Ops /\ "rejectedHead" \notin Ops /\ "resolvedHead" # "rejectedHead"
    /\ \A s \in Settled : s \notin {"idle", "queued"} /\ s \notin Running
    /\ \A s \in Running : s \notin {"idle", "queued"} /\ s \notin Settled
  BY AgnesQueueAssumption, Words DEF Heads

\* An operation begins, is skipped or ends in its turn: what was settled stays so.
LEMMA QueueMove ==
    ASSUME QueueInv, TypeOK', UNCHANGED <<tail, pending, submitted>>,
           NEW op \in Ops, NEW st \in States, st \notin {"idle", "queued"},
           state' = [state EXCEPT ![op] = st], state[op] \notin Settled,
           disposed => disposed',
           \A i \in DOMAIN submitted : submitted[i] = op =>
              IF tail[op] = "rejectedHead" THEN st = "skipped" ELSE DoneBefore(i)
    PROVE  QueueInv'
<1>t. /\ state \in [Ops -> States] /\ submitted \in Seq(Ops)
      /\ \A i \in DOMAIN submitted : submitted[i] \in Ops
    BY DEF QueueInv, TypeOK
<1>1. \A o \in Ops : /\ Done(o) => Done(o)' /\ state'[o] = state[o]
                     /\ o # op => state'[o] = state[o]
                     /\ state[o] # "idle" => state'[o] # "idle"
                     /\ state'[o] = "queued" => state[o] = "queued"
    BY <1>t DEF Done
<1>2. \A i \in DOMAIN submitted : DoneBefore(i) => DoneBefore(i)'
    BY <1>t, <1>1 DEF DoneBefore
<1>3. Submissions'
    BY <1>t, <1>1 DEF QueueInv, Submissions, ToSet
<1>4. PendingInOrder'
    BY DEF QueueInv, PendingInOrder, ToSet
<1>5. TailsRight'
  <2> SUFFICES ASSUME NEW i \in DOMAIN submitted
               PROVE  LET o == submitted[i]
                      IN  /\ tail[o] = "resolvedHead" => DoneBefore(i)'
                          /\ tail[o] \in Ops =>
                                \E j \in DOMAIN submitted :
                                   /\ j < i /\ submitted[j] = tail[o]
                                   /\ \A k \in DOMAIN submitted : j < k /\ k < i => Done(submitted[k])'
                          /\ tail[o] = "rejectedHead" => disposed' /\ state'[o] \in {"queued", "skipped"}
                          /\ tail[o] # "rejectedHead" =>
                                \A j \in DOMAIN submitted : j < i => tail[submitted[j]] # "rejectedHead"
    BY DEF TailsRight, Done
  <2> DEFINE o == submitted[i]
  <2>1. /\ tail[o] = "resolvedHead" => DoneBefore(i)
        /\ tail[o] \in Ops =>
              \E j \in DOMAIN submitted :
                 /\ j < i /\ submitted[j] = tail[o]
                 /\ \A k \in DOMAIN submitted : j < k /\ k < i => Done(submitted[k])
        /\ tail[o] = "rejectedHead" => disposed /\ state[o] \in {"queued", "skipped"}
        /\ tail[o] # "rejectedHead" =>
              \A j \in DOMAIN submitted : j < i => tail[submitted[j]] # "rejectedHead"
    BY DEF QueueInv, TailsRight
  <2>2. tail[o] = "rejectedHead" => disposed' /\ state'[o] \in {"queued", "skipped"}
    <3>1. CASE o = op
      BY <1>t, <2>1, <3>1
    <3>2. CASE o # op
      BY <1>t, <1>1, <2>1, <3>2
    <3>3. QED
      BY <3>1, <3>2
  <2>3. \A k \in DOMAIN submitted : Done(submitted[k]) => Done(submitted[k])'
    BY <1>t, <1>1
  <2> HIDE DEF o
  <2>4. /\ tail[o] = "resolvedHead" => DoneBefore(i)'
        /\ tail[o] \in Ops =>
              \E j \in DOMAIN submitted :
                 /\ j < i /\ submitted[j] = tail[o]
                 /\ \A k \in DOMAIN submitted : j < k /\ k < i => Done(submitted[k])'
    BY <1>2, <2>1, <2>3
  <2>5. QED
    BY <2>1, <2>2, <2>4 DEF o
<1>6. InTurn'
  <2> SUFFICES ASSUME NEW i \in DOMAIN submitted,
                      tail[submitted[i]] # "rejectedHead", state'[submitted[i]] # "queued"
               PROVE  DoneBefore(i)
    BY <1>2 DEF InTurn
  <2>1. CASE submitted[i] = op
    BY <2>1
  <2>2. CASE submitted[i] # op
    BY <1>t, <1>1, <2>2 DEF QueueInv, InTurn
  <2>3. QED
    BY <2>1, <2>2
<1>7. QED
    BY <1>3, <1>4, <1>5, <1>6 DEF QueueInv

\* An operation whose chain has settled is the oldest that has not.
LEMMA TailSettled ==
    ASSUME QueueInv, NEW i \in DOMAIN submitted, NEW op, op = submitted[i],
           tail[op] = "resolvedHead" \/ (tail[op] \in Ops /\ Done(tail[op]))
    PROVE  DoneBefore(i)
<1>1. CASE tail[op] = "resolvedHead"
    BY <1>1 DEF QueueInv, TailsRight
<1>2. CASE tail[op] \in Ops /\ Done(tail[op])
  <2>1. PICK j \in DOMAIN submitted :
            /\ j < i /\ submitted[j] = tail[op]
            /\ \A k \in DOMAIN submitted : j < k /\ k < i => Done(submitted[k])
    BY <1>2 DEF QueueInv, TailsRight
  <2>2. tail[submitted[j]] # "rejectedHead"
    BY <1>2, <2>1, Apart DEF QueueInv, TailsRight
  <2>3. state[submitted[j]] # "queued"
    BY <1>2, <2>1, Apart DEF Done
  <2>4. DoneBefore(j)
    BY <2>2, <2>3 DEF QueueInv, InTurn
  <2>5. DOMAIN submitted \subseteq Int
    BY DEF QueueInv, TypeOK
  <2>6. ASSUME NEW k \in DOMAIN submitted, k < i
        PROVE  Done(submitted[k])
    <3>1. CASE k < j
      BY <2>4, <3>1 DEF DoneBefore
    <3>2. CASE k = j
      BY <1>2, <2>1, <3>2
    <3>3. CASE j < k
      BY <2>1, <2>6, <3>3
    <3>4. QED
      BY <2>5, <3>1, <3>2, <3>3
  <2>7. QED
    BY <2>6 DEF DoneBefore
<1>3. QED
    BY <1>1, <1>2

\* When an operation begins, no queued one is running and it is the oldest waiting.
LEMMA BeginInTurn ==
    ASSUME QueueInv, NEW op \in Ops, state[op] = "queued", TailFulfilled(op)
    PROVE  /\ Root = {}
           /\ \E i \in DOMAIN submitted : submitted[i] = op /\ DoneBefore(i)
           /\ tail[op] # "rejectedHead"
<1>1. PICK i \in DOMAIN submitted : submitted[i] = op
    BY DEF QueueInv, TypeOK, PendingInOrder, ToSet
<1>2. tail[op] # "rejectedHead" /\ DoneBefore(i)
  <2>1. tail[op] = "resolvedHead" \/ (tail[op] \in Ops /\ Done(tail[op]))
    BY Words DEF TailFulfilled, Done
  <2>2. QED
    BY <1>1, <2>1, TailSettled, Apart
<1>3. ASSUME NEW r \in Root
      PROVE  FALSE
  <2>1. PICK k \in DOMAIN submitted : submitted[k] = r
    BY DEF Root, ToSet
  <2>2. state[r] \in Running
    BY DEF Root, RunningOps
  <2>3. tail[r] # "rejectedHead" /\ state[r] # "queued"
    <3>1. tail[r] = "rejectedHead" => state[r] \in {"queued", "skipped"}
      BY <2>1 DEF QueueInv, TailsRight
    <3>2. QED
      BY <2>2, <3>1, Words
  <2>4. DoneBefore(k)
    BY <2>1, <2>3 DEF QueueInv, InTurn
  <2>5. i \in Int /\ k \in Int
    BY DEF QueueInv, TypeOK
  <2>6. CASE k < i
    BY <1>2, <2>1, <2>2, <2>6, Apart DEF DoneBefore, Done
  <2>7. CASE i < k
    BY <1>1, <2>4, <2>7, Apart DEF DoneBefore, Done
  <2>8. CASE i = k
    BY <1>1, <2>1, <2>2, <2>8, Apart
  <2>9. QED
    BY <2>5, <2>6, <2>7, <2>8
<1>4. QED
    BY <1>1, <1>2, <1>3

\* A submission goes to the end of both sequences, chained on the last pending one.
LEMMA QueueEnqueue ==
    ASSUME QueueInv, TypeOK', NEW op \in Ops, NEW s, Enqueue(op, s)
    PROVE  QueueInv'
<1>n. PICK n : n = Len(submitted)
    OBVIOUS
<1>m. PICK m : m = Len(pending)
    OBVIOUS
<1>t. /\ state \in [Ops -> States] /\ tail \in [Ops -> Ops \cup Heads]
      /\ pending \in Seq(Ops) /\ submitted \in Seq(Ops)
      /\ n \in Nat /\ DOMAIN submitted = 1..n /\ \A i \in 1..n : submitted[i] \in Ops
      /\ m \in Nat /\ DOMAIN pending = 1..m
    BY <1>n, <1>m DEF QueueInv, TypeOK
<1>1. /\ state[op] = "idle" /\ state' = [state EXCEPT ![op] = "queued"]
      /\ tail' = [tail EXCEPT ![op] = NextTail]
      /\ pending' = Append(pending, op) /\ submitted' = Append(submitted, op)
      /\ UNCHANGED disposed
    BY DEF Enqueue
<1>2. /\ DOMAIN submitted' = 1..n + 1 /\ submitted'[n + 1] = op
      /\ \A i \in 1..n : submitted'[i] = submitted[i]
      /\ ToSet(submitted') = ToSet(submitted) \cup {op}
  <2>1. submitted \in Seq(Ops) /\ submitted' = Append(submitted, op)
    BY <1>t, <1>1
  <2>2. QED
    BY <1>n, <2>1, AppendRight
<1>3. /\ DOMAIN pending' = 1..m + 1 /\ pending'[m + 1] = op
      /\ \A a \in 1..m : pending'[a] = pending[a]
      /\ ToSet(pending') = ToSet(pending) \cup {op}
  <2>1. pending \in Seq(Ops) /\ pending' = Append(pending, op)
    BY <1>t, <1>1
  <2>2. QED
    BY <1>m, <2>1, AppendRight
<1>4. \A i \in 1..n : submitted[i] # op
    BY <1>t, <1>1 DEF QueueInv, Submissions
<1>5. \A o \in Ops \ {op} : state'[o] = state[o] /\ tail'[o] = tail[o] /\ (Done(o)' <=> Done(o))
    BY <1>t, <1>1 DEF Done
<1>6. state'[op] = "queued" /\ tail'[op] = NextTail /\ op \notin ToSet(submitted)
    BY <1>t, <1>1, <1>4 DEF ToSet
<1>7. /\ 1..n + 1 = 1..n \cup {n + 1} /\ n + 1 \notin 1..n
      /\ \A i \in 1..n : i < n + 1 /\ ~(n + 1 < i)
      /\ 1..m + 1 = 1..m \cup {m + 1} /\ m + 1 \notin 1..m
      /\ \A a \in 1..m : ~(m + 1 < a)
    BY <1>t
<1>8. \A i \in 1..n : submitted'[i] = submitted[i] /\ submitted[i] \in Ops \ {op}
    BY <1>t, <1>2, <1>4
<1>9. /\ \A i \in 1..n : DoneBefore(i) => DoneBefore(i)'
      /\ DoneBefore(n + 1) => DoneBefore(n + 1)'
  <2>1. \A j \in 1..n : Done(submitted[j]) => state'[submitted'[j]] \in Settled
    BY <1>5, <1>8 DEF Done
  <2>2. \A j \in 1..n + 1 : (j < n + 1 \/ \E i \in 1..n : j < i) => j \in 1..n
    BY <1>t
  <2>3. QED
    BY <1>t, <1>2, <2>1, <2>2 DEF DoneBefore, Done
<1>10. Submissions'
  <2>1. \A i, j \in 1..n + 1 : submitted'[i] = submitted'[j] => i = j
    BY <1>t, <1>2, <1>7, <1>8 DEF QueueInv, Submissions
  <2>2. \A i \in 1..n + 1 : state'[submitted'[i]] # "idle"
    BY <1>t, <1>2, <1>5, <1>6, <1>7, <1>8 DEF QueueInv, Submissions
  <2>3. \A i \in 1..n + 1 : submitted'[i] \in ToSet(pending') \/ state'[submitted'[i]] \in Settled
    <3>1. ASSUME NEW i \in 1..n
          PROVE  submitted'[i] \in ToSet(pending') \/ state'[submitted'[i]] \in Settled
      <4>1. submitted[i] \in ToSet(pending) \/ Done(submitted[i])
        BY <1>t DEF QueueInv, Submissions
      <4>2. submitted'[i] = submitted[i] /\ submitted[i] \in Ops \ {op}
        BY <1>8
      <4>3. Done(submitted[i]) => state'[submitted'[i]] \in Settled
        BY <1>5, <4>2 DEF Done
      <4>4. QED
        BY <1>3, <4>1, <4>2, <4>3
    <3>2. submitted'[n + 1] \in ToSet(pending')
      BY <1>2, <1>3
    <3>3. QED
      BY <1>7, <3>1, <3>2
  <2>4. QED
    BY <1>2, <2>1, <2>2, <2>3 DEF Submissions, Done
<1>11. PendingInOrder'
  <2>1. \A a \in 1..m : pending[a] \in ToSet(submitted)
    BY <1>t DEF QueueInv, PendingInOrder, ToSet
  <2>2. ASSUME NEW a \in 1..m + 1, NEW b \in 1..m + 1, a < b,
               NEW i \in 1..n + 1, NEW j \in 1..n + 1,
               submitted'[i] = pending'[a], submitted'[j] = pending'[b]
        PROVE  i < j
    <3>1. a \in 1..m /\ pending'[a] = pending[a]
      BY <1>3, <1>7, <2>2
    <3>2. i \in 1..n /\ submitted[i] = pending[a]
      BY <1>2, <1>6, <1>7, <2>1, <2>2, <3>1
    <3>3. CASE b = m + 1
      <4>1. j = n + 1
        BY <1>2, <1>3, <1>4, <1>7, <2>2, <3>3
      <4>2. QED
        BY <1>7, <3>2, <4>1
    <3>4. CASE b \in 1..m
      <4>1. pending'[b] = pending[b] /\ j \in 1..n /\ submitted[j] = pending[b]
        BY <1>2, <1>3, <1>6, <1>7, <2>1, <2>2, <3>4
      <4>2. QED
        BY <1>t, <2>2, <3>1, <3>2, <3>4, <4>1 DEF QueueInv, PendingInOrder
    <3>5. QED
      BY <1>7, <3>3, <3>4
  <2>3. ToSet(pending') \subseteq ToSet(submitted')
    BY <1>2, <1>3 DEF QueueInv, PendingInOrder
  <2>4. QED
    BY <1>2, <1>3, <2>2, <2>3 DEF PendingInOrder, ToSet
<1>12. ASSUME NEW i \in 1..n
       PROVE  /\ tail[submitted[i]] = "resolvedHead" => DoneBefore(i)'
              /\ tail[submitted[i]] \in Ops =>
                    \E j \in 1..n + 1 :
                       /\ j < i /\ submitted'[j] = tail[submitted[i]]
                       /\ \A k \in 1..n + 1 : j < k /\ k < i => state'[submitted'[k]] \in Settled
              /\ tail[submitted[i]] = "rejectedHead" =>
                    disposed /\ state[submitted[i]] \in {"queued", "skipped"}
              /\ tail[submitted[i]] # "rejectedHead" =>
                    \A j \in 1..n + 1 : j < i => tail'[submitted'[j]] # "rejectedHead"
  <2> DEFINE o == submitted[i]
  <2>1. /\ tail[o] = "resolvedHead" => DoneBefore(i)
        /\ tail[o] \in Ops =>
              \E j \in 1..n :
                 /\ j < i /\ submitted[j] = tail[o]
                 /\ \A k \in 1..n : j < k /\ k < i => Done(submitted[k])
        /\ tail[o] = "rejectedHead" => disposed /\ state[o] \in {"queued", "skipped"}
        /\ tail[o] # "rejectedHead" => \A j \in 1..n : j < i => tail[submitted[j]] # "rejectedHead"
    BY <1>t DEF QueueInv, TailsRight
  <2>2. ASSUME tail[o] \in Ops
        PROVE  \E j \in 1..n + 1 :
                  /\ j < i /\ submitted'[j] = tail[o]
                  /\ \A k \in 1..n + 1 : j < k /\ k < i => state'[submitted'[k]] \in Settled
    <3>1. PICK j \in 1..n : /\ j < i /\ submitted[j] = tail[o]
                            /\ \A k \in 1..n : j < k /\ k < i => Done(submitted[k])
      BY <2>1, <2>2
    <3>2. \A k \in 1..n : Done(submitted[k]) => state'[submitted'[k]] \in Settled
      BY <1>5, <1>8 DEF Done
    <3>3. \A k \in 1..n + 1 : k < i => k \in 1..n
      BY <1>7
    <3>4. j \in 1..n + 1 /\ submitted'[j] = submitted[j]
      BY <1>7, <1>8
    <3>5. QED
      BY <3>1, <3>2, <3>3, <3>4
  <2> HIDE DEF o
  <2>3. tail[o] # "rejectedHead" => \A j \in 1..n + 1 : j < i => tail'[submitted'[j]] # "rejectedHead"
    BY <1>5, <1>7, <1>8, <2>1
  <2>4. tail[o] = "resolvedHead" => DoneBefore(i)'
    BY <1>9, <2>1
  <2>5. QED
    BY <2>1, <2>2, <2>3, <2>4 DEF o
<1>13. /\ NextTail = "resolvedHead" => DoneBefore(n + 1)
       /\ NextTail \in Ops =>
             \E j \in 1..n : /\ submitted[j] = NextTail
                             /\ \A k \in 1..n : j < k => Done(submitted[k])
       /\ NextTail = "rejectedHead" => disposed
       /\ NextTail # "rejectedHead" => \A j \in 1..n : tail[submitted[j]] # "rejectedHead"
  <2>1. CASE disposed
    BY <1>t, <2>1, NextTailRight, Apart
  <2>2. CASE ~disposed /\ pending = <<>>
    <3>1. NextTail = "resolvedHead" /\ ToSet(pending) = {}
      BY <1>t, <2>2, NextTailRight DEF ToSet
    <3>2. \A k \in 1..n : Done(submitted[k]) /\ tail[submitted[k]] # "rejectedHead"
      BY <1>t, <2>2, <3>1 DEF QueueInv, Submissions, TailsRight
    <3>3. QED
      BY <1>t, <3>1, <3>2, Apart DEF DoneBefore
  <2>3. CASE ~disposed /\ pending # <<>>
    <3>1. m \in 1..m /\ NextTail = pending[m]
      BY <1>t, <1>m, <2>3, NextTailRight
    <3>2. PICK j \in 1..n : submitted[j] = pending[m]
      BY <1>t, <3>1 DEF QueueInv, PendingInOrder, ToSet
    <3>3. ASSUME NEW k \in 1..n, j < k
          PROVE  Done(submitted[k])
      <4>1. submitted[k] \in ToSet(pending) => FALSE
        <5>1. SUFFICES ASSUME NEW a \in 1..m, pending[a] = submitted[k]
                       PROVE  FALSE
          BY <1>t DEF ToSet
        <5>2. CASE a = m
          <6>1. k = j
            BY <1>t, <3>2, <5>1, <5>2 DEF QueueInv, Submissions
          <6>2. QED
            BY <3>3, <6>1
        <5>3. CASE a < m
          <6>1. k < j
            BY <1>t, <3>1, <3>2, <5>1, <5>3 DEF QueueInv, PendingInOrder
          <6>2. QED
            BY <1>t, <3>3, <6>1
        <5>4. QED
          BY <1>t, <5>2, <5>3
      <4>2. QED
        BY <1>t, <4>1 DEF QueueInv, Submissions
    <3>4. \A k \in 1..n : tail[submitted[k]] # "rejectedHead"
      BY <1>t, <2>3 DEF QueueInv, TailsRight
    <3>5. NextTail \in Ops
      BY <1>t, <3>1, <3>2
    <3>6. QED
      BY <3>1, <3>2, <3>3, <3>4, <3>5, Apart
  <2>4. QED
    BY <2>1, <2>2, <2>3
<1>14. TailsRight'
  <2>1. ASSUME NEW i \in 1..n
        PROVE  LET o == submitted'[i]
               IN  /\ tail'[o] = "resolvedHead" => DoneBefore(i)'
                   /\ tail'[o] \in Ops =>
                         \E j \in 1..n + 1 :
                            /\ j < i /\ submitted'[j] = tail'[o]
                            /\ \A k \in 1..n + 1 : j < k /\ k < i => state'[submitted'[k]] \in Settled
                   /\ tail'[o] = "rejectedHead" => disposed' /\ state'[o] \in {"queued", "skipped"}
                   /\ tail'[o] # "rejectedHead" =>
                         \A j \in 1..n + 1 : j < i => tail'[submitted'[j]] # "rejectedHead"
    <3>1. /\ submitted'[i] = submitted[i] /\ tail'[submitted[i]] = tail[submitted[i]]
          /\ state'[submitted[i]] = state[submitted[i]] /\ disposed' = disposed
      BY <1>1, <1>5, <1>8
    <3>2. QED
      BY <1>12, <3>1
  <2>2. /\ NextTail = "resolvedHead" => DoneBefore(n + 1)'
        /\ NextTail \in Ops =>
              \E j \in 1..n + 1 :
                 /\ j < n + 1 /\ submitted'[j] = NextTail
                 /\ \A k \in 1..n + 1 : j < k /\ k < n + 1 => state'[submitted'[k]] \in Settled
        /\ NextTail = "rejectedHead" => disposed'
        /\ NextTail # "rejectedHead" =>
              \A j \in 1..n + 1 : j < n + 1 => tail'[submitted'[j]] # "rejectedHead"
    <3>1. NextTail = "resolvedHead" => DoneBefore(n + 1)'
      BY <1>9, <1>13
    <3>2. ASSUME NextTail \in Ops
          PROVE  \E j \in 1..n + 1 :
                    /\ j < n + 1 /\ submitted'[j] = NextTail
                    /\ \A k \in 1..n + 1 : j < k /\ k < n + 1 => state'[submitted'[k]] \in Settled
      <4>1. PICK j \in 1..n : /\ submitted[j] = NextTail
                              /\ \A k \in 1..n : j < k => Done(submitted[k])
        BY <1>13, <3>2
      <4>2. \A k \in 1..n : Done(submitted[k]) => state'[submitted'[k]] \in Settled
        BY <1>5, <1>8 DEF Done
      <4>3. \A k \in 1..n + 1 : k < n + 1 => k \in 1..n
        BY <1>t, <1>7
      <4>4. j \in 1..n + 1 /\ j < n + 1 /\ submitted'[j] = submitted[j]
        BY <1>7, <1>8
      <4>5. QED
        BY <4>1, <4>2, <4>3, <4>4
    <3>3. NextTail # "rejectedHead" =>
              \A j \in 1..n + 1 : j < n + 1 => tail'[submitted'[j]] # "rejectedHead"
      BY <1>t, <1>5, <1>7, <1>8, <1>13
    <3>4. QED
      BY <1>1, <1>13, <3>1, <3>2, <3>3
  <2>3. ASSUME NEW i \in 1..n + 1
        PROVE  LET o == submitted'[i]
               IN  /\ tail'[o] = "resolvedHead" => DoneBefore(i)'
                   /\ tail'[o] \in Ops =>
                         \E j \in 1..n + 1 :
                            /\ j < i /\ submitted'[j] = tail'[o]
                            /\ \A k \in 1..n + 1 : j < k /\ k < i => state'[submitted'[k]] \in Settled
                   /\ tail'[o] = "rejectedHead" => disposed' /\ state'[o] \in {"queued", "skipped"}
                   /\ tail'[o] # "rejectedHead" =>
                         \A j \in 1..n + 1 : j < i => tail'[submitted'[j]] # "rejectedHead"
    <3>1. CASE i \in 1..n
      BY <2>1, <3>1
    <3>2. CASE i = n + 1
      <4>1. submitted'[i] = op /\ tail'[op] = NextTail /\ state'[op] = "queued"
        BY <1>2, <1>6, <3>2
      <4>2. QED
        BY <2>2, <3>2, <4>1
    <3>3. QED
      BY <1>7, <3>1, <3>2
  <2>4. QED
    BY <1>2, <2>3 DEF TailsRight, Done
<1>15. InTurn'
  <2> SUFFICES ASSUME NEW i \in 1..n + 1,
                      tail'[submitted'[i]] # "rejectedHead", state'[submitted'[i]] # "queued"
               PROVE  DoneBefore(i)'
    BY <1>2 DEF InTurn
  <2>1. i \in 1..n
    BY <1>2, <1>6, <1>7
  <2>2. tail[submitted[i]] # "rejectedHead" /\ state[submitted[i]] # "queued"
    BY <1>5, <1>8, <2>1
  <2>3. QED
    BY <1>t, <1>9, <2>1, <2>2 DEF QueueInv, InTurn
<1>16. QED
    BY <1>10, <1>11, <1>14, <1>15 DEF QueueInv

\* A settled operation leaves _pending; the others keep their order.
LEMMA QueueDequeue ==
    ASSUME QueueInv, TypeOK', NEW op \in Ops, Dequeue(op)
    PROVE  QueueInv'
<1>1. /\ op \in ToSet(pending) /\ state[op] \in Settled /\ pending' = Remaining(op)
      /\ UNCHANGED <<state, tail, disposed, submitted>>
    BY DEF Dequeue
<1>2. /\ pending \in Seq(Ops) /\ Len(pending) \in Nat /\ DOMAIN pending = 1..Len(pending)
    BY DEF QueueInv, TypeOK
<1>3. PICK at \in DOMAIN pending :
          /\ pending[at] = op
          /\ DOMAIN pending' = 1..Len(pending) - 1
          /\ \A k \in 1..Len(pending) - 1 :
                pending'[k] = IF k < at THEN pending[k] ELSE pending[k + 1]
    BY <1>1, <1>2, RemainingRight
<1>4. ASSUME NEW a \in 1..Len(pending) - 1
      PROVE  \E c \in DOMAIN pending :
                pending'[a] = pending[c] /\ c = IF a < at THEN a ELSE a + 1
    BY <1>2, <1>3
<1>5. ASSUME NEW o \in ToSet(pending), o # op
      PROVE  o \in ToSet(pending')
  <2>1. PICK k \in DOMAIN pending : pending[k] = o
    BY DEF ToSet
  <2>2. k # at
    BY <1>3, <1>5, <2>1
  <2>3. CASE k < at
    <3>1. k \in 1..Len(pending) - 1 /\ pending'[k] = o
      BY <1>2, <1>3, <2>1, <2>3
    <3>2. QED
      BY <1>3, <3>1 DEF ToSet
  <2>4. CASE at < k
    <3>1. k - 1 \in 1..Len(pending) - 1 /\ ~(k - 1 < at) /\ (k - 1) + 1 = k
      BY <1>2, <2>4
    <3>2. pending'[k - 1] = o
      BY <1>3, <2>1, <3>1
    <3>3. QED
      BY <1>3, <3>1, <3>2 DEF ToSet
  <2>5. QED
    BY <1>2, <2>2, <2>3, <2>4
<1>6. Submissions'
  <2>1. \A i \in DOMAIN submitted : submitted[i] \in ToSet(pending') \/ state[submitted[i]] \in Settled
    BY <1>1, <1>5 DEF QueueInv, Submissions, Done
  <2>2. QED
    BY <1>1, <2>1 DEF QueueInv, Submissions, Done
<1>7. PendingInOrder'
  <2>1. ToSet(pending') \subseteq ToSet(submitted)
    <3>1. ToSet(pending') \subseteq ToSet(pending)
      BY <1>3, <1>4 DEF ToSet
    <3>2. QED
      BY <3>1 DEF QueueInv, PendingInOrder
  <2>2. ASSUME NEW a \in 1..Len(pending) - 1, NEW b \in 1..Len(pending) - 1, a < b,
               NEW i \in DOMAIN submitted, NEW j \in DOMAIN submitted,
               submitted[i] = pending'[a], submitted[j] = pending'[b]
        PROVE  i < j
    <3>1. PICK c \in DOMAIN pending : pending'[a] = pending[c] /\ c = IF a < at THEN a ELSE a + 1
      BY <1>4
    <3>2. PICK d \in DOMAIN pending : pending'[b] = pending[d] /\ d = IF b < at THEN b ELSE b + 1
      BY <1>4
    <3>3. c < d
      BY <1>2, <2>2, <3>1, <3>2
    <3>4. QED
      BY <2>2, <3>1, <3>2, <3>3 DEF QueueInv, PendingInOrder
  <2>3. QED
    <3>1. submitted' = submitted /\ DOMAIN pending' = 1..Len(pending) - 1
      BY <1>1, <1>3
    <3>2. \A a, b \in 1..Len(pending) - 1 : a < b =>
              \A i, j \in DOMAIN submitted :
                 submitted[i] = pending'[a] /\ submitted[j] = pending'[b] => i < j
      BY <2>2
    <3>3. QED
      BY <2>1, <3>1, <3>2 DEF PendingInOrder
<1>8. TailsRight' /\ InTurn'
    BY <1>1 DEF QueueInv, TailsRight, InTurn, DoneBefore, Done
<1>9. QED
    BY <1>6, <1>7, <1>8 DEF QueueInv

\* Every step keeps the chain of promises right.
LEMMA QueueStep ==
    ASSUME QueueInv, [Next]_vars
    PROVE  QueueInv'
<1>t. TypeOK' /\ state \in [Ops -> States]
    BY TypeStep DEF QueueInv, TypeOK
<1>1. ASSUME NEW op \in Ops, NEW s \in Ops \cup {NoOp}, Bypass(op, s)
      PROVE  QueueInv'
  <2>1. PICK st \in {"running", "refusing"} : state' = [state EXCEPT ![op] = st]
    BY <1>1 DEF Bypass, Execute
  <2>2. /\ state[op] = "idle" /\ UNCHANGED <<tail, pending, submitted>> /\ (disposed => disposed')
    BY <1>1 DEF Bypass, Execute
  <2>3. \A i \in DOMAIN submitted : submitted[i] # op
    BY <2>2 DEF QueueInv, Submissions
  <2>4. st \in States /\ st \notin {"idle", "queued"} /\ state[op] \notin Settled
    BY <2>2, Words
  <2>5. QED
    BY <1>t, <2>1, <2>2, <2>3, <2>4, QueueMove
<1>2. ASSUME NEW op \in Ops, Begin(op)
      PROVE  QueueInv'
  <2>1. PICK st \in {"running", "refusing"} : state' = [state EXCEPT ![op] = st]
    BY <1>2 DEF Begin, Execute
  <2>2. /\ state[op] = "queued" /\ TailFulfilled(op)
        /\ UNCHANGED <<tail, pending, submitted>> /\ (disposed => disposed')
    BY <1>2 DEF Begin, Execute
  <2>3. /\ tail[op] # "rejectedHead"
        /\ \A i \in DOMAIN submitted : submitted[i] = op => DoneBefore(i)
    BY <2>2, BeginInTurn DEF QueueInv, Submissions
  <2>4. st \in States /\ st \notin {"idle", "queued"} /\ state[op] \notin Settled
    BY <2>2, Words
  <2>5. QED
    BY <1>t, <2>1, <2>2, <2>3, <2>4, QueueMove
<1>3. ASSUME NEW op \in Ops, Skip(op)
      PROVE  QueueInv'
  <2>1. /\ state[op] = "queued" /\ TailRejected(op) /\ state' = [state EXCEPT ![op] = "skipped"]
        /\ UNCHANGED <<tail, pending, submitted, disposed>>
    BY <1>3 DEF Skip
  <2>2. ASSUME NEW i \in DOMAIN submitted, submitted[i] = op, tail[op] # "rejectedHead"
        PROVE  DoneBefore(i)
    <3>1. tail[op] \in Ops /\ Done(tail[op])
      BY <2>1, <2>2, Words DEF TailRejected, Done, Rejected
    <3>2. QED
      BY <2>2, <3>1, TailSettled
  <2>3. "skipped" \in States /\ state[op] \notin Settled
    BY <2>1, Words
  <2>4. QED
    BY <1>t, <2>1, <2>2, <2>3, QueueMove
<1>4. ASSUME NEW op \in Ops, Finish(op)
      PROVE  QueueInv'
  <2>1. PICK outcome \in Outcomes(op) : state' = [state EXCEPT ![op] = outcome]
    BY <1>4 DEF Finish
  <2>2. state[op] \in Running /\ UNCHANGED <<tail, pending, submitted, disposed>>
    BY <1>4 DEF Finish
  <2>3. outcome \in {"fulfilled", "rejected"}
    BY DEF Outcomes
  <2>4. ASSUME NEW i \in DOMAIN submitted, submitted[i] = op
        PROVE  tail[op] # "rejectedHead" /\ DoneBefore(i)
    <3>1. tail[op] # "rejectedHead"
      BY <2>2, <2>4, Words DEF QueueInv, TailsRight
    <3>2. state[op] # "queued"
      BY <2>2, Words
    <3>3. QED
      BY <2>4, <3>1, <3>2 DEF QueueInv, InTurn
  <2>5. outcome \in States /\ outcome \notin {"idle", "queued"} /\ state[op] \notin Settled
    BY <2>2, <2>3, Words
  <2>6. QED
    BY <1>t, <2>1, <2>2, <2>4, <2>5, QueueMove
<1>5. CASE UNCHANGED vars
  <2>1. UNCHANGED <<state, tail, pending, disposed, submitted>>
    BY <1>5 DEF vars
  <2>2. Submissions' /\ PendingInOrder' /\ TailsRight' /\ InTurn'
    BY <2>1 DEF QueueInv, Submissions, PendingInOrder, TailsRight, InTurn, DoneBefore, Done, ToSet
  <2>3. QED
    BY <1>t, <2>2 DEF QueueInv
<1>6. QED
    BY <1>t, <1>1, <1>2, <1>3, <1>4, <1>5, QueueEnqueue, QueueDequeue DEF Next

\* The queue starts right.
LEMMA QueueInit ==
    ASSUME Init
    PROVE  QueueInv
<1>1. pending = <<>> /\ submitted = <<>>
    BY DEF Init
<1>2. DOMAIN submitted = {} /\ DOMAIN pending = {} /\ ToSet(pending) = {}
    BY <1>1 DEF ToSet
<1>3. Submissions /\ PendingInOrder /\ TailsRight /\ InTurn
    BY <1>2 DEF Submissions, PendingInOrder, TailsRight, InTurn
<1>4. QED
    BY <1>3, InitTyped DEF QueueInv

-----------------------------------------------------------------------------
(* Refinement *)

\* The state of SerialWriter that the queue stands for.
Waiting == {op \in Ops : state[op] = "queued"}
Active  == IF Root = {} THEN NoOp ELSE CHOOSE op \in Root : TRUE

\* Of the operations that were queued, one runs at a time.
LEMMA OneRoot ==
    ASSUME QueueInv, NEW p \in Root, NEW q \in Root
    PROVE  p = q
<1>1. PICK i \in DOMAIN submitted : submitted[i] = p
    BY DEF Root, ToSet
<1>2. PICK j \in DOMAIN submitted : submitted[j] = q
    BY DEF Root, ToSet
<1>3. state[p] \in Running /\ state[q] \in Running
    BY DEF Root, RunningOps
<1>4. tail[p] # "rejectedHead" /\ tail[q] # "rejectedHead"
    BY <1>1, <1>2, <1>3, Words DEF QueueInv, TailsRight
<1>5. DoneBefore(i) /\ DoneBefore(j)
    BY <1>1, <1>2, <1>3, <1>4, Apart DEF QueueInv, InTurn
<1>6. ~(i < j) /\ ~(j < i)
    BY <1>1, <1>2, <1>3, <1>5, Apart DEF DoneBefore, Done
<1>7. i \in Int /\ j \in Int
    BY DEF QueueInv, TypeOK
<1>8. QED
    BY <1>1, <1>2, <1>6, <1>7

\* That one is the active operation.
LEMMA RootIsActive ==
    ASSUME QueueInv
    PROVE  /\ \A op \in Ops : op \in Root <=> (op = Active)
           /\ Active \in Root \cup {NoOp}
           /\ Active = NoOp <=> Root = {}
<1>1. Root \subseteq Ops /\ NoOp \notin Ops
    BY AgnesQueueAssumption DEF Root, RunningOps
<1>2. \A p, q \in Root : p = q
    BY OneRoot
<1>3. QED
    BY <1>1, <1>2 DEF Active

\* The queue starts as the serial writer does.
LEMMA SerialInit ==
    ASSUME Init
    PROVE  submitted = <<>> /\ Waiting = {} /\ Active = NoOp
<1>1. \A op \in Ops : state[op] = "idle"
    BY DEF Init
<1>2. Root = {} /\ Waiting = {}
    BY <1>1, Apart, Words DEF Root, RunningOps, Waiting
<1>3. QED
    BY <1>2 DEF Init, Active

\* A step that moves no operation in or out of Root, and none in or out of the
\* queue, is a stutter of the serial writer.
LEMMA Stutters ==
    ASSUME submitted' = submitted, state \in [Ops -> States], state' \in [Ops -> States],
           \A o \in ToSet(submitted) : state'[o] = state[o],
           \A o \in Ops : state[o] = "queued" <=> state'[o] = "queued"
    PROVE  Waiting' = Waiting /\ Active' = Active
<1>1. Root' = Root
  <2>1. \A o \in Ops : o \in ToSet(submitted') <=> o \in ToSet(submitted)
    BY DEF ToSet
  <2>2. ASSUME NEW o \in Ops
        PROVE  o \in Root' <=> o \in Root
    BY <2>1 DEF Root, RunningOps
  <2>3. Root \subseteq Ops /\ Root' \subseteq Ops
    BY DEF Root, RunningOps
  <2>4. QED
    BY <2>2, <2>3
<1>2. QED
    BY <1>1 DEF Waiting, Active

\* Every step of the queue is a step of the serial writer, or none of its business.
LEMMA SerialStep ==
    ASSUME QueueInv, QueueInv', [Next]_vars
    PROVE  [Serial!Next]_(Serial!serialVars)
<1>s. /\ Serial!serialVars = <<submitted, Waiting, Active>>
      /\ Serial!serialVars' = <<submitted', Waiting', Active'>>
    BY DEF Serial!serialVars, Waiting, Active
<1>t. /\ state \in [Ops -> States] /\ state' \in [Ops -> States] /\ submitted \in Seq(Ops)
      /\ submitted' \in Seq(Ops)
      /\ \A i \in DOMAIN submitted : state[submitted[i]] # "idle"
      /\ Root \subseteq Ops /\ Root' \subseteq Ops /\ NoOp \notin Ops
    BY AgnesQueueAssumption DEF QueueInv, TypeOK, Submissions, Root, RunningOps
<1>u. \A o \in ToSet(submitted) : state[o] # "idle" /\ o \in Ops
    BY <1>t DEF ToSet
<1>1. ASSUME NEW op \in Ops, NEW s \in Ops \cup {NoOp}, Enqueue(op, s)
      PROVE  Serial!Submit(op)
  <2>1. /\ state[op] = "idle" /\ state' = [state EXCEPT ![op] = "queued"]
        /\ submitted' = Append(submitted, op)
    BY <1>1 DEF Enqueue
  <2>2. op \notin ToSet(submitted)
    BY <1>u, <2>1
  <2>3. Waiting' = Waiting \cup {op}
    BY <1>t, <2>1 DEF Waiting
  <2>4. Root' = Root
    <3>1. ToSet(submitted') = ToSet(submitted) \cup {op}
      BY <1>t, <2>1, AppendRight
    <3>2. \A o \in Ops : (o \in ToSet(submitted))' <=> o \in ToSet(submitted) \/ o = op
      BY <3>1
    <3>3. state[op] \notin Running /\ state'[op] \notin Running /\ \A o \in Ops \ {op} : state'[o] = state[o]
      BY <1>t, <2>1, Words
    <3>4. ASSUME NEW o \in Ops
          PROVE  o \in Root' <=> o \in Root
      BY <3>2, <3>3 DEF Root, RunningOps
    <3>5. QED
      BY <1>t, <3>4
  <2>5. Active' = Active
    BY <2>4 DEF Active
  <2>6. QED
    BY <2>1, <2>2, <2>3, <2>5 DEF Serial!Submit, Serial!ToSet, ToSet, Waiting, Active
<1>2. ASSUME NEW op \in Ops, NEW s \in Ops \cup {NoOp}, Bypass(op, s)
      PROVE  UNCHANGED <<submitted, Waiting, Active>>
  <2>1. PICK st \in Running : state' = [state EXCEPT ![op] = st]
    BY <1>2 DEF Bypass, Execute, Running
  <2>2. state[op] = "idle" /\ submitted' = submitted
    BY <1>2 DEF Bypass
  <2>3. /\ \A o \in ToSet(submitted) : state'[o] = state[o]
        /\ \A o \in Ops : state[o] = "queued" <=> state'[o] = "queued"
    BY <1>t, <1>u, <2>1, <2>2, Words
  <2>4. QED
    BY <1>t, <2>2, <2>3, Stutters
<1>3. ASSUME NEW op \in Ops, Begin(op)
      PROVE  \E i \in DOMAIN submitted : Serial!Start(i)
  <2>1. PICK st \in Running : state' = [state EXCEPT ![op] = st]
    BY <1>3 DEF Begin, Execute, Running
  <2>2. state[op] = "queued" /\ TailFulfilled(op) /\ submitted' = submitted
    BY <1>3 DEF Begin
  <2>3. PICK i \in DOMAIN submitted : submitted[i] = op /\ DoneBefore(i)
    BY <2>2, BeginInTurn
  <2>4. Root = {} /\ Active = NoOp
    BY <2>2, BeginInTurn DEF Active
  <2>5. op \in Root'
    <3>1. op \in ToSet(submitted')
      BY <2>2, <2>3 DEF ToSet
    <3>2. QED
      BY <1>t, <2>1, <3>1 DEF Root, RunningOps
  <2>6. Active' = op
    <3>1. \A o \in Ops \ {op} : state'[o] = state[o]
      BY <1>t, <2>1
    <3>2. ASSUME NEW o \in Root', o # op
          PROVE  o \in Root
      BY <1>t, <2>2, <3>1, <3>2 DEF Root, RunningOps, ToSet
    <3>3. Root' = {op}
      BY <2>4, <2>5, <3>2
    <3>4. QED
      BY <3>3 DEF Active
  <2>7. Waiting' = Waiting \ {op}
    BY <1>t, <2>1, Words DEF Waiting
  <2>8. op \in Waiting /\ \A j \in DOMAIN submitted : j < i => submitted[j] \notin Waiting
    BY <2>2, <2>3, Apart DEF Waiting, DoneBefore, Done
  <2>9. QED
    BY <2>2, <2>3, <2>4, <2>6, <2>7, <2>8 DEF Serial!Start, Waiting, Active
<1>4. ASSUME NEW op \in Ops, Skip(op)
      PROVE  Serial!Refuse(op)
  <2>1. /\ state[op] = "queued" /\ submitted' = submitted
        /\ state' = [state EXCEPT ![op] = "skipped"]
    BY <1>4 DEF Skip
  <2>2. op \in Waiting /\ Waiting' = Waiting \ {op}
    BY <1>t, <2>1 DEF Waiting
  <2>3. Root' = Root
    <3>1. \A o \in Ops : o \in ToSet(submitted') <=> o \in ToSet(submitted)
      BY <2>1
    <3>2. \A o \in Ops : state'[o] \in Running <=> state[o] \in Running
      BY <1>t, <2>1, Words
    <3>3. ASSUME NEW o \in Ops
          PROVE  o \in Root' <=> o \in Root
      BY <3>1, <3>2, <2>1 DEF Root, RunningOps, ToSet
    <3>4. QED
      BY <1>t, <3>3
  <2>4. Active' = Active
    BY <2>3 DEF Active
  <2>5. QED
    BY <2>1, <2>2, <2>4 DEF Serial!Refuse, Waiting, Active
<1>5. ASSUME NEW op \in Ops, Finish(op)
      PROVE  Serial!Finish \/ UNCHANGED <<submitted, Waiting, Active>>
  <2>1. PICK outcome \in Outcomes(op) : state' = [state EXCEPT ![op] = outcome]
    BY <1>5 DEF Finish
  <2>2. outcome \in {"fulfilled", "rejected"}
    BY DEF Outcomes
  <2>3. state[op] \in Running /\ submitted' = submitted
    BY <1>5 DEF Finish
  <2>4. \A o \in Ops : state[o] = "queued" <=> state'[o] = "queued"
    BY <1>t, <2>1, <2>2, <2>3, Words
  <2>5. CASE op \in ToSet(submitted)
    <3>1. op \in Root
      BY <2>3, <2>5 DEF Root, RunningOps
    <3>2. Active = op
      BY <3>1, RootIsActive
    <3>3. Root' = {}
      <4>1. SUFFICES ASSUME NEW o \in Root'
                     PROVE  FALSE
        OBVIOUS
      <4>2. o \in Ops /\ state'[o] \in Running /\ o \in ToSet(submitted)
        BY <2>3 DEF Root, RunningOps, ToSet
      <4>3. o # op
        BY <1>t, <2>1, <2>2, <4>2, Words
      <4>4. o \in Root
        BY <1>t, <2>1, <4>2, <4>3 DEF Root, RunningOps
      <4>5. QED
        BY <3>1, <4>3, <4>4, OneRoot
    <3>4. Active' = NoOp /\ Active # NoOp /\ Waiting' = Waiting
      BY <1>t, <2>4, <3>2, <3>3 DEF Active, Waiting
    <3>5. QED
      BY <2>3, <3>4 DEF Serial!Finish, Active, Waiting
  <2>6. CASE op \notin ToSet(submitted)
    <3>1. \A o \in ToSet(submitted) : state'[o] = state[o]
      BY <1>t, <1>u, <2>1, <2>6
    <3>2. QED
      BY <1>t, <2>3, <2>4, <3>1, Stutters
  <2>7. QED
    BY <2>5, <2>6
<1>6. ASSUME NEW op \in Ops, Dequeue(op)
      PROVE  UNCHANGED <<submitted, Waiting, Active>>
  <2>1. UNCHANGED <<state, submitted>>
    BY <1>6 DEF Dequeue
  <2>2. QED
    BY <1>t, <2>1, Stutters
<1>7. CASE UNCHANGED vars
  <2>1. UNCHANGED <<state, submitted>>
    BY <1>7 DEF vars
  <2>2. UNCHANGED <<submitted, Waiting, Active>>
    BY <1>t, <2>1, Stutters
  <2>3. QED
    BY <1>s, <2>2
<1>8. QED
    BY <1>s, <1>1, <1>2, <1>3, <1>4, <1>5, <1>6, <1>7 DEF Next, Serial!Next

\* The queue implements the serial writer, whatever the code inside operations does:
\* operations run one at a time, in the order of their submission, across skips, a
\* dispose, nested calls and dequeues in any order.
THEOREM ImplementsSerialWriter == Spec => RefinesSerialWriter
<1>1. Init => QueueInv /\ Serial!Init
  <2>1. Init => submitted = <<>> /\ Waiting = {} /\ Active = NoOp
    BY SerialInit
  <2>2. QED
    BY <2>1, QueueInit DEF Serial!Init, Waiting, Active
<1>2. QueueInv /\ [Next]_vars => QueueInv'
    BY QueueStep
<1>3. QueueInv /\ QueueInv' /\ [Next]_vars => [Serial!Next]_(Serial!serialVars)
    BY SerialStep
<1>4. QED
    BY <1>1, <1>2, <1>3, PTL DEF Spec, RefinesSerialWriter, Serial!Spec

-----------------------------------------------------------------------------
(* The innermost operation *)

\* A chain, as the steps use it.
LEMMA ChainRight ==
    ASSUME NEW ch, IsChain(ch)
    PROVE  /\ ch \in Seq(Ops) /\ Len(ch) \in Nat /\ DOMAIN ch = 1..Len(ch)
           /\ \A k \in 1..Len(ch) : ch[k] \in Ops /\ state[ch[k]] \in Running
           /\ \A op \in Ops : state[op] \in Running => \E k \in 1..Len(ch) : ch[k] = op
           /\ \A j, k \in 1..Len(ch) : ch[j] = ch[k] => j = k
           /\ \A k \in 1..Len(ch) : k + 1 \in 1..Len(ch) =>
                 prev[ch[k + 1]] = ch[k] /\ store[ch[k + 1]] = ch[k]
           /\ Len(ch) = 0 => current = NoOp
           /\ Len(ch) # 0 => /\ 1 \in 1..Len(ch) /\ current = ch[Len(ch)] /\ prev[ch[1]] = NoOp
                             /\ ch[1] \in ToSet(submitted)
<1>1. ch \in Seq(Ops) /\ Len(ch) \in Nat /\ DOMAIN ch = 1..Len(ch) /\ \A k \in 1..Len(ch) : ch[k] \in Ops
    BY DEF IsChain
<1>2. RunningOps = {ch[k] : k \in 1..Len(ch)}
    BY <1>1 DEF IsChain, ToSet
<1>3. /\ \A k \in 1..Len(ch) : state[ch[k]] \in Running
      /\ \A op \in Ops : state[op] \in Running => \E k \in 1..Len(ch) : ch[k] = op
    BY <1>1, <1>2 DEF RunningOps
<1>4. ch = <<>> <=> Len(ch) = 0
    BY <1>1
<1>5. /\ \A j, k \in 1..Len(ch) : ch[j] = ch[k] => j = k
      /\ \A k \in 1..Len(ch) : k + 1 \in 1..Len(ch) =>
            prev[ch[k + 1]] = ch[k] /\ store[ch[k + 1]] = ch[k]
    BY <1>1 DEF IsChain
<1>6. Len(ch) = 0 => current = NoOp
    BY <1>4 DEF IsChain, Innermost
<1>7. Len(ch) # 0 => /\ 1 \in 1..Len(ch) /\ current = ch[Len(ch)] /\ prev[ch[1]] = NoOp
                     /\ ch[1] \in ToSet(submitted)
  <2>1. Len(ch) # 0 => 1 \in 1..Len(ch)
    BY <1>1
  <2>2. QED
    BY <1>4, <2>1 DEF IsChain, Innermost
<1>8. QED
    BY <1>1, <1>3, <1>5, <1>6, <1>7

\* What it takes to be a chain after a step.
LEMMA ChainNext ==
    ASSUME NEW n \in Nat, NEW ch \in Seq(Ops), DOMAIN ch = 1..n,
           \A k \in 1..n : state'[ch[k]] \in Running,
           \A op \in Ops : state'[op] \in Running => \E k \in 1..n : ch[k] = op,
           \A j, k \in 1..n : ch[j] = ch[k] => j = k,
           \A k \in 1..n : k + 1 \in 1..n => prev'[ch[k + 1]] = ch[k] /\ store'[ch[k + 1]] = ch[k],
           n = 0 => current' = NoOp,
           n # 0 => current' = ch[n] /\ prev'[ch[1]] = NoOp /\ ch[1] \in ToSet(submitted')
    PROVE  IsChain(ch)'
<1>1. Len(ch) = n /\ \A k \in 1..n : ch[k] \in Ops
    OBVIOUS
<1>2. ch = <<>> <=> n = 0
    BY <1>1
<1>3. RunningOps' = ToSet(ch)
    BY <1>1 DEF RunningOps, ToSet
<1>4. current' = Innermost(ch) /\ (ch # <<>> => prev'[ch[1]] = NoOp /\ ch[1] \in ToSet(submitted'))
    BY <1>1, <1>2 DEF Innermost
<1>5. /\ \A j, k \in DOMAIN ch : ch[j] = ch[k] => j = k
      /\ \A k \in DOMAIN ch : k + 1 \in DOMAIN ch =>
            prev'[ch[k + 1]] = ch[k] /\ store'[ch[k + 1]] = ch[k]
    OBVIOUS
<1>6. QED
    BY <1>3, <1>4, <1>5 DEF IsChain

\* A step that begins and ends no operation keeps the chain.
LEMMA ChainKept ==
    ASSUME NEW ch, IsChain(ch),
           \A op \in Ops : state'[op] \in Running <=> state[op] \in Running,
           \A op \in Ops : state[op] \in Running => prev'[op] = prev[op] /\ store'[op] = store[op],
           current' = current,
           \A op \in ToSet(submitted) : op \in ToSet(submitted')
    PROVE  IsChain(ch)'
<1> DEFINE n == Len(ch)
<1>1. n \in Nat /\ ch \in Seq(Ops) /\ DOMAIN ch = 1..n
    BY ChainRight
<1>2. \A k \in 1..n : state'[ch[k]] \in Running
    BY ChainRight
<1>3. \A op \in Ops : state'[op] \in Running => \E k \in 1..n : ch[k] = op
    BY ChainRight
<1>4. \A j, k \in 1..n : ch[j] = ch[k] => j = k
    BY ChainRight
<1>5. \A k \in 1..n : k + 1 \in 1..n => prev'[ch[k + 1]] = ch[k] /\ store'[ch[k + 1]] = ch[k]
    BY ChainRight
<1>6. n = 0 => current' = NoOp
    BY ChainRight
<1>7. n # 0 => current' = ch[n] /\ prev'[ch[1]] = NoOp /\ ch[1] \in ToSet(submitted')
    BY ChainRight
<1> HIDE DEF n
<1>8. QED
    BY <1>1, <1>2, <1>3, <1>4, <1>5, <1>6, <1>7, ChainNext

\* One that begins an operation puts it at the end of the chain.
LEMMA ChainGrows ==
    ASSUME TypeOK, NEW ch, IsChain(ch), NEW op \in Ops, state[op] \notin Running, Execute(op),
           \A o \in Ops : o # op => store'[o] = store[o],
           IF ch = <<>> THEN op \in ToSet(submitted) ELSE store'[op] = current,
           submitted' = submitted
    PROVE  \E more \in Seq(Ops) : IsChain(more)'
<1> DEFINE n == Len(ch)
           more == Append(ch, op)
<1>1. n \in Nat /\ ch \in Seq(Ops) /\ (ch = <<>> <=> n = 0)
    BY ChainRight
<1>2. /\ more \in Seq(Ops) /\ DOMAIN more = 1..n + 1
      /\ \A k \in 1..n : more[k] = ch[k]
      /\ more[n + 1] = op
    BY <1>1, AppendRight
<1>3. /\ \A k \in 1..n : ch[k] \in Ops /\ state[ch[k]] \in Running /\ ch[k] # op
      /\ \A o \in Ops : state[o] \in Running => \E k \in 1..n : ch[k] = o
      /\ \A j, k \in 1..n : ch[j] = ch[k] => j = k
      /\ \A k \in 1..n : k + 1 \in 1..n => prev[ch[k + 1]] = ch[k] /\ store[ch[k + 1]] = ch[k]
      /\ n = 0 => current = NoOp
      /\ n # 0 => 1 \in 1..n /\ current = ch[n] /\ prev[ch[1]] = NoOp /\ ch[1] \in ToSet(submitted)
    BY ChainRight
<1>4. /\ prev'[op] = current /\ current' = op /\ state'[op] \in Running
      /\ \A o \in Ops : o # op => prev'[o] = prev[o] /\ state'[o] = state[o]
  <2>1. prev \in [Ops -> Ops \cup {NoOp}] /\ state \in [Ops -> States]
    BY DEF TypeOK
  <2>2. QED
    BY <2>1, Words DEF Execute
<1> HIDE DEF n, more
<1>5. 1..n + 1 = 1..n \cup {n + 1} /\ n + 1 \notin 1..n /\ n + 1 \in Nat /\ n + 1 # 0
    BY <1>1
<1>6. \A k \in 1..n + 1 : state'[more[k]] \in Running
    BY <1>2, <1>3, <1>4, <1>5
<1>7. \A o \in Ops : state'[o] \in Running => \E k \in 1..n + 1 : more[k] = o
  <2> SUFFICES ASSUME NEW o \in Ops, state'[o] \in Running
               PROVE  \E k \in 1..n + 1 : more[k] = o
    OBVIOUS
  <2>1. CASE o = op
    BY <1>2, <1>5, <2>1
  <2>2. CASE o # op
    <3>1. PICK k \in 1..n : ch[k] = o
      BY <1>3, <1>4, <2>2
    <3>2. QED
      BY <1>2, <1>5, <3>1
  <2>3. QED
    BY <2>1, <2>2
<1>8. \A j, k \in 1..n + 1 : more[j] = more[k] => j = k
    BY <1>2, <1>3, <1>5
<1>9. ASSUME NEW k \in 1..n + 1, k + 1 \in 1..n + 1
      PROVE  prev'[more[k + 1]] = more[k] /\ store'[more[k + 1]] = more[k]
  <2>1. k \in 1..n
    BY <1>1, <1>9
  <2>2. CASE k + 1 \in 1..n
    BY <1>2, <1>3, <1>4, <2>1, <2>2
  <2>3. CASE k + 1 = n + 1
    <3>1. k = n /\ n # 0
      BY <1>1, <2>1, <2>3
    <3>2. more[k] = current /\ more[k + 1] = op
      BY <1>2, <1>3, <2>1, <2>3, <3>1
    <3>3. QED
      BY <1>1, <1>4, <3>1, <3>2
  <2>4. QED
    BY <1>5, <1>9, <2>2, <2>3
<1>10. current' = more[n + 1] /\ prev'[more[1]] = NoOp /\ more[1] \in ToSet(submitted')
  <2>1. CASE n = 0
    BY <1>1, <1>2, <1>3, <1>4, <2>1
  <2>2. CASE n # 0
    BY <1>2, <1>3, <1>4, <2>2
  <2>3. QED
    BY <2>1, <2>2
<1>11. IsChain(more)'
    BY <1>2, <1>5, <1>6, <1>7, <1>8, <1>9, <1>10, ChainNext
<1>12. QED
    BY <1>2, <1>11

\* One that ends the last operation of the chain shortens it.
LEMMA ChainShrinks ==
    ASSUME NEW ch, IsChain(ch), ch # <<>>, current' = prev[ch[Len(ch)]],
           NEW outcome, outcome \notin Running, state \in [Ops -> States],
           state' = [state EXCEPT ![ch[Len(ch)]] = outcome],
           UNCHANGED <<store, prev, submitted>>
    PROVE  \E less \in Seq(Ops) : IsChain(less)'
<1> DEFINE n == Len(ch)
           m == n - 1
           less == [k \in 1..m |-> ch[k]]
           op == ch[n]
<1>1. n \in Nat /\ n # 0 /\ op \in Ops
    BY ChainRight
<1>2. m \in Nat /\ n = m + 1 /\ \A k \in 1..n : k \in 1..m \/ k = n
    BY <1>1
<1>3. /\ \A k \in 1..n : ch[k] \in Ops /\ state[ch[k]] \in Running
      /\ \A o \in Ops : state[o] \in Running => \E k \in 1..n : ch[k] = o
      /\ \A j, k \in 1..n : ch[j] = ch[k] => j = k
      /\ \A k \in 1..n : k + 1 \in 1..n => prev[ch[k + 1]] = ch[k] /\ store[ch[k + 1]] = ch[k]
      /\ prev[ch[1]] = NoOp /\ ch[1] \in ToSet(submitted)
    BY <1>1, ChainRight
<1>4. state' = [state EXCEPT ![op] = outcome] /\ current' = prev[op]
    OBVIOUS
<1> HIDE DEF n, op
<1>5. m \in 1..n \/ m = 0
    BY <1>2
<1>6. \A k \in 1..m : k \in 1..n /\ ch[k] \in Ops /\ ch[k] # op
    BY <1>1, <1>2, <1>3 DEF op
<1> HIDE DEF m
<1>7. less \in Seq(Ops) /\ DOMAIN less = 1..m /\ \A k \in 1..m : less[k] = ch[k]
    BY <1>2, <1>6
<1> HIDE DEF less
<1>8. \A o \in Ops : o # op => state'[o] = state[o]
    BY <1>4
<1>9. \A k \in 1..m : state'[less[k]] \in Running
    BY <1>3, <1>6, <1>7, <1>8
<1>10. ASSUME NEW o \in Ops, state'[o] \in Running
       PROVE  \E k \in 1..m : less[k] = o
  <2>1. o # op
    BY <1>1, <1>4, <1>10
  <2>2. PICK k \in 1..n : ch[k] = o
    BY <1>3, <1>8, <1>10, <2>1
  <2>3. k \in 1..m
    BY <1>2, <2>1, <2>2 DEF op
  <2>4. QED
    BY <1>7, <2>2, <2>3
<1>11. \A j, k \in 1..m : less[j] = less[k] => j = k
    BY <1>3, <1>6, <1>7
<1>12. \A k \in 1..m : k + 1 \in 1..m => prev'[less[k + 1]] = less[k] /\ store'[less[k + 1]] = less[k]
    BY <1>3, <1>6, <1>7
<1>13. m = 0 => current' = NoOp
    BY <1>2, <1>3, <1>4 DEF op
<1>14. m # 0 => current' = less[m] /\ prev'[less[1]] = NoOp /\ less[1] \in ToSet(submitted')
  <2>1. SUFFICES ASSUME m # 0
                 PROVE  current' = less[m] /\ prev'[less[1]] = NoOp /\ less[1] \in ToSet(submitted')
    OBVIOUS
  <2>2. m \in 1..m /\ 1 \in 1..m /\ m \in 1..n /\ m + 1 \in 1..n
    BY <1>2, <2>1
  <2>3. prev[ch[m + 1]] = ch[m]
    BY <1>3, <2>2
  <2>4. current' = ch[m]
    BY <1>2, <1>4, <2>3 DEF op
  <2>5. QED
    BY <1>3, <1>7, <2>2, <2>4
<1>15. IsChain(less)'
    BY <1>2, <1>7, <1>9, <1>10, <1>11, <1>12, <1>13, <1>14, ChainNext
<1>16. QED
    BY <1>7, <1>15

\* Every step keeps the operations that run in a chain.
LEMMA NestingStep ==
    ASSUME QueueInv, NestingInv, [Next]_vars
    PROVE  NestingInv'
<1>1. discipline' = discipline
    BY DEF Next, Enqueue, Bypass, Begin, Skip, Finish, Dequeue, vars
<1> SUFFICES ASSUME discipline # "detached"
             PROVE  \E next \in Seq(Ops) : IsChain(next)'
    BY <1>1 DEF NestingInv
<1>2. PICK ch \in Seq(Ops) : IsChain(ch)
    BY DEF NestingInv
<1>t. /\ TypeOK /\ state \in [Ops -> States] /\ store \in [Ops -> Ops \cup {NoOp}]
      /\ submitted \in Seq(Ops) /\ NoOp \notin Ops
    BY AgnesQueueAssumption DEF QueueInv, TypeOK
<1>3. ASSUME NEW op \in Ops, NEW s \in Ops \cup {NoOp}, Enqueue(op, s)
      PROVE  IsChain(ch)'
  <2>1. /\ state[op] = "idle" /\ state' = [state EXCEPT ![op] = "queued"]
        /\ store' = [store EXCEPT ![op] = s] /\ submitted' = Append(submitted, op)
        /\ UNCHANGED <<prev, current>>
    BY <1>3 DEF Enqueue
  <2>2. ToSet(submitted') = ToSet(submitted) \cup {op}
    BY <1>t, <2>1, AppendRight
  <2>3. \A o \in Ops : state'[o] \in Running <=> state[o] \in Running
    BY <1>t, <2>1, Words
  <2>4. \A o \in Ops : state[o] \in Running => prev'[o] = prev[o] /\ store'[o] = store[o]
    BY <1>t, <2>1, Words
  <2>5. QED
    BY <1>2, <2>1, <2>2, <2>3, <2>4, ChainKept
<1>4. ASSUME NEW op \in Ops, NEW s \in Ops \cup {NoOp}, Bypass(op, s)
      PROVE  \E next \in Seq(Ops) : IsChain(next)'
  <2>1. /\ state[op] = "idle" /\ s = current /\ current # NoOp
        /\ store' = [store EXCEPT ![op] = s] /\ Execute(op) /\ submitted' = submitted
    BY <1>4 DEF Bypass, Reentrant
  <2>2. ch # <<>> /\ state[op] \notin Running
    BY <1>2, <2>1, Words DEF IsChain, Innermost
  <2>3. store'[op] = current /\ \A o \in Ops : o # op => store'[o] = store[o]
    BY <1>t, <2>1
  <2>4. QED
    BY <1>2, <1>t, <2>1, <2>2, <2>3, ChainGrows
<1>5. ASSUME NEW op \in Ops, Begin(op)
      PROVE  \E next \in Seq(Ops) : IsChain(next)'
  <2>1. /\ state[op] = "queued" /\ TailFulfilled(op) /\ Execute(op)
        /\ UNCHANGED <<store, submitted>>
    BY <1>5 DEF Begin
  <2>2. Root = {} /\ op \in ToSet(submitted)
    BY <2>1, BeginInTurn DEF ToSet
  <2>3. ch = <<>>
    <3>1. ASSUME ch # <<>>
          PROVE  ch[1] \in Root
      <4>1. Len(ch) # 0
        BY <1>2, <3>1, ChainRight
      <4>2. ch[1] \in Ops /\ state[ch[1]] \in Running /\ ch[1] \in ToSet(submitted)
        BY <1>2, <4>1, ChainRight
      <4>3. QED
        BY <4>2 DEF Root, RunningOps
    <3>2. QED
      BY <2>2, <3>1
  <2>4. state[op] \notin Running
    BY <2>1, Words
  <2>5. QED
    BY <1>2, <1>t, <2>1, <2>2, <2>3, <2>4, ChainGrows
<1>6. ASSUME NEW op \in Ops, Skip(op)
      PROVE  IsChain(ch)'
  <2>1. /\ state[op] = "queued" /\ state' = [state EXCEPT ![op] = "skipped"]
        /\ UNCHANGED <<store, prev, current, submitted>>
    BY <1>6 DEF Skip
  <2>2. \A o \in Ops : state'[o] \in Running <=> state[o] \in Running
    BY <1>t, <2>1, Words
  <2>3. \A o \in ToSet(submitted) : o \in ToSet(submitted')
    BY <2>1 DEF ToSet
  <2>4. QED
    BY <1>2, <2>1, <2>2, <2>3, ChainKept
<1>7. ASSUME NEW op \in Ops, Finish(op)
      PROVE  \E next \in Seq(Ops) : IsChain(next)'
  <2>1. PICK outcome \in Outcomes(op) : state' = [state EXCEPT ![op] = outcome]
    BY <1>7 DEF Finish
  <2>2. outcome \notin Running
    BY Words DEF Outcomes
  <2>3. /\ state[op] \in Running /\ Outstanding(op) = {} /\ current' = prev[op]
        /\ UNCHANGED <<store, prev, submitted>>
    BY <1>7 DEF Finish, RestoredBy
  <2>4. PICK k \in 1..Len(ch) : ch[k] = op
    BY <1>2, <2>3, ChainRight
  <2>5. k = Len(ch)
    <3>1. ASSUME k + 1 \in 1..Len(ch)
          PROVE  FALSE
      <4>1. ch[k + 1] \in Ops /\ state[ch[k + 1]] \in Running /\ store[ch[k + 1]] = op
        BY <1>2, <2>4, <3>1, ChainRight
      <4>2. ch[k + 1] \in Outstanding(op)
        BY <4>1 DEF Outstanding
      <4>3. QED
        BY <2>3, <4>2
    <3>2. Len(ch) \in Nat
      BY <1>2, ChainRight
    <3>3. QED
      BY <3>1, <3>2
  <2>6. ch # <<>>
    BY <2>4, <2>5
  <2>7. state' = [state EXCEPT ![ch[Len(ch)]] = outcome] /\ current' = prev[ch[Len(ch)]]
    BY <2>1, <2>3, <2>4, <2>5
  <2>8. QED
    BY <1>2, <1>t, <2>2, <2>3, <2>6, <2>7, ChainShrinks
<1>8. ASSUME UNCHANGED <<state, store, prev, current, submitted>>
      PROVE  IsChain(ch)'
  <2>1. \A o \in ToSet(submitted) : o \in ToSet(submitted')
    BY <1>8 DEF ToSet
  <2>2. QED
    BY <1>2, <1>8, <2>1, ChainKept
<1>9. ASSUME NEW op \in Ops, Dequeue(op)
      PROVE  IsChain(ch)'
  <2>1. UNCHANGED <<state, store, prev, current, submitted>>
    BY <1>9 DEF Dequeue
  <2>2. QED
    BY <1>8, <2>1
<1>10. CASE UNCHANGED vars
  <2>1. UNCHANGED <<state, store, prev, current, submitted>>
    BY <1>10 DEF vars
  <2>2. QED
    BY <1>2, <1>8, <2>1
<1>11. QED
    BY <1>2, <1>3, <1>4, <1>5, <1>6, <1>7, <1>9, <1>10 DEF Next

\* The end of a chain is nested in every part of it: what contains the end, and with
\* each operation the one in whose context it was submitted, contains the chain.
LEMMA EndNested ==
    ASSUME store \in [Ops -> Ops \cup {NoOp}], NEW ch, IsChain(ch), NEW k \in 1..Len(ch)
    PROVE  Nested(ch[Len(ch)], ch[k])
<1> DEFINE n == Len(ch)
<1> SUFFICES ASSUME NEW S \in SUBSET Ops, ch[n] \in S, \A o \in S : store[o] \in S \cup {NoOp}
             PROVE  ch[k] \in S
    BY DEF Nested
<1>1. /\ n \in Nat /\ \A j \in 1..n : ch[j] \in Ops
      /\ \A j \in 1..n : j + 1 \in 1..n => store[ch[j + 1]] = ch[j]
    BY ChainRight
<1> HIDE DEF n
<1> DEFINE A == {j \in 1..n : \A i \in 1..n : j <= i => ch[i] \in S}
<1>2. n \in 1..n /\ k \in 1..n
    BY <1>1 DEF n
<1>3. n \in A /\ A \in SUBSET Nat
    BY <1>1, <1>2
<1>4. PICK m \in A : \A j \in A : m <= j
  <2> HIDE DEF A
  <2>1. QED
    BY <1>3, LeastNumber
<1>5. m = 1
  <2>1. SUFFICES ASSUME m # 1
                 PROVE  m - 1 \in A
    BY <1>1, <1>4
  <2>2. m - 1 \in 1..n /\ (m - 1) + 1 = m /\ m \in 1..n /\ ch[m] \in S
    BY <1>1, <2>1
  <2>3. store[ch[m]] = ch[m - 1] /\ ch[m - 1] \in Ops
    BY <1>1, <2>2
  <2>4. ch[m - 1] \in S
    BY <2>2, <2>3, AgnesQueueAssumption
  <2>5. \A i \in 1..n : m - 1 <= i => i = m - 1 \/ m <= i
    BY <1>1, <2>2
  <2>6. QED
    BY <2>2, <2>4, <2>5
<1>6. 1 \in A
    BY <1>5
<1>7. QED
    BY <1>1, <1>2, <1>6

\* _current names the innermost running operation and is undefined when none runs,
\* as long as nested calls are awaited: the operations that run are a chain, each
\* begun inside the one before and submitted in its context, and _current is its end.
THEOREM CurrentInnermost == Spec => []CurrentIsInnermost
<1>1. Init => QueueInv /\ NestingInv
  <2>1. ASSUME Init
        PROVE  IsChain(<<>>) /\ <<>> \in Seq(Ops)
    <3>1. current = NoOp /\ \A op \in Ops : state[op] = "idle"
      BY <2>1 DEF Init
    <3>2. RunningOps = {} /\ ToSet(<<>>) = {} /\ <<>> \in Seq(Ops) /\ DOMAIN <<>> = {}
      BY <3>1, Words DEF RunningOps, ToSet
    <3>3. QED
      BY <3>1, <3>2 DEF IsChain, Innermost
  <2>2. QED
    BY <2>1, QueueInit DEF NestingInv
<1>2. QueueInv /\ NestingInv /\ [Next]_vars => QueueInv' /\ NestingInv'
    BY QueueStep, NestingStep
<1>3. QueueInv /\ NestingInv => CurrentIsInnermost
  <2> SUFFICES ASSUME QueueInv, NestingInv, discipline # "detached"
               PROVE  IF RunningOps = {} THEN current = NoOp
                      ELSE current \in RunningOps /\ \A op \in RunningOps : Nested(current, op)
    BY DEF CurrentIsInnermost
  <2>1. PICK ch \in Seq(Ops) : IsChain(ch)
    BY DEF NestingInv
  <2>2. store \in [Ops -> Ops \cup {NoOp}]
    BY DEF QueueInv, TypeOK
  <2>3. CASE Len(ch) = 0
    <3>1. RunningOps = {}
      BY <2>1, <2>3, ChainRight DEF RunningOps
    <3>2. QED
      BY <2>1, <2>3, <3>1, ChainRight
  <2>4. CASE Len(ch) # 0
    <3>1. current = ch[Len(ch)] /\ Len(ch) \in 1..Len(ch)
      BY <2>1, <2>4, ChainRight
    <3>2. current \in RunningOps
      BY <2>1, <3>1, ChainRight DEF RunningOps
    <3>3. ASSUME NEW op \in RunningOps
          PROVE  Nested(current, op)
      <4>1. PICK k \in 1..Len(ch) : ch[k] = op
        BY <2>1, ChainRight DEF RunningOps
      <4>2. QED
        BY <2>1, <2>2, <3>1, <4>1, EndNested
    <3>4. QED
      BY <3>2, <3>3
  <2>5. QED
    BY <2>3, <2>4
<1>4. QED
    BY <1>1, <1>2, <1>3, PTL DEF Spec
=============================================================================
