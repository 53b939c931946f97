----------------------------- MODULE HeapProofs -----------------------------
(***************************************************************************)
(* Theorems about HeapMachine, for every finite set of keys and all ranks: *)
(* both heaps stay right in their index and in order through every         *)
(* operation, and pop takes a first key.                                   *)
(***************************************************************************)
EXTENDS HeapMachine, HeapLemmas, FiniteSetTheorems

\* The sifts and the array operations of QwenHeap are those of AgnesHeap.
LEMMA QwenSame ==
    /\ \A h, at, before : Qwen!H!SiftUp(h, at, before) = SiftUp(h, at, before)
    /\ \A h, at, before : Qwen!H!SiftDown(h, at, before) = SiftDown(h, at, before)
    /\ \A h, k : Qwen!H!Vacate(h, k) = Vacate(h, k)
    /\ \A h, before : Qwen!H!Pop(h, before) = Pop(h, before)
    /\ \A h, entries, before : Qwen!H!Heapify(h, entries, before) = Heapify(h, entries, before)
<1>1. \A h, at, before : Qwen!H!SiftUp(h, at, before) = SiftUp(h, at, before)
    BY DEF Qwen!H!SiftUp, SiftUp, Qwen!H!Swap, Swap, Qwen!H!Sifts, Sifts, Qwen!H!Arrays, Arrays
<1>2. \A h, at, before : Qwen!H!SiftDown(h, at, before) = SiftDown(h, at, before)
    BY DEF Qwen!H!SiftDown, SiftDown, Qwen!H!Swap, Swap, Qwen!H!Sifts, Sifts,
           Qwen!H!Arrays, Arrays, Qwen!H!Best, Best
<1>3. \A h, k : Qwen!H!Vacate(h, k) = Vacate(h, k)
    BY DEF Qwen!H!Vacate, Vacate, Qwen!H!Size, Size
<1>4. \A h, before : Qwen!H!Pop(h, before) = Pop(h, before)
    BY <1>2, <1>3 DEF Qwen!H!Pop, Pop, Qwen!H!Size, Size
<1>5. \A h, entries : Qwen!H!Flat(h, entries) = Flat(h, entries)
    BY DEF Qwen!H!Flat, Flat
<1>6. \A h, before : Qwen!H!Sunk(h, before) = Sunk(h, before)
    BY <1>2 DEF Qwen!H!Sunk, Sunk, Qwen!H!SiftDown, SiftDown, Qwen!H!Swap, Swap, Qwen!H!Sifts, Sifts,
           Qwen!H!Arrays, Arrays, Qwen!H!Best, Best, Qwen!H!Size, Size
<1>7. QED
    BY <1>1, <1>2, <1>3, <1>4, <1>5, <1>6 DEF Qwen!H!Heapify, Heapify

\* The push of qwen puts a new entry in.
LEMMA QwenPushed ==
    ASSUME NEW before, IsOrder(Keys, before), NEW h, SoundHeap(h, Keys, before),
           NEW k \in Keys, h.index[k] = 0
    PROVE  /\ SoundHeap(Qwen!Push(h, k, before), Keys, before)
           /\ KeysIn(Qwen!Push(h, k, before)) = KeysIn(h) \cup {k}
<1>1. Qwen!Push(h, k, before) = SiftUp(Appended(h, k), Size(h) + 1, before)[1]
    BY QwenSame DEF Qwen!Push, Qwen!SiftedUp, Qwen!H!Size, Size, Appended
<1>2. QED
    BY <1>1, AppendedRight

\* The remove of qwen takes the entry out and leaves the others in order.
LEMMA QwenRemoved ==
    ASSUME NEW before, IsOrder(Keys, before), NEW h, SoundHeap(h, Keys, before), NEW k \in Keys
    PROVE  /\ SoundHeap(Qwen!RemoveEntry(h, k, before), Keys, before)
           /\ KeysIn(Qwen!RemoveEntry(h, k, before)) = KeysIn(h) \ {k}
<1>1. CASE h.index[k] = 0
  <2>1. Qwen!RemoveEntry(h, k, before) = h
    BY <1>1 DEF Qwen!RemoveEntry, Qwen!HasEntry, Qwen!H!HeapContains
  <2>2. k \notin KeysIn(h)
    BY <1>1 DEF KeysIn
  <2>3. QED
    BY <2>1, <2>2
<1>2. CASE h.index[k] # 0
  <2> DEFINE rest == Vacate(h, k)
             at == h.index[k]
             g == IF Rises(<<rest, at>>, before) THEN SiftUp(rest, at, before)[1]
                  ELSE SiftDown(rest, at, before)[1]
  <2>1. Qwen!RemoveEntry(h, k, before) = IF at > Size(rest) THEN rest ELSE Qwen!Replace(rest, at, before)
    BY <1>2, QwenSame DEF Qwen!RemoveEntry, Qwen!HasEntry, Qwen!H!HeapContains, Qwen!H!Size, Size
  <2>2. Qwen!Replace(rest, at, before) = g
    BY QwenSame DEF Qwen!Replace, Qwen!SiftedUp, Qwen!SiftedDown, Rises
  <2>3. /\ rest \in Arrays(Keys) /\ Coherent(rest) /\ KeysIn(rest) = KeysIn(h) \ {k}
        /\ Size(rest) = Size(h) - 1 /\ Size(h) \in Nat /\ at \in 1..Size(h)
        /\ IF at <= Size(rest) THEN at \in 1..Size(rest) /\ Astray(<<rest, at>>, before)
           ELSE Ordered(rest, before)
    BY <1>2, Vacated
  <2>4. at > Size(rest) <=> ~(at <= Size(rest))
    BY <2>3
  <2> HIDE DEF rest, at
  <2>5. CASE at <= Size(rest)
    <3>1. g \in Arrays(Keys) /\ Alike(g, rest) /\ Ordered(g, before)
      BY <2>3, <2>5, Replaced
    <3> HIDE DEF g
    <3>2. QED
      BY <2>1, <2>2, <2>3, <2>4, <2>5, <3>1 DEF SoundHeap, Alike
  <2>6. CASE ~(at <= Size(rest))
    BY <2>1, <2>3, <2>4, <2>6 DEF SoundHeap
  <2>7. QED
    BY <2>5, <2>6
<1>3. QED
    BY <1>1, <1>2

-----------------------------------------------------------------------------
(* The machine *)

\* Ranks are numbers: they order the keys, and one that changes concerns its key only.
LEMMA RanksOrder ==
    ASSUME NEW r \in [Keys -> Ranks]
    PROVE  /\ IsOrder(Keys, Order(r))
           /\ \A k \in Keys, new \in Ranks :
                 /\ [r EXCEPT ![k] = new] \in [Keys -> Ranks]
                 /\ AgreeBut(Keys, k, Order(r), Order([r EXCEPT ![k] = new]))
           /\ \A k \in Keys : AgreeBut(Keys, k, Order(r), Order(r))
           /\ \A a, b \in Keys : <<a, b>> \notin Order(r) <=> r[b] <= r[a]
<1>1. \A k \in Keys : r[k] \in Nat
    BY HeapMachineAssumption
<1>2. \A a, b \in Keys : <<a, b>> \in Order(r) <=> r[a] < r[b]
    BY DEF Order
<1>3. \A a, b \in Keys : <<a, b>> \notin Order(r) <=> r[b] <= r[a]
  <2>1. SUFFICES ASSUME NEW a \in Keys, NEW b \in Keys
                 PROVE  <<a, b>> \notin Order(r) <=> r[b] <= r[a]
    OBVIOUS
  <2>2. ~(r[a] < r[b]) <=> r[b] <= r[a]
    BY <1>1
  <2>3. QED
    BY <1>2, <2>2
<1>4. IsOrder(Keys, Order(r))
  <2>1. \A a, b \in Keys : <<a, b>> \in Order(r) => <<b, a>> \notin Order(r)
    BY <1>1, <1>2
  <2>2. \A a, b, c \in Keys : <<b, a>> \notin Order(r) /\ <<c, b>> \notin Order(r) => <<c, a>> \notin Order(r)
    BY <1>1, <1>3
  <2>3. QED
    BY <2>1, <2>2 DEF IsOrder
<1>5. ASSUME NEW k \in Keys, NEW new \in Ranks
      PROVE  /\ [r EXCEPT ![k] = new] \in [Keys -> Ranks]
             /\ AgreeBut(Keys, k, Order(r), Order([r EXCEPT ![k] = new]))
  BY DEF Order, AgreeBut
<1>6. QED
    BY <1>3, <1>4, <1>5 DEF AgreeBut

\* The heap is right in its index and in order.
Sound ==
    /\ program \in {"agnes", "qwen"}
    /\ rank \in [Keys -> Ranks]
    /\ SoundHeap(heap, Keys, Order(rank))

\* The queued keys are those of the heap.
LEMMA QueuedKeys ==
    ASSUME Sound
    PROVE  Queued = KeysIn(heap) /\ heap \in Arrays(Keys) /\ \A k \in Keys : k \in Queued <=> heap.index[k] # 0
<1>1. heap \in Arrays(Keys)
    BY DEF Sound, SoundHeap
<1>2. DOMAIN heap.index = Keys
    BY <1>1, ArraysRight
<1>3. QED
    BY <1>1, <1>2 DEF Queued, KeysIn, HeapContains

\* pop takes the root, which no queued key ranks before, and no other key.
LEMMA PopRight ==
    ASSUME Sound, PopRoot
    PROVE  /\ Sound'
           /\ \E k \in Queued : /\ \A j \in Queued : rank[k] <= rank[j]
                                /\ Queued' = Queued \ {k}
<1>1. /\ SoundHeap(heap, Keys, Order(rank)) /\ rank \in [Keys -> Ranks] /\ IsOrder(Keys, Order(rank))
      /\ Queued = KeysIn(heap) /\ heap \in Arrays(Keys)
    BY QueuedKeys, RanksOrder DEF Sound
<1>2. Size(heap) # 0
  <2>1. PICK k \in Queued : TRUE
    BY DEF PopRoot
  <2>2. k \in DOMAIN heap.index /\ heap.index[k] # 0
    BY <1>1, <2>1 DEF KeysIn
  <2>3. heap.index[k] \in 1..Size(heap)
    BY <1>1, <2>2 DEF SoundHeap, Coherent
  <2>4. QED
    BY <2>3
<1>3. heap' = Pop(heap, Order(rank))
    BY QwenSame DEF PopRoot, Qwen!Pop
<1>4. UNCHANGED <<program, rank>>
    BY DEF PopRoot
<1> DEFINE first == heap.items[1]
           order == Order(rank)
<1>5. SoundHeap(heap', Keys, order) /\ KeysIn(heap') = KeysIn(heap) \ {first}
    BY <1>1, <1>2, <1>3, PoppedRight
<1>6. first \in KeysIn(heap) /\ \A k \in KeysIn(heap) : <<k, first>> \notin order
    BY <1>1, <1>2, RootFirst
<1>7. Sound'
  <2>1. Order(rank)' = order
    BY <1>4 DEF Order
  <2> HIDE DEF order
  <2>2. QED
    BY <1>4, <1>5, <2>1 DEF Sound
<1>8. Queued' = KeysIn(heap')
  <2>1. heap' \in Arrays(Keys)
    BY <1>7 DEF Sound, SoundHeap
  <2>2. DOMAIN heap'.index = Keys
    BY <2>1, ArraysRight
  <2>3. QED
    BY <2>2 DEF Queued, KeysIn, HeapContains
<1>9. QED
  <2>1. \A j \in Queued : rank[first] <= rank[j]
    <3>1. Queued \subseteq Keys
      BY DEF Queued
    <3> HIDE DEF first
    <3>2. QED
      BY <1>1, <1>6, <3>1, RanksOrder
  <2> HIDE DEF first
  <2>2. QED
    BY <1>1, <1>5, <1>6, <1>7, <1>8, <2>1

\* heapify is only called with distinct entries.
LEMMA ListsDistinct ==
    ASSUME NEW S \in SUBSET Keys, NEW entries \in SetToSeqs(S)
    PROVE  /\ entries \in Seq(Keys)
           /\ \A i, j \in DOMAIN entries : entries[i] = entries[j] => i = j
<1> DEFINE n == Cardinality(S)
<1>1. n \in Nat
    BY HeapMachineAssumption, FS_Subset, FS_CardinalityType
<1>2. entries \in [1..n -> S] /\ \A i, j \in 1..n : i # j => entries[i] # entries[j]
    BY DEF SetToSeqs
<1> HIDE DEF n
<1>3. entries \in [1..n -> Keys]
    BY <1>2
<1>4. QED
    BY <1>1, <1>2, <1>3

\* Every operation keeps the heap sound: the array and the index agree, and all is in order.
LEMMA SoundKept ==
    ASSUME Sound, Next
    PROVE  Sound'
<1>1. /\ SoundHeap(heap, Keys, Order(rank)) /\ rank \in [Keys -> Ranks] /\ IsOrder(Keys, Order(rank))
      /\ program \in {"agnes", "qwen"} /\ heap \in Arrays(Keys)
      /\ \A k \in Keys : k \in Queued <=> heap.index[k] # 0
    BY QueuedKeys, RanksOrder DEF Sound
<1>2. ASSUME UNCHANGED <<program, rank>>, SoundHeap(heap', Keys, Order(rank))
      PROVE  Sound'
  <2>1. Order(rank)' = Order(rank)
    BY <1>2 DEF Order
  <2>2. QED
    BY <1>1, <1>2, <2>1 DEF Sound
<1>3. ASSUME NEW k \in Keys, PushKey(k)
      PROVE  Sound'
  <2>1. UNCHANGED <<program, rank>>
    BY <1>3 DEF PushKey
  <2>2. CASE heap' = Push(heap, k, Order(rank))
    <3>1. AgreeBut(Keys, k, Order(rank), Order(rank))
      BY <1>1, RanksOrder
    <3>2. QED
      BY <1>1, <1>2, <2>1, <2>2, <3>1, PushedRight
  <2>3. CASE k \notin Queued /\ heap' = Qwen!Push(heap, k, Order(rank))
    <3>1. heap.index[k] = 0
      BY <1>1, <2>3
    <3>2. QED
      BY <1>1, <1>2, <2>1, <2>3, <3>1, QwenPushed
  <2>4. QED
    BY <1>3, <2>2, <2>3 DEF PushKey
<1>4. ASSUME NEW k \in Keys, RemoveKey(k)
      PROVE  Sound'
  <2>1. UNCHANGED <<program, rank>>
    BY <1>4 DEF RemoveKey
  <2>2. CASE heap' = RemoveEntry(heap, k, Order(rank))
    <3>1. AgreeBut(Keys, k, Order(rank), Order(rank))
      BY <1>1, RanksOrder
    <3>2. QED
      BY <1>1, <1>2, <2>1, <2>2, <3>1, RemovedRight
  <2>3. CASE heap' = Qwen!RemoveEntry(heap, k, Order(rank))
    BY <1>1, <1>2, <2>1, <2>3, QwenRemoved
  <2>4. QED
    BY <1>4, <2>2, <2>3 DEF RemoveKey
<1>5. ASSUME NEW k \in Keys, NEW r \in Ranks, Rerank(k, r)
      PROVE  Sound'
  <2> DEFINE new == [rank EXCEPT ![k] = r]
             before == Order(rank)
             after == Order(new)
  <2>1. UNCHANGED program /\ rank' = new
    BY <1>5 DEF Rerank
  <2>2. Order(rank)' = after
    BY <2>1 DEF Order
  <2>3. new \in [Keys -> Ranks] /\ AgreeBut(Keys, k, before, after) /\ IsOrder(Keys, after)
    BY <1>1, RanksOrder
  <2>4. \/ k \notin Queued /\ heap' = heap
        \/ heap' = Push(heap, k, after)
        \/ heap' = Qwen!Push(Qwen!RemoveEntry(heap, k, before), k, after)
    BY <1>5, <2>2 DEF Rerank
  <2> HIDE DEF new, after, before
  <2>5. SoundHeap(heap, Keys, before) /\ IsOrder(Keys, before)
    BY <1>1 DEF before
  <2>6. SoundHeap(heap', Keys, after)
    <3>1. CASE k \notin Queued /\ heap' = heap
      <4>1. heap.index[k] = 0
        BY <1>1, <3>1
      <4>2. QED
        BY <2>3, <2>5, <3>1, <4>1, StillSound
    <3>2. CASE heap' = Push(heap, k, after)
      BY <2>3, <2>5, <3>2, PushedRight
    <3>3. CASE heap' = Qwen!Push(Qwen!RemoveEntry(heap, k, before), k, after)
      <4> DEFINE rest == Qwen!RemoveEntry(heap, k, before)
      <4>1. SoundHeap(rest, Keys, before) /\ KeysIn(rest) = KeysIn(heap) \ {k}
        BY <2>5, QwenRemoved
      <4>2. heap' = Qwen!Push(rest, k, after)
        BY <3>3
      <4> HIDE DEF rest
      <4>3. rest.index[k] = 0
        <5>1. DOMAIN rest.index = Keys
          BY <4>1, ArraysRight DEF SoundHeap
        <5>2. QED
          BY <4>1, <5>1 DEF KeysIn
      <4>4. SoundHeap(rest, Keys, after)
        BY <2>3, <4>1, <4>3, StillSound
      <4>5. QED
        BY <2>3, <4>2, <4>3, <4>4, QwenPushed
    <3>4. QED
      BY <2>4, <3>1, <3>2, <3>3
  <2>7. QED
    BY <1>1, <2>1, <2>2, <2>3, <2>6 DEF Sound
<1>6. ASSUME PopRoot
      PROVE  Sound'
    BY <1>6, PopRight
<1>7. ASSUME NEW S \in SUBSET Keys, NEW entries \in SetToSeqs(S), HeapifyAll(entries)
      PROVE  Sound'
  <2>1. heap' = Heapify(heap, entries, Order(rank)) /\ UNCHANGED <<program, rank>>
    BY <1>7, QwenSame DEF HeapifyAll, Qwen!Heapify
  <2>2. entries \in Seq(Keys) /\ \A i, j \in DOMAIN entries : entries[i] = entries[j] => i = j
    BY ListsDistinct
  <2>3. QED
    BY <1>1, <1>2, <2>1, <2>2, HeapifiedRight
<1>8. QED
    BY <1>3, <1>4, <1>5, <1>6, <1>7 DEF Next

\* Initially the heap is empty.
LEMMA SoundAtFirst ==
    ASSUME Init
    PROVE  Sound
<1> DEFINE none == Empty(Keys)
<1>1. none.items = <<>> /\ none.index = [k \in Keys |-> 0] /\ none = [items |-> <<>>, index |-> [k \in Keys |-> 0]]
    BY DEF Empty
<1>2. none \in Arrays(Keys) /\ Size(none) = 0
    BY <1>1 DEF Arrays, Size
<1> HIDE DEF none
<1>3. SoundHeap(none, Keys, Order(rank))
    BY <1>1, <1>2 DEF SoundHeap, Coherent, Ordered
<1>4. QED
    BY <1>3 DEF Init, Sound, none

\* In every heap that can be reached the array and the index agree and all is in order.
THEOREM HeapSound == Spec => []Sound
<1>1. Sound /\ UNCHANGED vars => Sound'
    BY DEF Sound, vars, Order
<1>2. Sound /\ [Next]_vars => Sound'
    BY <1>1, SoundKept
<1>3. QED
    BY SoundAtFirst, <1>2, PTL DEF Spec

\* The array and the index describe the same heap after every operation of either program.
THEOREM HeapTypeCorrect == Spec => []TypeOK
<1>1. Sound => TypeOK
  <2>1. heap \in Arrays(Keys) => heap.items \in Seq(Keys) /\ heap.index \in [Keys -> Nat]
    BY ArraysRight
  <2>2. QED
    BY <2>1 DEF Sound, TypeOK, SoundHeap
<1>2. QED
    BY <1>1, HeapSound, PTL

\* No entry is ahead of its parent after any operation of either program.
THEOREM HeapInOrder == Spec => []HeapOrdered
<1>1. Sound => HeapOrdered
    BY DEF Sound, HeapOrdered, SoundHeap
<1>2. QED
    BY <1>1, HeapSound, PTL

\* pop takes a key that no other ranks before, and that key alone.
THEOREM PopTakesTheFirst == Spec => PopTakesFirst
<1>1. Sound /\ [Next]_vars => [PopRoot => \E k \in Queued : /\ \A j \in Queued : rank[k] <= rank[j]
                                                            /\ Queued' = Queued \ {k}]_vars
    BY PopRight
<1>2. QED
    BY <1>1, HeapSound, PTL DEF Spec, PopTakesFirst
=============================================================================
