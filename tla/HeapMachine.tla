---------------------------- MODULE HeapMachine -----------------------------
(***************************************************************************)
(* The operations of the indexed heaps of AgnesHeap and QwenHeap as steps, *)
(* over keys whose rank may change: AgnesDispatch and QwenDispatch use the *)
(* heaps as their schedulers do, this module uses them in every way their  *)
(* interfaces allow.  The initial state says which of the two it is.       *)
(***************************************************************************)
EXTENDS AgnesHeap, SequencesExt

Qwen == INSTANCE QwenHeap

CONSTANTS
    Keys,   \* the entries
    Ranks   \* bound: the ranks an entry may have, the smallest nearest the root

ASSUME HeapMachineAssumption == IsFiniteSet(Keys) /\ Ranks \subseteq Nat

VARIABLES program, heap, rank

vars == <<program, heap, rank>>

\* The order under the ranks r.
Order(r) == {p \in Keys \X Keys : r[p[1]] < r[p[2]]}

Queued == {k \in Keys : HeapContains(heap, k)}

Init ==
    /\ program \in {"agnes", "qwen"}
    /\ heap = Empty(Keys)
    /\ rank \in [Keys -> Ranks]

\* push of a key that is there moves the entry of agnes; that of qwen throws.
PushKey(k) ==
    /\ \/ program = "agnes" /\ heap' = Push(heap, k, Order(rank))
       \/ program = "qwen" /\ k \notin Queued /\ heap' = Qwen!Push(heap, k, Order(rank))
    /\ UNCHANGED <<program, rank>>

\* The rank changes.  An entry of agnes is then pushed again in its place; one of qwen is
\* taken out before and pushed after.
Rerank(k, r) ==
    /\ rank' = [rank EXCEPT ![k] = r]
    /\ \/ k \notin Queued /\ UNCHANGED heap
       \/ k \in Queued /\ program = "agnes" /\ heap' = Push(heap, k, Order(rank'))
       \/ k \in Queued /\ program = "qwen"
          /\ heap' = Qwen!Push(Qwen!RemoveEntry(heap, k, Order(rank)), k, Order(rank'))
    /\ UNCHANGED program

PopRoot ==
    /\ Queued # {}
    /\ heap' = IF program = "agnes" THEN Pop(heap, Order(rank)) ELSE Qwen!Pop(heap, Order(rank))
    /\ UNCHANGED <<program, rank>>

RemoveKey(k) ==
    /\ heap' = IF program = "agnes" THEN RemoveEntry(heap, k, Order(rank))
               ELSE Qwen!RemoveEntry(heap, k, Order(rank))
    /\ UNCHANGED <<program, rank>>

\* Every list of distinct entries, and from the empty heap only: what the heap
\* held before does not matter.
HeapifyAll(entries) ==
    /\ Queued = {}
    /\ heap' = IF program = "agnes" THEN Heapify(heap, entries, Order(rank))
               ELSE Qwen!Heapify(heap, entries, Order(rank))
    /\ UNCHANGED <<program, rank>>

Next ==
    \/ \E k \in Keys : PushKey(k) \/ RemoveKey(k)
    \/ \E k \in Keys, r \in Ranks : Rerank(k, r)
    \/ PopRoot
    \/ \E S \in SUBSET Keys : \E entries \in SetToSeqs(S) : HeapifyAll(entries)

Spec == Init /\ [][Next]_vars
-----------------------------------------------------------------------------
(* Properties *)

\* Besides the types: the array and the index agree after every removal from the
\* middle and every chain of sifts.
TypeOK ==
    /\ program \in {"agnes", "qwen"}
    /\ heap.items \in Seq(Keys)
    /\ heap.index \in [Keys -> Nat]
    /\ rank \in [Keys -> Ranks]
    /\ Coherent(heap)

\* No entry is ahead of its parent, in particular after the last entry took the
\* place of one removed from another subtree and had to rise.
HeapOrdered == Ordered(heap, Order(rank))

\* The root that pop takes ranks before no other entry, and pop loses nothing else.
PopTakesFirst ==
    [][PopRoot => \E k \in Queued : /\ \A j \in Queued : rank[k] <= rank[j]
                                    /\ Queued' = Queued \ {k}]_vars
=============================================================================
