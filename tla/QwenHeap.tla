------------------------------ MODULE QwenHeap ------------------------------
(***************************************************************************)
(* The indexed binary heap of the "qwen 3.8 27b" scheduler                 *)
(* (src/BinaryHeap.ts), as the records of AgnesHeap: the sifts and the     *)
(* array operations of the two heaps agree, their operations differ.  push *)
(* takes entries that are not there only, remove sifts the entry that      *)
(* takes the place either up or down, heapify takes distinct entries.      *)
(***************************************************************************)
EXTENDS Naturals, Sequences

H == INSTANCE AgnesHeap

NoEntries(Keys)      == H!Empty(Keys)
HasEntry(h, k)       == H!HeapContains(h, k)
IsHeapEmpty(h)       == H!Size(h) = 0
Peek(h)              == h.items[1]
SiftedUp(h, at, before)   == H!SiftUp(h, at, before)[1]
SiftedDown(h, at, before) == H!SiftDown(h, at, before)[1]

\* An entry whose id is there makes push throw; its callers never push one.
Push(h, k, before) ==
    SiftedUp([items |-> Append(h.items, k), index |-> [h.index EXCEPT ![k] = H!Size(h) + 1]],
             H!Size(h) + 1, before)

\* The heap without its root, for a heap that is not empty.
Pop(h, before) == H!Pop(h, before)

\* Mutation: the entry that takes the place can only go down, as in pop.
ReplaceDown(h, at, before) == SiftedDown(h, at, before)

\* The entry that took the place at "at" ranks above its parent, or may sink.
Replace(h, at, before) ==
    IF at > 1 /\ <<h.items[at], h.items[at \div 2]>> \in before THEN SiftedUp(h, at, before)
    ELSE SiftedDown(h, at, before)

RemoveEntry(h, k, before) ==
    IF ~HasEntry(h, k) THEN h
    ELSE LET rest == H!Vacate(h, k)
             at   == h.index[k]
         IN  IF at > H!Size(rest) THEN rest ELSE Replace(rest, at, before)

\* What h held is discarded.
Heapify(h, entries, before) == H!Heapify(h, entries, before)

Entries(h) == {h.items[n] : n \in DOMAIN h.items}

\* Array and index agree, and no entry ranks above its parent.
WellFormed(h, before) == H!Coherent(h) /\ H!Ordered(h, before)
=============================================================================
