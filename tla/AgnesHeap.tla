----------------------------- MODULE AgnesHeap ------------------------------
(***************************************************************************)
(* The indexed binary heap of the "agnes flash" scheduler                  *)
(* (src/binary-heap.ts).  A heap is a record: items is the array, in heap  *)
(* order, and index maps each key to its position, 0 when it is not in the *)
(* heap.  Positions start at 1, so the parent of i is i \div 2.            *)
(* before is the set of the <<a, b>> with compare(a, b) < 0: those a sort  *)
(* closer to the root than b.                                              *)
(***************************************************************************)
EXTENDS Naturals, Sequences

Empty(Keys) == [items |-> <<>>, index |-> [k \in Keys |-> 0]]

Size(h) == Len(h.items)

HeapContains(h, k) == h.index[k] # 0

\* Mutation: the index follows one of the two entries only.
SwapHalfIndexed(h, a, b) ==
    [items |-> [h.items EXCEPT ![a] = h.items[b], ![b] = h.items[a]],
     index |-> [h.index EXCEPT ![h.items[a]] = b]]

\* Both entries move and the index follows.
Swap(h, a, b) ==
    LET ka == h.items[a]
        kb == h.items[b]
    IN  [items |-> [h.items EXCEPT ![a] = kb, ![b] = ka],
         index |-> [h.index EXCEPT ![ka] = b, ![kb] = a]]

\* The records with an array and an index over these keys.
Arrays(Keys) == [items : Seq(Keys), index : [Keys -> Nat]]

\* The index and the array describe the same heap: each entry is where the index
\* says, and nothing else is in the index.
Coherent(h) ==
    /\ \A n \in 1..Size(h) : h.index[h.items[n]] = n
    /\ \A k \in DOMAIN h.index :
          h.index[k] # 0 => h.index[k] \in 1..Size(h) /\ h.items[h.index[k]] = k

\* The heaps over these keys, whatever the order.
Heaps(Keys) == {h \in Arrays(Keys) : Coherent(h)}

\* A record, agreeing or not, and the position in its array that a sift is at.
Sifts(Keys) == {s \in Arrays(Keys) \X Nat : s[2] \in DOMAIN s[1].items}

\* The heap and the final position after moving entry "start" toward the root.
SiftUp(h, start, before) ==
    LET up[s \in Sifts(DOMAIN h.index)] ==
            LET i == s[2]
                p == i \div 2
            IN  IF i > 1 /\ <<s[1].items[i], s[1].items[p]>> \in before
                THEN up[<<Swap(s[1], i, p), p>>]
                ELSE s
    IN  up[<<h, start>>]

\* Mutation: the right child is not looked at.
BestLeft(items, i, before) ==
    IF 2 * i <= Len(items) /\ <<items[2 * i], items[i]>> \in before THEN 2 * i ELSE i

\* The position, of i and its children, that holds the entry closest to the root.
Best(items, i, before) ==
    LET left  == 2 * i
        right == 2 * i + 1
        best  == IF left <= Len(items) /\ <<items[left], items[i]>> \in before THEN left ELSE i
    IN  IF right <= Len(items) /\ <<items[right], items[best]>> \in before THEN right ELSE best

SiftDown(h, start, before) ==
    LET down[s \in Sifts(DOMAIN h.index)] ==
            LET best == Best(s[1].items, s[2], before)
            IN  IF best = s[2] THEN s ELSE down[<<Swap(s[1], s[2], best), best>>]
    IN  down[<<h, start>>]

\* Mutation: the entry that takes a removed entry's place only sinks.
ReseatDown(h, at, before) == SiftDown(h, at, before)[1]

\* Up, then down from where that ended.
Reseat(h, at, before) ==
    LET up == SiftUp(h, at, before)
    IN  SiftDown(up[1], up[2], before)[1]

Push(h, k, before) ==
    IF HeapContains(h, k) THEN Reseat(h, h.index[k], before)
    ELSE SiftUp([items |-> Append(h.items, k),
                 index |-> [h.index EXCEPT ![k] = Size(h) + 1]], Size(h) + 1, before)[1]

\* The heap without its last entry and without k: last becomes the entry at "at".
Vacate(h, k) ==
    LET last == h.items[Size(h)]
        at   == h.index[k]
        rest == SubSeq(h.items, 1, Size(h) - 1)
    IN  IF at = Size(h) THEN [items |-> rest, index |-> [h.index EXCEPT ![k] = 0]]
        ELSE [items |-> [rest EXCEPT ![at] = last],
              index |-> [h.index EXCEPT ![k] = 0, ![last] = at]]

\* The heap without its root, for a heap that is not empty.
Pop(h, before) ==
    LET rest == Vacate(h, h.items[1])
    IN  IF Size(rest) = 0 THEN rest ELSE SiftDown(rest, 1, before)[1]

RemoveEntry(h, k, before) ==
    IF ~HeapContains(h, k) THEN h
    ELSE LET rest == Vacate(h, k)
             at   == h.index[k]
         IN  IF at <= Size(rest) THEN Reseat(rest, at, before) ELSE rest

\* The distinct entries in the order given, in no heap order yet.
Flat(h, entries) ==
    [items |-> entries,
     index |-> [k \in DOMAIN h.index |->
        IF \E i \in DOMAIN entries : entries[i] = k
        THEN CHOOSE i \in DOMAIN entries : entries[i] = k ELSE 0]]

\* Floyd's loop: the inner entries sink, the last of them first.
Sunk(h, before) ==
    LET sink[s \in {s \in Arrays(DOMAIN h.index) \X Nat : s[2] <= Size(s[1])}] ==
            IF s[2] = 0 THEN s ELSE sink[<<SiftDown(s[1], s[2], before)[1], s[2] - 1>>]
    IN  sink[<<h, Size(h) \div 2>>][1]

\* Builds the heap from entries; what h held is gone.
Heapify(h, entries, before) == Sunk(Flat(h, entries), before)
-----------------------------------------------------------------------------
\* No entry sorts before its parent.
Ordered(h, before) ==
    \A n \in 2..Size(h) : <<h.items[n], h.items[n \div 2]>> \notin before
=============================================================================
