----------------------------- MODULE HeapLemmas -----------------------------
(***************************************************************************)
(* What the operations of the indexed heaps do, for every set of keys and  *)
(* every comparator that never ranks two keys before each other and is     *)
(* transitive in "not behind": the sifts end, keep the entries and their   *)
(* index, and put the one entry that is out of place where it belongs.     *)
(* The sifts and Floyd's loop are loops that move from one place to the    *)
(* next until they stop; two lemmas about all such loops stand for the     *)
(* induction.                                                              *)
(***************************************************************************)
EXTENDS AgnesHeap, ReachabilityProofs

\* A loop that moves from s to next[s] until it stops, as a recursive function, is
\* well defined: of the places where it stops, f[s] is one that every set with s that
\* the loop cannot leave contains.
LEMMA LoopExists ==
    ASSUME NEW S, NEW stop, NEW next \in [S -> S]
    PROVE  \E f : f = [s \in S |-> IF s \in stop THEN s ELSE f[next[s]]]
<1> DEFINE Closed(C) == \A x \in C : x \notin stop => next[x] \in C
           Ends(s) == {t \in S \cap stop : \A C \in SUBSET S : s \in C /\ Closed(C) => t \in C}
           end == [s \in S |-> IF s \in stop THEN s ELSE CHOOSE t : t \in Ends(s)]
<1>1. ASSUME NEW s \in S, s \in stop
      PROVE  Ends(s) = {s}
  <2>1. {s} \in SUBSET S /\ Closed({s})
    BY <1>1
  <2>2. \A t \in Ends(s) : t = s
    BY <2>1
  <2>3. s \in Ends(s)
    BY <1>1
  <2>4. QED
    BY <2>2, <2>3
<1>2. ASSUME NEW s \in S, s \notin stop
      PROVE  Ends(s) = Ends(next[s])
  <2>1. next[s] \in S
    BY <1>2
  <2>2. ASSUME NEW t \in Ends(s)
        PROVE  t \in Ends(next[s])
    <3>1. SUFFICES ASSUME NEW C \in SUBSET S, next[s] \in C, Closed(C)
                   PROVE  t \in C
      OBVIOUS
    <3>2. C \cup {s} \in SUBSET S /\ Closed(C \cup {s})
      BY <3>1
    <3>3. t \in C \cup {s} /\ t \in stop
      BY <3>2
    <3>4. QED
      BY <1>2, <3>3
  <2>3. ASSUME NEW t \in Ends(next[s])
        PROVE  t \in Ends(s)
    <3>1. SUFFICES ASSUME NEW C \in SUBSET S, s \in C, Closed(C)
                   PROVE  t \in C
      OBVIOUS
    <3>2. next[s] \in C
      BY <1>2, <3>1
    <3>3. QED
      BY <3>1, <3>2
  <2>4. QED
    BY <2>2, <2>3
<1> HIDE DEF Ends
<1>3. \A s \in S : s \notin stop => end[s] = end[next[s]]
  <2>1. SUFFICES ASSUME NEW s \in S, s \notin stop
                 PROVE  end[s] = end[next[s]]
    OBVIOUS
  <2>2. next[s] \in S /\ Ends(s) = Ends(next[s])
    BY <1>2, <2>1
  <2>3. CASE next[s] \in stop
    <3>1. Ends(s) = {next[s]}
      BY <1>1, <2>2, <2>3
    <3>2. (CHOOSE t : t \in Ends(s)) = next[s]
      BY <3>1
    <3>3. QED
      BY <2>1, <2>2, <2>3, <3>2
  <2>4. CASE next[s] \notin stop
    BY <2>1, <2>2, <2>4
  <2>5. QED
    BY <2>3, <2>4
<1>4. end = [s \in S |-> IF s \in stop THEN s ELSE end[next[s]]]
  <2> DEFINE again == [s \in S |-> IF s \in stop THEN s ELSE end[next[s]]]
  <2>1. ASSUME NEW s \in S
        PROVE  end[s] = again[s]
    BY <1>3
  <2>2. end \in [S -> {end[s] : s \in S}] /\ DOMAIN end = S /\ DOMAIN again = S
    OBVIOUS
  <2> HIDE DEF end
  <2>3. end = [s \in S |-> end[s]]
    BY <2>2
  <2>4. QED
    BY <2>1, <2>3
<1> HIDE DEF end
<1>5. QED
  BY <1>4

\* What the steps of a loop preserve holds where it stops, if each step counts down.
LEMMA LoopEnds ==
    ASSUME NEW S, NEW stop, NEW next, NEW f,
           f = [s \in S |-> IF s \in stop THEN s ELSE f[next[s]]],
           NEW count \in [S -> Nat], NEW I \in SUBSET S,
           \A s \in I : s \notin stop => next[s] \in I /\ count[next[s]] < count[s],
           NEW start \in I
    PROVE  f[start] \in I /\ f[start] \in stop
<1> DEFINE Wrong == {s \in I : ~(f[s] \in I /\ f[s] \in stop)}
           Counts == {count[s] : s \in Wrong}
<1>1. ASSUME NEW s \in Wrong
      PROVE  s \notin stop /\ next[s] \in Wrong /\ count[next[s]] < count[s]
  <2>1. s \in S /\ f[s] = IF s \in stop THEN s ELSE f[next[s]]
    OBVIOUS
  <2>2. QED
    BY <2>1
<1>2. SUFFICES ASSUME start \in Wrong
               PROVE  FALSE
    OBVIOUS
<1>3. Counts \in SUBSET Nat /\ count[start] \in Counts
    BY <1>2
<1>4. PICK least \in Counts : \A k \in Counts : least <= k
  <2> HIDE DEF Counts
  <2>1. QED
    BY <1>3, LeastNumber
<1>5. PICK s \in Wrong : least = count[s]
    OBVIOUS
<1>6. count[next[s]] \in Counts /\ count[next[s]] < least /\ least \in Nat
    BY <1>1, <1>3, <1>5
<1> HIDE DEF Counts
<1>7. count[next[s]] \in Nat
    BY <1>3, <1>6
<1>8. QED
    BY <1>4, <1>6, <1>7

-----------------------------------------------------------------------------
(* Positions and swaps *)

\* The parent of a position and its children.
LEMMA Halves ==
    ASSUME NEW n \in Nat, n > 1
    PROVE  /\ n \div 2 \in Nat /\ 1 <= n \div 2 /\ n \div 2 < n
           /\ \A m \in Nat : n \div 2 = m <=> n = 2 * m \/ n = 2 * m + 1
  OBVIOUS

\* A record over keys, taken apart.
LEMMA ArraysRight ==
    ASSUME NEW K, NEW h \in Arrays(K)
    PROVE  /\ h.items \in Seq(K) /\ Size(h) = Len(h.items) /\ Size(h) \in Nat
           /\ DOMAIN h.items = 1..Size(h)
           /\ \A n \in 1..Size(h) : h.items[n] \in K
           /\ h.index \in [K -> Nat] /\ DOMAIN h.index = K
  BY DEF Arrays, Size

\* The keys in a heap.
KeysIn(h) == {k \in DOMAIN h.index : h.index[k] # 0}

\* Swap exchanges two entries and keeps the rest, and the index with the array.
LEMMA SwapRight ==
    ASSUME NEW K, NEW h \in Arrays(K), NEW a \in DOMAIN h.items, NEW b \in DOMAIN h.items
    PROVE  /\ Swap(h, a, b) \in Arrays(K)
           /\ Size(Swap(h, a, b)) = Size(h) /\ DOMAIN Swap(h, a, b).items = DOMAIN h.items
           /\ Swap(h, a, b).items[a] = h.items[b]
           /\ Swap(h, a, b).items[b] = h.items[a]
           /\ \A n \in DOMAIN h.items : n # a /\ n # b => Swap(h, a, b).items[n] = h.items[n]
           /\ Coherent(h) => Coherent(Swap(h, a, b)) /\ KeysIn(Swap(h, a, b)) = KeysIn(h)
<1> DEFINE n == Size(h)
           ka == h.items[a]
           kb == h.items[b]
           items == [h.items EXCEPT ![a] = kb, ![b] = ka]
           index == [h.index EXCEPT ![ka] = b, ![kb] = a]
<1>h. /\ h.items \in Seq(K) /\ n = Len(h.items) /\ n \in Nat /\ DOMAIN h.items = 1..n
      /\ h.index \in [K -> Nat] /\ DOMAIN h.index = K
      /\ \A j \in 1..n : h.items[j] \in K
    BY ArraysRight
<1>1. Swap(h, a, b) = [items |-> items, index |-> index]
    BY DEF Swap
<1>2. a \in 1..n /\ b \in 1..n /\ ka \in K /\ kb \in K
    BY <1>h
<1>i. h.items \in [1..n -> K]
    BY <1>h
<1> HIDE DEF n, ka, kb
<1>3. /\ items \in [1..n -> K] /\ items[a] = kb /\ items[b] = ka
      /\ \A j \in 1..n : j # a /\ j # b => items[j] = h.items[j]
    BY <1>2, <1>i DEF ka, kb
<1>4. items \in Seq(K) /\ Len(items) = n /\ DOMAIN items = 1..n
    BY <1>h, <1>3
<1>5. /\ index \in [K -> Nat]
      /\ \A k \in K : index[k] = IF k = kb THEN a ELSE IF k = ka THEN b ELSE h.index[k]
    BY <1>h, <1>2
<1> HIDE DEF items, index
<1> DEFINE g == Swap(h, a, b)
<1>6. g \in Arrays(K) /\ g.items = items /\ g.index = index /\ Size(g) = n
    BY <1>1, <1>4, <1>5 DEF Arrays, Size
<1> HIDE DEF g
<1>7. ASSUME Coherent(h)
      PROVE  Coherent(g) /\ KeysIn(g) = KeysIn(h)
  <2>1. \A j \in 1..n : h.index[h.items[j]] = j
    BY <1>7 DEF Coherent, n
  <2>2. \A k \in K : h.index[k] # 0 => h.index[k] \in 1..n /\ h.items[h.index[k]] = k
    BY <1>7, <1>h DEF Coherent, n
  <2>3. \A i, j \in 1..n : h.items[i] = h.items[j] => i = j
    BY <2>1
  <2>4. ASSUME NEW j \in 1..n
        PROVE  index[items[j]] = j
    <3>1. CASE j = a
      <4>1. items[j] = kb /\ index[kb] = a
        BY <1>2, <1>3, <1>5, <3>1
      <4>2. QED
        BY <3>1, <4>1
    <3>2. CASE j = b /\ j # a
      <4>1. items[j] = ka /\ ka # kb
        BY <1>2, <1>3, <2>3, <3>2 DEF ka, kb
      <4>2. QED
        BY <1>2, <1>5, <3>2, <4>1
    <3>3. CASE j # a /\ j # b
      <4>1. items[j] = h.items[j] /\ items[j] # ka /\ items[j] # kb /\ items[j] \in K
        BY <1>2, <1>3, <2>3, <3>3 DEF ka, kb
      <4>2. QED
        BY <1>5, <2>1, <4>1
    <3>4. QED
      BY <3>1, <3>2, <3>3
  <2>5. ASSUME NEW k \in K
        PROVE  /\ index[k] # 0 <=> h.index[k] # 0
               /\ index[k] # 0 => index[k] \in 1..n /\ items[index[k]] = k
    <3>1. h.index[ka] = a /\ h.index[kb] = b
      BY <1>2, <2>1 DEF ka, kb
    <3>2. CASE k = kb
      <4>1. index[k] = a
        BY <1>5, <3>2
      <4>2. QED
        BY <1>2, <1>3, <3>1, <3>2, <4>1
    <3>3. CASE k = ka /\ k # kb
      <4>1. index[k] = b
        BY <1>5, <3>3
      <4>2. QED
        BY <1>2, <1>3, <3>1, <3>3, <4>1
    <3>4. CASE k # ka /\ k # kb
      <4>1. index[k] = h.index[k]
        BY <1>5, <3>4
      <4>2. h.index[k] # 0 => h.index[k] # a /\ h.index[k] # b
        BY <2>2, <3>4 DEF ka, kb
      <4>3. QED
        BY <1>3, <2>2, <4>1, <4>2
    <3>5. QED
      BY <3>2, <3>3, <3>4
  <2>6. Coherent(g)
    <3>1. DOMAIN g.index = K
      BY <1>5, <1>6
    <3>2. QED
      BY <1>6, <2>4, <2>5, <3>1 DEF Coherent
  <2>7. KeysIn(g) = KeysIn(h)
    BY <1>h, <1>5, <1>6, <2>5 DEF KeysIn
  <2>8. QED
    BY <2>6, <2>7
<1>8. QED
    BY <1>h, <1>2, <1>3, <1>4, <1>6, <1>7 DEF g, n, ka, kb

-----------------------------------------------------------------------------
(* The sifts as loops *)

\* The entry at s[2] is to rise, and the sift one level up.
Rises(s, before) == s[2] > 1 /\ <<s[1].items[s[2]], s[1].items[s[2] \div 2]>> \in before
Risen(s)         == <<Swap(s[1], s[2], s[2] \div 2), s[2] \div 2>>

\* The entry at s[2] is to sink, and the sift one level down.
Sinks(s, before)  == Best(s[1].items, s[2], before) # s[2]
Sunken(s, before) == LET best == Best(s[1].items, s[2], before)
                     IN  <<Swap(s[1], s[2], best), best>>

\* A sift, taken apart.
LEMMA SiftsRight ==
    ASSUME NEW K, NEW s \in Sifts(K)
    PROVE  /\ s[1] \in Arrays(K) /\ s[2] \in Nat /\ s[2] \in 1..Size(s[1]) /\ s = <<s[1], s[2]>>
           /\ DOMAIN s[1].items = 1..Size(s[1])
<1>1. s \in Arrays(K) \X Nat /\ s[2] \in DOMAIN s[1].items
    BY DEF Sifts
<1>2. s[1] \in Arrays(K) /\ s[2] \in Nat /\ s = <<s[1], s[2]>>
    BY <1>1
<1>3. QED
    BY <1>1, <1>2, ArraysRight

\* What a sift is made of.
LEMMA SiftsMade ==
    ASSUME NEW K, NEW h \in Arrays(K), NEW i \in 1..Size(h)
    PROVE  <<h, i>> \in Sifts(K) /\ <<h, i>>[1] = h /\ <<h, i>>[2] = i
<1>1. i \in Nat /\ i \in DOMAIN h.items
    BY ArraysRight
<1>2. QED
    BY <1>1 DEF Sifts

\* A step up is a sift again, closer to the root.
LEMMA RisenRight ==
    ASSUME NEW K, NEW before, NEW s \in Sifts(K), Rises(s, before)
    PROVE  Risen(s) \in Sifts(K) /\ Risen(s)[2] < s[2]
<1>1. s[1] \in Arrays(K) /\ s[2] \in 1..Size(s[1]) /\ DOMAIN s[1].items = 1..Size(s[1]) /\ s[2] > 1
    BY SiftsRight DEF Rises
<1>2. Size(s[1]) \in Nat
    BY <1>1, ArraysRight
<1> DEFINE h == s[1]
           i == s[2]
           p == s[2] \div 2
<1>3. p \in 1..Size(h) /\ p < i
    BY <1>1, <1>2, Halves
<1>4. /\ h \in Arrays(K) /\ i \in DOMAIN h.items /\ p \in DOMAIN h.items
      /\ Risen(s) = <<Swap(h, i, p), p>>
    BY <1>1, <1>3 DEF Risen
<1> HIDE DEF h, i, p
<1>5. Swap(h, i, p) \in Arrays(K) /\ Size(Swap(h, i, p)) = Size(h)
    BY <1>4, SwapRight
<1>6. QED
    BY <1>3, <1>4, <1>5, SiftsMade DEF i

\* The best of a position and its children is one of them in the array, no child sorts
\* before it, and if it is a child it sorts before the position.
LEMMA BestRight ==
    ASSUME NEW K, NEW items \in Seq(K), NEW i \in DOMAIN items, NEW before
    PROVE  LET best == Best(items, i, before)
           IN  /\ best \in DOMAIN items /\ best \in {i, 2 * i, 2 * i + 1}
               /\ best # i => best > i
<1>1. DOMAIN items = 1..Len(items) /\ Len(items) \in Nat /\ i \in Nat /\ i > 0
    OBVIOUS
<1>2. QED
    BY <1>1 DEF Best

\* A step down is a sift again, further from the root.
LEMMA SunkenRight ==
    ASSUME NEW K, NEW before, NEW s \in Sifts(K), Sinks(s, before)
    PROVE  /\ Sunken(s, before) \in Sifts(K) /\ s[2] < Sunken(s, before)[2]
           /\ Size(Sunken(s, before)[1]) = Size(s[1])
<1> DEFINE best == Best(s[1].items, s[2], before)
<1>1. s[1] \in Arrays(K) /\ s[2] \in 1..Size(s[1]) /\ DOMAIN s[1].items = 1..Size(s[1]) /\ best # s[2]
    BY SiftsRight DEF Sinks
<1>2. s[1].items \in Seq(K)
    BY <1>1, ArraysRight
<1>3. best \in 1..Size(s[1]) /\ best > s[2]
    BY <1>1, <1>2, BestRight
<1> DEFINE h == s[1]
           i == s[2]
<1>4. /\ h \in Arrays(K) /\ i \in DOMAIN h.items /\ best \in DOMAIN h.items /\ best \in 1..Size(h)
      /\ Sunken(s, before) = <<Swap(h, i, best), best>> /\ i < best
    BY <1>1, <1>3 DEF Sunken
<1> HIDE DEF h, i, best
<1>5. Swap(h, i, best) \in Arrays(K) /\ Size(Swap(h, i, best)) = Size(h)
    BY <1>4, SwapRight
<1>6. QED
    BY <1>4, <1>5, SiftsMade DEF h, i

\* What no step up disturbs holds of the heap and the position where a sift up ends.
LEMMA SiftUpEnds ==
    ASSUME NEW K, NEW before, NEW I \in SUBSET Sifts(K),
           \A s \in I : Rises(s, before) => Risen(s) \in I,
           NEW h \in Arrays(K), NEW at, <<h, at>> \in I
    PROVE  SiftUp(h, at, before) \in I /\ ~Rises(SiftUp(h, at, before), before)
<1> DEFINE S == Sifts(K)
           Solves(f) == f = [s \in S |-> IF Rises(s, before) THEN f[Risen(s)] ELSE s]
           stop == {s \in S : ~Rises(s, before)}
           next == [s \in S |-> IF Rises(s, before) THEN Risen(s) ELSE s]
           count == [s \in S |-> s[2]]
<1>1. next \in [S -> S]
    BY RisenRight
<1>2. \E f : f = [s \in S |-> IF s \in stop THEN s ELSE f[next[s]]]
  <2> HIDE DEF stop, next
  <2>1. QED
    BY <1>1, LoopExists
<1>3. ASSUME NEW f
      PROVE  Solves(f) <=> f = [s \in S |-> IF s \in stop THEN s ELSE f[next[s]]]
  <2>1. \A s \in S : (IF Rises(s, before) THEN f[Risen(s)] ELSE s) = IF s \in stop THEN s ELSE f[next[s]]
    OBVIOUS
  <2> HIDE DEF stop, next
  <2>2. [s \in S |-> IF Rises(s, before) THEN f[Risen(s)] ELSE s]
           = [s \in S |-> IF s \in stop THEN s ELSE f[next[s]]]
    BY <2>1
  <2>3. QED
    BY <2>2
<1>4. SiftUp(h, at, before) = (CHOOSE f : Solves(f))[<<h, at>>]
  <2>1. DOMAIN h.index = K
    BY ArraysRight
  <2>2. QED
    BY <2>1 DEF SiftUp, Rises, Risen
<1> HIDE DEF Solves
<1>5. PICK f : f = [s \in S |-> IF s \in stop THEN s ELSE f[next[s]]] /\ SiftUp(h, at, before) = f[<<h, at>>]
    BY <1>2, <1>3, <1>4
<1>6. count \in [S -> Nat]
    BY SiftsRight
<1>7. \A s \in I : s \notin stop => next[s] \in I /\ count[next[s]] < count[s]
  <2> SUFFICES ASSUME NEW s \in I, s \notin stop
               PROVE  next[s] \in I /\ count[next[s]] < count[s]
    OBVIOUS
  <2>1. s \in S /\ Rises(s, before)
    OBVIOUS
  <2>2. next[s] = Risen(s) /\ Risen(s) \in S /\ Risen(s)[2] < s[2]
    BY <2>1, RisenRight
  <2>3. QED
    BY <2>1, <2>2
<1>8. f[<<h, at>>] \in I /\ f[<<h, at>>] \in stop
  <2>1. I \in SUBSET S
    OBVIOUS
  <2> DEFINE start == <<h, at>>
  <2>2. start \in I
    OBVIOUS
  <2>3. f = [s \in S |-> IF s \in stop THEN s ELSE f[next[s]]]
    BY <1>5
  <2> HIDE DEF stop, next, count, S, start
  <2>4. f[start] \in I /\ f[start] \in stop
    BY <1>6, <1>7, <2>1, <2>2, <2>3, LoopEnds
  <2>5. QED
    BY <2>4 DEF start
<1>9. QED
    BY <1>5, <1>8

\* The same for a sift down.
LEMMA SiftDownEnds ==
    ASSUME NEW K, NEW before, NEW I \in SUBSET Sifts(K),
           \A s \in I : Sinks(s, before) => Sunken(s, before) \in I,
           NEW h \in Arrays(K), NEW at, <<h, at>> \in I
    PROVE  SiftDown(h, at, before) \in I /\ ~Sinks(SiftDown(h, at, before), before)
<1> DEFINE S == Sifts(K)
           Solves(f) == f = [s \in S |-> IF ~Sinks(s, before) THEN s ELSE f[Sunken(s, before)]]
           stop == {s \in S : ~Sinks(s, before)}
           next == [s \in S |-> IF Sinks(s, before) THEN Sunken(s, before) ELSE s]
           count == [s \in S |-> Size(s[1]) - s[2]]
<1>1. next \in [S -> S]
    BY SunkenRight
<1>2. \E f : f = [s \in S |-> IF s \in stop THEN s ELSE f[next[s]]]
  <2> HIDE DEF stop, next
  <2>1. QED
    BY <1>1, LoopExists
<1>3. ASSUME NEW f
      PROVE  Solves(f) <=> f = [s \in S |-> IF s \in stop THEN s ELSE f[next[s]]]
  <2>1. \A s \in S : (IF ~Sinks(s, before) THEN s ELSE f[Sunken(s, before)])
                        = IF s \in stop THEN s ELSE f[next[s]]
    OBVIOUS
  <2> HIDE DEF stop, next
  <2>2. [s \in S |-> IF ~Sinks(s, before) THEN s ELSE f[Sunken(s, before)]]
           = [s \in S |-> IF s \in stop THEN s ELSE f[next[s]]]
    BY <2>1
  <2>3. QED
    BY <2>2
<1>4. SiftDown(h, at, before) = (CHOOSE f : Solves(f))[<<h, at>>]
  <2>1. DOMAIN h.index = K
    BY ArraysRight
  <2>2. QED
    BY <2>1 DEF SiftDown, Sinks, Sunken
<1> HIDE DEF Solves
<1>5. PICK f : f = [s \in S |-> IF s \in stop THEN s ELSE f[next[s]]] /\ SiftDown(h, at, before) = f[<<h, at>>]
    BY <1>2, <1>3, <1>4
<1>6. count \in [S -> Nat]
  <2>1. \A s \in S : Size(s[1]) - s[2] \in Nat
    BY SiftsRight, ArraysRight
  <2>2. QED
    BY <2>1
<1>7. \A s \in I : s \notin stop => next[s] \in I /\ count[next[s]] < count[s]
  <2> SUFFICES ASSUME NEW s \in I, s \notin stop
               PROVE  next[s] \in I /\ count[next[s]] < count[s]
    OBVIOUS
  <2>1. s \in S /\ Sinks(s, before)
    OBVIOUS
  <2> DEFINE t == Sunken(s, before)
  <2>2. next[s] = t /\ t \in S /\ s[2] < t[2] /\ Size(t[1]) = Size(s[1])
    BY <2>1, SunkenRight
  <2>3. s[2] \in Nat /\ t[2] \in Nat /\ Size(s[1]) \in Nat
    BY <2>1, <2>2, SiftsRight, ArraysRight
  <2> HIDE DEF t
  <2>4. count[s] = Size(s[1]) - s[2] /\ count[t] = Size(t[1]) - t[2]
    BY <2>1, <2>2
  <2>5. t \in I
    BY <2>1 DEF t
  <2>6. QED
    BY <2>2, <2>3, <2>4, <2>5
<1>8. f[<<h, at>>] \in I /\ f[<<h, at>>] \in stop
  <2>1. I \in SUBSET S
    OBVIOUS
  <2> DEFINE start == <<h, at>>
  <2>2. start \in I
    OBVIOUS
  <2>3. f = [s \in S |-> IF s \in stop THEN s ELSE f[next[s]]]
    BY <1>5
  <2> HIDE DEF stop, next, count, S, start
  <2>4. f[start] \in I /\ f[start] \in stop
    BY <1>6, <1>7, <2>1, <2>2, <2>3, LoopEnds
  <2>5. QED
    BY <2>4 DEF start
<1>9. QED
    BY <1>5, <1>8

-----------------------------------------------------------------------------
(* The order *)

\* What the sifts need of a comparator: it never ranks two entries before each other,
\* and "not behind" is transitive.
IsOrder(K, before) ==
    /\ \A a, b \in K : <<a, b>> \in before => <<b, a>> \notin before
    /\ \A a, b, c \in K : <<b, a>> \notin before /\ <<c, b>> \notin before => <<c, a>> \notin before

\* Of the n entries of t, that at i comes before its parent's at p, the others are in order
\* and those below i would be below p; u has the two exchanged.
RaisesOne(K, before, n, t, u, i, p) ==
    /\ \A j \in 1..n : t[j] \in K
    /\ i \in 2..n /\ p \in 1..n /\ p = i \div 2 /\ <<t[i], t[p]>> \in before
    /\ u[i] = t[p] /\ u[p] = t[i] /\ \A j \in 1..n : j # i /\ j # p => u[j] = t[j]
    /\ \A j \in 2..n : j # i /\ j \div 2 # i => <<t[j], t[j \div 2]>> \notin before
    /\ \A j \in 2..n : j \div 2 = i => <<t[j], t[p]>> \notin before

\* An entry that rises past its parent leaves all but its own new place in order.
LEMMA RaisedOne ==
    ASSUME NEW K, NEW before, IsOrder(K, before), NEW n \in Nat, NEW t, NEW u,
           NEW i, NEW p, RaisesOne(K, before, n, t, u, i, p)
    PROVE  /\ \A j \in 2..n : j # p => <<u[j], u[j \div 2]>> \notin before
           /\ \A j \in 2..n : j \div 2 = p /\ p > 1 => <<u[j], u[p \div 2]>> \notin before
<1> USE DEF RaisesOne
<1>1. /\ \A j \in 2..n : j \in 1..n /\ j \div 2 \in 1..n /\ j \div 2 < j
      /\ i \in 1..n /\ p < i /\ 2..n \subseteq 1..n
    BY Halves
<1>2. <<t[p], t[i]>> \notin before
    BY <1>1 DEF IsOrder
<1>3. ASSUME NEW j \in 2..n, j # p
      PROVE  <<u[j], u[j \div 2]>> \notin before
  <2>1. CASE j = i
    BY <1>2, <2>1
  <2>2. CASE j # i /\ j \div 2 = i
    <3>1. u[j] = t[j] /\ u[j \div 2] = t[p]
      BY <1>1, <1>3, <2>2
    <3>2. QED
      BY <2>2, <3>1
  <2>3. CASE j # i /\ j \div 2 = p
    <3>1. u[j] = t[j] /\ u[j \div 2] = t[i] /\ j \div 2 # i
      BY <1>1, <1>3, <2>3
    <3>2. <<t[j], t[p]>> \notin before
      BY <2>3, <3>1
    <3>3. t[j] \in K /\ t[p] \in K /\ t[i] \in K
      BY <1>1
    <3>4. QED
      BY <1>2, <3>1, <3>2, <3>3 DEF IsOrder
  <2>4. CASE j # i /\ j \div 2 # i /\ j \div 2 # p
    <3>1. u[j] = t[j] /\ u[j \div 2] = t[j \div 2]
      BY <1>1, <1>3, <2>4
    <3>2. QED
      BY <2>4, <3>1
  <2>5. QED
    BY <2>1, <2>2, <2>3, <2>4
<1>4. ASSUME NEW j \in 2..n, j \div 2 = p, p > 1
      PROVE  <<u[j], u[p \div 2]>> \notin before
  <2>1. p \in 2..n /\ p \div 2 \in 1..n /\ p \div 2 # i /\ p \div 2 # p /\ p # i
    BY <1>1, <1>4
  <2>2. u[p \div 2] = t[p \div 2] /\ <<t[p], t[p \div 2]>> \notin before
    BY <2>1
  <2>3. CASE j = i
    BY <2>2, <2>3
  <2>4. CASE j # i
    <3>1. j # p /\ j \div 2 # i /\ j \in 1..n
      BY <1>1, <1>4
    <3>2. u[j] = t[j] /\ <<t[j], t[p]>> \notin before
      BY <1>4, <2>4, <3>1
    <3>3. t[j] \in K /\ t[p] \in K /\ t[p \div 2] \in K
      BY <2>1, <3>1
    <3>4. QED
      BY <2>2, <3>2, <3>3 DEF IsOrder
  <2>5. QED
    BY <2>3, <2>4
<1>5. QED
    BY <1>3, <1>4

\* Of the n entries of t, that at i comes behind the best of its children, at c; of the
\* others those whose parent is low or after low are in order, and those below i would be
\* below the parent of i; u has the two exchanged.
LowersOne(K, before, n, t, u, low, i, c) ==
    /\ \A j \in 1..n : t[j] \in K
    /\ i \in 1..n /\ c \in 2..n /\ c \div 2 = i /\ <<t[c], t[i]>> \in before
    /\ \A j \in 2..n : j \div 2 = i => <<t[j], t[c]>> \notin before
    /\ u[i] = t[c] /\ u[c] = t[i] /\ \A j \in 1..n : j # i /\ j # c => u[j] = t[j]
    /\ \A j \in 2..n : j \div 2 >= low /\ j \div 2 # i => <<t[j], t[j \div 2]>> \notin before
    /\ \A j \in 2..n : j \div 2 = i /\ i \div 2 >= low => <<t[j], t[i \div 2]>> \notin before

\* An entry that sinks below its best child c leaves, of the places under "low" and
\* what follows it, all but its own new place in order.
LEMMA LoweredOne ==
    ASSUME NEW K, NEW before, IsOrder(K, before), NEW n \in Nat, NEW t, NEW u,
           NEW low \in Nat, low >= 1, NEW i, NEW c, LowersOne(K, before, n, t, u, low, i, c)
    PROVE  /\ \A j \in 2..n : j \div 2 >= low /\ j \div 2 # c => <<u[j], u[j \div 2]>> \notin before
           /\ \A j \in 2..n : j \div 2 = c /\ c \div 2 >= low => <<u[j], u[c \div 2]>> \notin before
<1> USE DEF LowersOne
<1>1. /\ \A j \in 2..n : j \in 1..n /\ j \div 2 \in 1..n /\ j \div 2 < j
      /\ c \in 1..n /\ i < c /\ 2..n \subseteq 1..n
    BY Halves
<1>2. <<t[i], t[c]>> \notin before
    BY <1>1 DEF IsOrder
<1>3. ASSUME NEW j \in 2..n, j \div 2 >= low, j \div 2 # c
      PROVE  <<u[j], u[j \div 2]>> \notin before
  <2>1. CASE j = i
    <3>1. c \div 2 = i /\ i \div 2 >= low /\ i \div 2 \in 1..n /\ i \div 2 # i /\ i \div 2 # c
      BY <1>1, <1>3, <2>1
    <3>2. <<t[c], t[i \div 2]>> \notin before /\ u[i \div 2] = t[i \div 2]
      BY <3>1
    <3>3. QED
      BY <2>1, <3>2
  <2>2. CASE j = c
    BY <1>2, <2>2
  <2>3. CASE j # c /\ j \div 2 = i
    <3>1. u[j] = t[j] /\ u[j \div 2] = t[c]
      BY <1>1, <2>3
    <3>2. QED
      BY <2>3, <3>1
  <2>4. CASE j # i /\ j # c /\ j \div 2 # i
    <3>1. u[j] = t[j] /\ u[j \div 2] = t[j \div 2]
      BY <1>1, <1>3, <2>4
    <3>2. QED
      BY <1>3, <2>4, <3>1
  <2>5. QED
    BY <2>1, <2>2, <2>3, <2>4
<1>4. ASSUME NEW j \in 2..n, j \div 2 = c, c \div 2 >= low
      PROVE  <<u[j], u[c \div 2]>> \notin before
  <2>1. j # i /\ j # c /\ j \div 2 # i /\ j \div 2 >= low /\ j \in 1..n
    BY <1>1, <1>4
  <2>2. u[j] = t[j] /\ u[c \div 2] = t[c]
    BY <2>1
  <2>3. <<t[j], t[c]>> \notin before
    BY <1>4, <2>1
  <2>4. QED
    BY <2>2, <2>3
<1>5. QED
    BY <1>3, <1>4

-----------------------------------------------------------------------------
(* What the sifts return *)

\* g has the size of h and, if h's index is right, the keys of h and a right index.
Alike(g, h) == Size(g) = Size(h) /\ (Coherent(h) => Coherent(g) /\ KeysIn(g) = KeysIn(h))

\* A step up or down keeps the entries.
LEMMA StepAlike ==
    ASSUME NEW K, NEW before, NEW s \in Sifts(K)
    PROVE  /\ Rises(s, before) => Alike(Risen(s)[1], s[1])
           /\ Sinks(s, before) => Alike(Sunken(s, before)[1], s[1])
<1> DEFINE h == s[1]
           i == s[2]
           p == s[2] \div 2
           best == Best(s[1].items, s[2], before)
<1>1. h \in Arrays(K) /\ i \in 1..Size(h) /\ DOMAIN h.items = 1..Size(h) /\ Size(h) \in Nat
      /\ h.items \in Seq(K)
    BY SiftsRight, ArraysRight
<1>2. i > 1 => p \in DOMAIN h.items
    BY <1>1, Halves
<1>3. best \in DOMAIN h.items
    BY <1>1, BestRight
<1>4. Risen(s)[1] = Swap(h, i, p) /\ Sunken(s, before)[1] = Swap(h, i, best) /\ (Rises(s, before) => i > 1)
    BY DEF Risen, Sunken, Rises
<1> HIDE DEF h, i, p, best
<1>5. ASSUME NEW j \in DOMAIN h.items
      PROVE  Alike(Swap(h, i, j), h)
    BY <1>1, <1>5, SwapRight DEF Alike
<1>6. QED
    BY <1>2, <1>3, <1>4, <1>5 DEF h

\* A sift keeps the entries, whatever the order.
LEMMA SiftedAlike ==
    ASSUME NEW K, NEW before, NEW h \in Arrays(K), NEW at \in 1..Size(h)
    PROVE  /\ SiftUp(h, at, before) \in Sifts(K) /\ Alike(SiftUp(h, at, before)[1], h)
           /\ SiftDown(h, at, before) \in Sifts(K) /\ Alike(SiftDown(h, at, before)[1], h)
<1> DEFINE I == {s \in Sifts(K) : Alike(s[1], h)}
<1>1. I \in SUBSET Sifts(K)
    OBVIOUS
<1>2. <<h, at>> \in I
    BY SiftsMade DEF Alike
<1>3. ASSUME NEW s \in I
      PROVE  /\ Rises(s, before) => Risen(s) \in I
             /\ Sinks(s, before) => Sunken(s, before) \in I
  <2>1. s \in Sifts(K) /\ Alike(s[1], h)
    OBVIOUS
  <2>2. Rises(s, before) => Risen(s) \in Sifts(K) /\ Alike(Risen(s)[1], h)
    BY <2>1, RisenRight, StepAlike DEF Alike
  <2>3. Sinks(s, before) => Sunken(s, before) \in Sifts(K) /\ Alike(Sunken(s, before)[1], h)
    BY <2>1, SunkenRight, StepAlike DEF Alike
  <2>4. QED
    BY <2>2, <2>3
<1>4. SiftUp(h, at, before) \in I /\ SiftDown(h, at, before) \in I
  <2> HIDE DEF I
  <2>1. QED
    BY <1>1, <1>2, <1>3, SiftUpEnds, SiftDownEnds
<1>5. QED
    BY <1>4

\* All is in order but the entry at s[2], and would be if it were not there.
Astray(s, before) ==
    LET t == s[1].items
        i == s[2]
    IN  \A n \in 2..Size(s[1]) :
           /\ n # i /\ n \div 2 # i => <<t[n], t[n \div 2]>> \notin before
           /\ n \div 2 = i /\ i > 1 => <<t[n], t[i \div 2]>> \notin before

\* The entry at s[2] sorts behind none of its children.
OverChildren(s, before) ==
    \A n \in 2..Size(s[1]) : n \div 2 = s[2] => <<s[1].items[n], s[1].items[s[2]]>> \notin before

\* A sift up ends where the entry sorts behind no child, unless it does not move at all,
\* and not before its parent.
LEMMA SiftedUp ==
    ASSUME NEW K, NEW before, IsOrder(K, before), NEW h \in Arrays(K), NEW at \in 1..Size(h),
           Astray(<<h, at>>, before)
    PROVE  LET s == SiftUp(h, at, before)
           IN  /\ Astray(s, before) /\ ~Rises(s, before)
               /\ s = <<h, at>> \/ OverChildren(s, before)
<1> DEFINE I == {s \in Sifts(K) : Astray(s, before) /\ (s = <<h, at>> \/ OverChildren(s, before))}
<1>1. I \in SUBSET Sifts(K) /\ <<h, at>> \in I
    BY SiftsMade
<1>2. ASSUME NEW s \in I, Rises(s, before)
      PROVE  Risen(s) \in I
  <2> DEFINE g == s[1]
             i == s[2]
             p == i \div 2
             t == g.items
             u == Swap(g, i, p).items
             n == Size(g)
  <2>1. s \in Sifts(K) /\ Astray(s, before)
    OBVIOUS
  <2>2. /\ g \in Arrays(K) /\ n \in Nat /\ i \in 2..n /\ p \in 1..n /\ DOMAIN g.items = 1..n
        /\ (\A j \in 1..n : t[j] \in K) /\ p = i \div 2
    <3>1. g \in Arrays(K) /\ i \in 1..n /\ i > 1
      BY <1>2, <2>1, SiftsRight DEF Rises
    <3>2. n \in Nat /\ DOMAIN g.items = 1..n /\ \A j \in 1..n : t[j] \in K
      BY <3>1, ArraysRight
    <3>3. QED
      BY <3>1, <3>2, Halves
  <2>3. u[i] = t[p] /\ u[p] = t[i] /\ (\A j \in 1..n : j # i /\ j # p => u[j] = t[j])
        /\ Size(Swap(g, i, p)) = n
    BY <2>2, SwapRight
  <2>4. /\ <<t[i], t[p]>> \in before /\ i > 1
        /\ \A j \in 2..n : j # i /\ j \div 2 # i => <<t[j], t[j \div 2]>> \notin before
        /\ \A j \in 2..n : j \div 2 = i => <<t[j], t[p]>> \notin before
    BY <1>2, <2>1 DEF Astray, Rises
  <2>5. Risen(s) \in Sifts(K) /\ Risen(s) = <<Swap(g, i, p), p>>
    BY <1>2, <2>1, RisenRight DEF Risen
  <2> HIDE DEF g, u, n, t, i, p
  <2>6. /\ \A j \in 2..n : j # p => <<u[j], u[j \div 2]>> \notin before
        /\ \A j \in 2..n : j \div 2 = p /\ p > 1 => <<u[j], u[p \div 2]>> \notin before
    <3>1. RaisesOne(K, before, n, t, u, i, p)
      BY <2>2, <2>3, <2>4 DEF RaisesOne
    <3>2. n \in Nat
      BY <2>2
    <3>3. QED
      BY <3>1, <3>2, RaisedOne, Zenon
  <2>7. Astray(<<Swap(g, i, p), p>>, before)
    BY <2>2, <2>3, <2>6 DEF Astray, u
  <2>8. \A j \in 2..n : j \div 2 = p => j # p
    BY <2>2, Halves
  <2>9. OverChildren(<<Swap(g, i, p), p>>, before)
    BY <2>3, <2>6, <2>8 DEF OverChildren, u
  <2>10. QED
    BY <2>5, <2>7, <2>9
<1>3. SiftUp(h, at, before) \in I /\ ~Rises(SiftUp(h, at, before), before)
  <2> HIDE DEF I
  <2>1. QED
    BY <1>1, <1>2, SiftUpEnds
<1>4. QED
    BY <1>3

\* No child sorts before the best of a position and its children.
LEMMA BestFirst ==
    ASSUME NEW K, NEW before, IsOrder(K, before), NEW items \in Seq(K), NEW i \in DOMAIN items,
           NEW c, c = Best(items, i, before)
    PROVE  /\ \A j \in DOMAIN items : j \in {2 * i, 2 * i + 1} => <<items[j], items[c]>> \notin before
           /\ c # i => <<items[c], items[i]>> \in before
<1>1. /\ DOMAIN items = 1..Len(items) /\ Len(items) \in Nat /\ i \in Nat /\ i > 0
      /\ \A j \in 1..Len(items) : items[j] \in K
    OBVIOUS
<1> DEFINE left  == 2 * i
           right == 2 * i + 1
           b == IF left <= Len(items) /\ <<items[left], items[i]>> \in before THEN left ELSE i
<1>2. c = IF right <= Len(items) /\ <<items[right], items[b]>> \in before THEN right ELSE b
    BY DEF Best
<1>3. /\ b \in DOMAIN items
      /\ left \in DOMAIN items => <<items[left], items[b]>> \notin before
      /\ b # i => b = left /\ <<items[b], items[i]>> \in before
    BY <1>1 DEF IsOrder
<1>4. left \in DOMAIN items => left <= Len(items)
    BY <1>1
<1>5. right \in DOMAIN items <=> right <= Len(items)
    BY <1>1
<1>6. left # right /\ left # i /\ right # i
    BY <1>1
<1> HIDE DEF left, right, b
<1>7. CASE right <= Len(items) /\ <<items[right], items[b]>> \in before
  <2>1. c = right /\ right \in DOMAIN items
    BY <1>2, <1>5, <1>7
  <2>2. items[right] \in K /\ items[b] \in K /\ items[i] \in K /\ (left \in DOMAIN items => items[left] \in K)
    BY <1>1, <1>3, <2>1
  <2>3. <<items[b], items[right]>> \notin before /\ <<items[right], items[right]>> \notin before
    BY <1>7, <2>2 DEF IsOrder
  <2>4. left \in DOMAIN items => <<items[left], items[right]>> \notin before
    BY <1>3, <2>2, <2>3 DEF IsOrder
  <2>5. <<items[right], items[i]>> \in before
    <3>1. CASE b = i
      BY <1>7, <3>1
    <3>2. CASE b # i
      <4>1. <<items[i], items[b]>> \notin before
        BY <1>3, <2>2, <3>2 DEF IsOrder
      <4>2. <<items[right], items[i]>> \notin before => <<items[right], items[b]>> \notin before
        BY <2>2, <4>1 DEF IsOrder
      <4>3. QED
        BY <1>7, <4>2
    <3>3. QED
      BY <3>1, <3>2
  <2>6. QED
    BY <2>1, <2>3, <2>4, <2>5 DEF left, right
<1>8. CASE ~(right <= Len(items) /\ <<items[right], items[b]>> \in before)
    BY <1>2, <1>3, <1>5, <1>8 DEF left, right
<1>9. QED
    BY <1>7, <1>8

\* From position "low" on, no entry sorts before its parent.
OrderedFrom(h, before, low) ==
    \A n \in 2..Size(h) : n \div 2 >= low => <<h.items[n], h.items[n \div 2]>> \notin before

\* From "low" on all is in order but below s[2], and those below it would be below its parent.
SinksFrom(s, before, low) ==
    LET t == s[1].items
        i == s[2]
    IN  \A n \in 2..Size(s[1]) :
           /\ n \div 2 >= low /\ n \div 2 # i => <<t[n], t[n \div 2]>> \notin before
           /\ n \div 2 = i /\ i \div 2 >= low => <<t[n], t[i \div 2]>> \notin before

\* A sift down ends with all in order from "low" on.
LEMMA SiftedDown ==
    ASSUME NEW K, NEW before, IsOrder(K, before), NEW h \in Arrays(K), NEW at \in 1..Size(h),
           NEW low \in Nat, low >= 1, SinksFrom(<<h, at>>, before, low)
    PROVE  OrderedFrom(SiftDown(h, at, before)[1], before, low)
<1> DEFINE I == {s \in Sifts(K) : SinksFrom(s, before, low)}
<1>1. I \in SUBSET Sifts(K) /\ <<h, at>> \in I
    BY SiftsMade
<1>2. ASSUME NEW s \in Sifts(K)
      PROVE  LET c == Best(s[1].items, s[2], before)
                 n == Size(s[1])
             IN  /\ s[1] \in Arrays(K) /\ n \in Nat /\ s[2] \in 1..n /\ DOMAIN s[1].items = 1..n
                 /\ s[1].items \in Seq(K) /\ \A j \in 1..n : s[1].items[j] \in K
                 /\ c \in 1..n /\ (c # s[2] => c \in 2..n /\ c \div 2 = s[2])
                 /\ \A j \in 2..n : j \div 2 = s[2] => <<s[1].items[j], s[1].items[c]>> \notin before
                 /\ c # s[2] => <<s[1].items[c], s[1].items[s[2]]>> \in before
  <2> DEFINE t == s[1].items
             i == s[2]
             n == Size(s[1])
             c == Best(t, i, before)
  <2>1. /\ s[1] \in Arrays(K) /\ n \in Nat /\ i \in 1..n /\ DOMAIN t = 1..n /\ t \in Seq(K)
        /\ \A j \in 1..n : t[j] \in K
    BY SiftsRight, ArraysRight
  <2> HIDE DEF t, i, n, c
  <2>2. /\ \A j \in 1..n : j \in {2 * i, 2 * i + 1} => <<t[j], t[c]>> \notin before
        /\ c # i => <<t[c], t[i]>> \in before
    <3>1. c = Best(t, i, before)
      BY DEF c
    <3>2. QED
      BY <2>1, <3>1, BestFirst
  <2>3. c \in 1..n /\ c \in {i, 2 * i, 2 * i + 1} /\ (c # i => c > i)
    BY <2>1, BestRight DEF c
  <2>4. \A j \in 2..n : j \in 1..n /\ (j \div 2 = i => j \in {2 * i, 2 * i + 1})
    BY <2>1
  <2>5. c # i => c \in 2..n /\ c \div 2 = i
    BY <2>1, <2>3
  <2>6. QED
    BY <2>1, <2>2, <2>3, <2>4, <2>5 DEF t, i, n, c
<1>3. ASSUME NEW s \in I, Sinks(s, before)
      PROVE  Sunken(s, before) \in I
  <2> DEFINE g == s[1]
             i == s[2]
             t == g.items
             n == Size(g)
             c == Best(t, i, before)
             u == Swap(g, i, c).items
  <2>1. s \in Sifts(K) /\ SinksFrom(s, before, low) /\ c # i
    BY <1>3 DEF Sinks
  <2>2. /\ g \in Arrays(K) /\ n \in Nat /\ i \in 1..n /\ DOMAIN g.items = 1..n
        /\ (\A j \in 1..n : t[j] \in K) /\ c \in 2..n /\ c \div 2 = i /\ <<t[c], t[i]>> \in before
        /\ (\A j \in 2..n : j \div 2 = i => <<t[j], t[c]>> \notin before)
    BY <1>2, <2>1
  <2>3. Sunken(s, before) \in Sifts(K) /\ Sunken(s, before) = <<Swap(g, i, c), c>>
    BY <1>3, <2>1, SunkenRight DEF Sunken
  <2>4. /\ \A j \in 2..n : j \div 2 >= low /\ j \div 2 # i => <<t[j], t[j \div 2]>> \notin before
        /\ \A j \in 2..n : j \div 2 = i /\ i \div 2 >= low => <<t[j], t[i \div 2]>> \notin before
    BY <2>1 DEF SinksFrom
  <2> HIDE DEF g, u, n, t, i, c
  <2>5. c \in DOMAIN g.items /\ i \in DOMAIN g.items
    BY <2>2
  <2>6. u[i] = t[c] /\ u[c] = t[i] /\ (\A j \in 1..n : j # i /\ j # c => u[j] = t[j])
        /\ Size(Swap(g, i, c)) = n
    BY <2>2, <2>5, SwapRight DEF t, u, n
  <2>7. LowersOne(K, before, n, t, u, low, i, c)
    BY <2>2, <2>4, <2>6 DEF LowersOne
  <2>8. n \in Nat
    BY <2>2
  <2>9. /\ \A j \in 2..n : j \div 2 >= low /\ j \div 2 # c => <<u[j], u[j \div 2]>> \notin before
        /\ \A j \in 2..n : j \div 2 = c /\ c \div 2 >= low => <<u[j], u[c \div 2]>> \notin before
    BY <2>7, <2>8, LoweredOne, Zenon
  <2>10. SinksFrom(<<Swap(g, i, c), c>>, before, low)
    BY <2>6, <2>9 DEF SinksFrom, u
  <2>11. QED
    BY <2>3, <2>10
<1>4. SiftDown(h, at, before) \in I /\ ~Sinks(SiftDown(h, at, before), before)
  <2> HIDE DEF I
  <2>1. QED
    BY <1>1, <1>3, SiftDownEnds
<1> DEFINE s == SiftDown(h, at, before)
<1>5. s \in Sifts(K) /\ SinksFrom(s, before, low) /\ Best(s[1].items, s[2], before) = s[2]
    BY <1>4 DEF Sinks
<1> HIDE DEF s
<1>6. \A j \in 2..Size(s[1]) : j \div 2 = s[2] => <<s[1].items[j], s[1].items[s[2]]>> \notin before
    BY <1>2, <1>5
<1>7. OrderedFrom(s[1], before, low)
    BY <1>5, <1>6 DEF SinksFrom, OrderedFrom
<1>8. QED
    BY <1>7 DEF s

-----------------------------------------------------------------------------
(* The operations *)

\* An entry that may be out of place goes up, then down, and all is in order.
LEMMA Reseated ==
    ASSUME NEW K, NEW before, IsOrder(K, before), NEW h \in Arrays(K), NEW at \in 1..Size(h),
           Astray(<<h, at>>, before)
    PROVE  /\ Reseat(h, at, before) \in Arrays(K) /\ Alike(Reseat(h, at, before), h)
           /\ Ordered(Reseat(h, at, before), before)
<1> DEFINE up == SiftUp(h, at, before)
           g == up[1]
           i == up[2]
           down == SiftDown(g, i, before)
<1>1. up \in Sifts(K) /\ Alike(g, h) /\ Astray(up, before) /\ ~Rises(up, before)
    BY SiftedAlike, SiftedUp
<1>2. Reseat(h, at, before) = down[1]
    BY DEF Reseat
<1>3. g \in Arrays(K) /\ i \in 1..Size(g) /\ Size(g) \in Nat
    <2> HIDE DEF up
    <2>1. QED
      BY <1>1, SiftsRight, ArraysRight
<1>4. SinksFrom(<<g, i>>, before, 1)
  <2>1. /\ \A n \in 2..Size(g) :
              /\ n # i /\ n \div 2 # i => <<g.items[n], g.items[n \div 2]>> \notin before
              /\ n \div 2 = i /\ i > 1 => <<g.items[n], g.items[i \div 2]>> \notin before
        /\ i > 1 => <<g.items[i], g.items[i \div 2]>> \notin before
    BY <1>1 DEF Astray, Rises
  <2>2. i \div 2 >= 1 => i > 1
    BY <1>3
  <2> HIDE DEF g, i
  <2>3. QED
    BY <2>1, <2>2 DEF SinksFrom
<1> HIDE DEF up, g, i, down
<1>5. OrderedFrom(down[1], before, 1) /\ down \in Sifts(K) /\ Alike(down[1], g)
    BY <1>3, <1>4, SiftedDown, SiftedAlike DEF down
<1>6. down[1] \in Arrays(K) /\ Size(down[1]) \in Nat
    BY <1>5, SiftsRight, ArraysRight
<1>7. Ordered(down[1], before)
    BY <1>5, <1>6, Halves DEF OrderedFrom, Ordered
<1>8. Alike(down[1], h)
    BY <1>1, <1>5 DEF Alike
<1>9. QED
    BY <1>2, <1>6, <1>7, <1>8

\* An entry that is over its children goes up, and all is in order.
LEMMA RaisedRight ==
    ASSUME NEW K, NEW before, IsOrder(K, before), NEW h \in Arrays(K), NEW at \in 1..Size(h),
           Astray(<<h, at>>, before), OverChildren(<<h, at>>, before)
    PROVE  LET g == SiftUp(h, at, before)[1]
           IN  g \in Arrays(K) /\ Alike(g, h) /\ Ordered(g, before)
<1> DEFINE up == SiftUp(h, at, before)
           g == up[1]
           i == up[2]
<1>1. up \in Sifts(K) /\ Alike(g, h) /\ Astray(up, before) /\ ~Rises(up, before) /\ OverChildren(up, before)
    BY SiftedAlike, SiftedUp
<1>2. g \in Arrays(K) /\ i \in 1..Size(g) /\ Size(g) \in Nat
    <2> HIDE DEF up
    <2>1. QED
      BY <1>1, SiftsRight, ArraysRight
<1>3. ASSUME NEW n \in 2..Size(g)
      PROVE  <<g.items[n], g.items[n \div 2]>> \notin before
  <2>1. CASE n = i
    BY <1>1, <2>1 DEF Rises
  <2>2. CASE n # i /\ n \div 2 # i
    BY <1>1, <2>2 DEF Astray
  <2>3. CASE n # i /\ n \div 2 = i
    BY <1>1, <2>3 DEF OverChildren
  <2>4. QED
    BY <2>1, <2>2, <2>3
<1>4. QED
    BY <1>1, <1>2, <1>3 DEF Ordered

\* A root that may be out of place sinks, and all is in order.
LEMMA RootLowered ==
    ASSUME NEW K, NEW before, IsOrder(K, before), NEW h \in Arrays(K), Size(h) # 0,
           Astray(<<h, 1>>, before)
    PROVE  LET g == SiftDown(h, 1, before)[1]
           IN  g \in Arrays(K) /\ Alike(g, h) /\ Ordered(g, before)
<1>1. Size(h) \in Nat /\ 1 \in 1..Size(h)
    BY ArraysRight
<1>2. \A n \in 2..Size(h) : n # 1
    BY <1>1
<1>3. SinksFrom(<<h, 1>>, before, 1)
    BY <1>1, <1>2 DEF SinksFrom, Astray
<1> DEFINE down == SiftDown(h, 1, before)
<1>4. OrderedFrom(down[1], before, 1) /\ down \in Sifts(K) /\ Alike(down[1], h)
    BY <1>1, <1>3, SiftedDown, SiftedAlike
<1> HIDE DEF down
<1>5. down[1] \in Arrays(K) /\ Size(down[1]) \in Nat
    BY <1>4, SiftsRight, ArraysRight
<1>6. Ordered(down[1], before)
    BY <1>4, <1>5, Halves DEF OrderedFrom, Ordered
<1>7. QED
    BY <1>4, <1>5, <1>6 DEF down

\* The orders agree on all entries but k.
AgreeBut(K, k, before, after) ==
    \A a, b \in K \ {k} : <<a, b>> \in before <=> <<a, b>> \in after

\* When the order changes for one entry of a heap, that entry is all that is out of place.
LEMMA OneAstray ==
    ASSUME NEW K, NEW before, NEW after, IsOrder(K, before), NEW h \in Arrays(K), Coherent(h),
           Ordered(h, before), NEW k \in K, h.index[k] # 0, AgreeBut(K, k, before, after)
    PROVE  h.index[k] \in 1..Size(h) /\ h.items[h.index[k]] = k /\ Astray(<<h, h.index[k]>>, after)
<1> DEFINE i == h.index[k]
           t == h.items
           n == Size(h)
<1>1. /\ n \in Nat /\ i \in 1..n /\ t[i] = k
      /\ \A j \in 1..n : t[j] \in K /\ (t[j] = k => j = i)
    BY ArraysRight DEF Coherent
<1>2. \A j \in 2..n : <<t[j], t[j \div 2]>> \notin before
    BY DEF Ordered
<1>3. \A j \in 2..n : j \in 1..n /\ j \div 2 \in 1..n /\ j \div 2 < j
    BY <1>1, Halves
<1> HIDE DEF i, t, n
<1>4. ASSUME NEW j \in 2..n, j # i, j \div 2 # i
      PROVE  <<t[j], t[j \div 2]>> \notin after
    BY <1>1, <1>2, <1>3, <1>4 DEF AgreeBut
<1>5. ASSUME NEW j \in 2..n, j \div 2 = i, i > 1
      PROVE  <<t[j], t[i \div 2]>> \notin after
  <2>1. i \in 2..n /\ j # i /\ i \div 2 # i
    BY <1>1, <1>3, <1>5
  <2>2. <<t[j], t[i]>> \notin before /\ <<t[i], t[i \div 2]>> \notin before
    BY <1>2, <1>5, <2>1
  <2>3. t[j] \in K \ {k} /\ t[i] \in K /\ t[i \div 2] \in K \ {k}
    BY <1>1, <1>3, <2>1
  <2>4. <<t[j], t[i \div 2]>> \notin before
    BY <2>2, <2>3 DEF IsOrder
  <2>5. QED
    BY <2>3, <2>4 DEF AgreeBut
<1>6. QED
    BY <1>1, <1>4, <1>5 DEF Astray, i, t, n

\* A heap over the keys K, right in its index and in order.
SoundHeap(h, K, before) == h \in Arrays(K) /\ Coherent(h) /\ Ordered(h, before)

\* The heap with k behind its last entry.
Appended(h, k) ==
    [items |-> Append(h.items, k), index |-> [h.index EXCEPT ![k] = Size(h) + 1]]

\* A new entry, appended, is where the index says.
LEMMA AppendedIndexed ==
    ASSUME NEW K, NEW h \in Arrays(K), Coherent(h), NEW k \in K, h.index[k] = 0
    PROVE  LET a == Appended(h, k)
               n == Size(h)
           IN  /\ a \in Arrays(K) /\ Coherent(a) /\ KeysIn(a) = KeysIn(h) \cup {k}
               /\ n \in Nat /\ Size(a) = n + 1 /\ n + 1 \in 1..Size(a)
               /\ \A j \in 1..n : a.items[j] = h.items[j]
<1> DEFINE n == Size(h)
           a == Appended(h, k)
<1>1. /\ n \in Nat /\ h.items \in Seq(K) /\ n = Len(h.items) /\ h.index \in [K -> Nat]
      /\ \A j \in 1..n : h.items[j] \in K
    BY ArraysRight
<1>2. /\ Append(h.items, k) \in Seq(K) /\ Len(Append(h.items, k)) = n + 1
      /\ \A j \in 1..n : Append(h.items, k)[j] = h.items[j]
      /\ Append(h.items, k)[n + 1] = k
    BY <1>1
<1>3. /\ a.items = Append(h.items, k) /\ a.index = [h.index EXCEPT ![k] = n + 1]
      /\ a = [items |-> Append(h.items, k), index |-> [h.index EXCEPT ![k] = n + 1]]
    BY DEF Appended
<1>4. a.index \in [K -> Nat] /\ \A j \in K : a.index[j] = IF j = k THEN n + 1 ELSE h.index[j]
    BY <1>1, <1>3
<1>5. a \in Arrays(K) /\ Size(a) = n + 1
    BY <1>2, <1>3, <1>4 DEF Arrays, Size
<1>6. /\ \A j \in 1..n : h.items[j] # k /\ h.index[h.items[j]] = j
      /\ \A j \in K : h.index[j] # 0 => h.index[j] \in 1..n /\ h.items[h.index[j]] = j
    BY <1>1 DEF Coherent
<1> HIDE DEF n, a
<1>7. /\ \A j \in 1..(n + 1) : j \in 1..n \/ j = n + 1
      /\ \A j \in 1..n : a.items[j] = h.items[j]
      /\ a.items[n + 1] = k /\ n + 1 # 0 /\ DOMAIN a.index = K
    BY <1>1, <1>2, <1>3, <1>4
<1>8. Coherent(a)
  <2>1. \A j \in 1..(n + 1) : a.index[a.items[j]] = j
    BY <1>1, <1>4, <1>6, <1>7
  <2>2. ASSUME NEW j \in K, a.index[j] # 0
        PROVE  a.index[j] \in 1..(n + 1) /\ a.items[a.index[j]] = j
    <3>1. CASE j = k
      BY <1>1, <1>4, <1>7, <3>1
    <3>2. CASE j # k
      <4>1. a.index[j] = h.index[j] /\ h.index[j] \in 1..n /\ h.items[h.index[j]] = j
        BY <1>4, <1>6, <2>2, <3>2
      <4>2. QED
        BY <1>1, <1>7, <4>1
    <3>3. QED
      BY <3>1, <3>2
  <2>3. QED
    BY <1>5, <1>7, <2>1, <2>2 DEF Coherent
<1>9. KeysIn(a) = KeysIn(h) \cup {k}
  <2>1. \A j \in K : a.index[j] # 0 <=> j = k \/ h.index[j] # 0
    BY <1>4, <1>7
  <2>2. DOMAIN a.index = K /\ DOMAIN h.index = K
    BY <1>1, <1>4
  <2>3. QED
    BY <2>1, <2>2 DEF KeysIn
<1>10. n + 1 \in 1..Size(a)
  BY <1>1, <1>5
<1>11. QED
  BY <1>1, <1>5, <1>7, <1>8, <1>9, <1>10 DEF a, n

\* A new entry, appended, goes up, and the heap is in order with it.
LEMMA AppendedRight ==
    ASSUME NEW K, NEW before, IsOrder(K, before), NEW h, SoundHeap(h, K, before),
           NEW k \in K, h.index[k] = 0
    PROVE  LET g == SiftUp(Appended(h, k), Size(h) + 1, before)[1]
           IN  SoundHeap(g, K, before) /\ KeysIn(g) = KeysIn(h) \cup {k}
<1> DEFINE n == Size(h)
           a == Appended(h, k)
<1>1. h \in Arrays(K) /\ Coherent(h) /\ Ordered(h, before)
    BY DEF SoundHeap
<1>2. /\ a \in Arrays(K) /\ Coherent(a) /\ KeysIn(a) = KeysIn(h) \cup {k}
      /\ n \in Nat /\ Size(a) = n + 1 /\ n + 1 \in 1..Size(a)
      /\ \A j \in 1..n : a.items[j] = h.items[j]
    BY <1>1, AppendedIndexed
<1> HIDE DEF n, a
<1>3. \A j \in 2..(n + 1) : j \div 2 \in 1..n /\ j \div 2 # n + 1
  BY <1>2, Halves
<1>4. Astray(<<a, n + 1>>, before) /\ OverChildren(<<a, n + 1>>, before)
  <2>1. ASSUME NEW j \in 2..(n + 1), j # n + 1
        PROVE  <<a.items[j], a.items[j \div 2]>> \notin before
    <3>1. j \in 2..n /\ j \in 1..n /\ j \div 2 \in 1..n
      BY <1>2, <1>3, <2>1
    <3>2. QED
      BY <1>1, <1>2, <3>1 DEF Ordered, n
  <2>2. QED
    BY <1>2, <1>3, <2>1 DEF Astray, OverChildren
<1> DEFINE g == SiftUp(a, n + 1, before)[1]
<1>5. g \in Arrays(K) /\ Alike(g, a) /\ Ordered(g, before)
  BY <1>2, <1>4, RaisedRight
<1> HIDE DEF g
<1>6. SoundHeap(g, K, before) /\ KeysIn(g) = KeysIn(h) \cup {k}
  BY <1>2, <1>5 DEF Alike, SoundHeap
<1>7. QED
  BY <1>6 DEF g, a, n

\* The last entry takes the place of k, and is all that may be out of place.
LEMMA Vacated ==
    ASSUME NEW K, NEW before, IsOrder(K, before), NEW h, SoundHeap(h, K, before),
           NEW k \in K, h.index[k] # 0
    PROVE  LET g  == Vacate(h, k)
               at == h.index[k]
           IN  /\ g \in Arrays(K) /\ Coherent(g) /\ KeysIn(g) = KeysIn(h) \ {k}
               /\ Size(g) = Size(h) - 1 /\ Size(h) \in Nat /\ at \in 1..Size(h) /\ h.items[at] = k
               /\ IF at <= Size(g) THEN at \in 1..Size(g) /\ Astray(<<g, at>>, before)
                  ELSE Ordered(g, before)
<1> DEFINE n == Size(h)
           at == h.index[k]
           last == h.items[n]
           rest == SubSeq(h.items, 1, n - 1)
           g == Vacate(h, k)
           items == IF at = n THEN rest ELSE [rest EXCEPT ![at] = last]
           index == IF at = n THEN [h.index EXCEPT ![k] = 0]
                    ELSE [h.index EXCEPT ![k] = 0, ![last] = at]
<1>1. h \in Arrays(K) /\ Coherent(h) /\ Ordered(h, before)
    BY DEF SoundHeap
<1>2. /\ n \in Nat /\ h.items \in Seq(K) /\ n = Len(h.items) /\ h.index \in [K -> Nat]
      /\ \A j \in 1..n : h.items[j] \in K
    BY <1>1, ArraysRight
<1>3. /\ \A j \in 1..n : h.index[h.items[j]] = j
      /\ \A j \in K : h.index[j] # 0 => h.index[j] \in 1..n /\ h.items[h.index[j]] = j
    BY <1>1, <1>2 DEF Coherent
<1>4. at \in 1..n /\ h.items[at] = k /\ n \in 1..n /\ n - 1 \in Nat /\ last \in K
    BY <1>2, <1>3
<1>5. /\ rest \in Seq(K) /\ Len(rest) = n - 1 /\ \A j \in 1..(n - 1) : rest[j] = h.items[j]
    BY <1>2, <1>4
<1>6. items \in Seq(K) /\ Len(items) = n - 1
      /\ \A j \in 1..(n - 1) : items[j] = IF j = at THEN last ELSE h.items[j]
  <2>1. CASE at = n
    BY <1>4, <1>5, <2>1
  <2>2. CASE at # n
    <3> HIDE DEF rest, at, last, n
    <3>1. rest \in [1..(n - 1) -> K] /\ at \in 1..(n - 1)
      BY <1>4, <1>5, <2>2
    <3>2. /\ [rest EXCEPT ![at] = last] \in [1..(n - 1) -> K]
          /\ \A j \in 1..(n - 1) : [rest EXCEPT ![at] = last][j] = IF j = at THEN last ELSE h.items[j]
      BY <1>4, <1>5, <3>1
    <3> DEFINE filled == [rest EXCEPT ![at] = last]
               m == n - 1
    <3>3. m \in Nat /\ filled \in [1..m -> K]
      BY <1>4, <3>2
    <3> HIDE DEF filled, m
    <3>4. filled \in Seq(K) /\ Len(filled) = m
      BY <3>3
    <3>5. [rest EXCEPT ![at] = last] \in Seq(K) /\ Len([rest EXCEPT ![at] = last]) = n - 1
      BY <3>4 DEF filled, m
    <3>6. QED
      BY <2>2, <3>2, <3>5
  <2>3. QED
    BY <2>1, <2>2
<1>7. /\ index \in [K -> Nat]
      /\ \A j \in K : index[j] = IF j = last /\ at # n THEN at ELSE IF j = k THEN 0 ELSE h.index[j]
    BY <1>2, <1>4
<1>8. g = [items |-> items, index |-> index]
    BY DEF Vacate
<1>9. g \in Arrays(K) /\ g.items = items /\ g.index = index /\ Size(g) = n - 1
  <2> HIDE DEF items, index, g
  <2>1. QED
    BY <1>6, <1>7, <1>8 DEF Arrays, Size
<1> HIDE DEF g, items, index, n, at, last, rest
<1>10. last = h.items[n] /\ at = h.index[k]
    BY DEF last, at
<1>11. \A i, j \in 1..n : h.items[i] = h.items[j] => i = j
    BY <1>3
<1>12. Coherent(g)
  <2>1. ASSUME NEW j \in 1..(n - 1)
        PROVE  index[items[j]] = j
    <3>1. j \in 1..n /\ j # n
      BY <1>2
    <3>2. CASE j = at
      BY <1>4, <1>6, <1>7, <3>1, <3>2
    <3>3. CASE j # at
      <4>1. items[j] = h.items[j] /\ items[j] # k /\ items[j] # last /\ items[j] \in K
        BY <1>2, <1>4, <1>6, <1>10, <1>11, <3>1, <3>3
      <4>2. QED
        BY <1>3, <1>7, <3>1, <4>1
    <3>4. QED
      BY <3>2, <3>3
  <2>2. ASSUME NEW j \in K, index[j] # 0
        PROVE  index[j] \in 1..(n - 1) /\ items[index[j]] = j
    <3>1. CASE j = last /\ at # n
      <4>1. index[j] = at /\ at \in 1..(n - 1)
        BY <1>4, <1>7, <3>1
      <4>2. QED
        BY <1>6, <3>1, <4>1
    <3>2. CASE ~(j = last /\ at # n)
      <4>1. j # k /\ index[j] = h.index[j] /\ h.index[j] \in 1..n /\ h.items[h.index[j]] = j
        BY <1>3, <1>7, <2>2, <3>2
      <4>2. h.index[j] # at
        BY <1>4, <4>1
      <4>3. h.index[j] # n
        BY <1>4, <1>10, <3>2, <4>1, <4>2
      <4>4. h.index[j] \in 1..(n - 1)
        BY <1>4, <4>1, <4>3
      <4>5. QED
        BY <1>6, <4>1, <4>2, <4>4
    <3>3. QED
      BY <3>1, <3>2
  <2>3. QED
    BY <1>7, <1>9, <2>1, <2>2 DEF Coherent
<1>13. KeysIn(g) = KeysIn(h) \ {k}
  <2>1. ASSUME NEW j \in K
        PROVE  index[j] # 0 <=> h.index[j] # 0 /\ j # k
    <3>1. CASE j = last /\ at # n
      <4>1. index[j] = at /\ h.index[j] = n
        BY <1>3, <1>4, <1>7, <1>10, <3>1
      <4>2. QED
        BY <1>4, <1>10, <3>1, <4>1
    <3>2. CASE ~(j = last /\ at # n)
      BY <1>7, <3>2
    <3>3. QED
      BY <3>1, <3>2
  <2>2. DOMAIN g.index = K /\ DOMAIN h.index = K
    BY <1>2, <1>7, <1>9
  <2>3. QED
    BY <1>9, <2>1, <2>2 DEF KeysIn
<1>14. \A j \in 2..(n - 1) : j \in 2..n /\ j \in 1..(n - 1) /\ j \div 2 \in 1..(n - 1) /\ j \div 2 < j
    BY <1>4, Halves
<1>15. \A j \in 2..n : <<h.items[j], h.items[j \div 2]>> \notin before
    BY <1>1 DEF Ordered, n
<1>16. ASSUME NEW j \in 2..(n - 1), j # at, j \div 2 # at
       PROVE  <<items[j], items[j \div 2]>> \notin before
    BY <1>6, <1>14, <1>15, <1>16
<1>17. CASE at <= n - 1
  <2>1. ASSUME NEW j \in 2..(n - 1), j \div 2 = at, at > 1
        PROVE  <<items[j], items[at \div 2]>> \notin before
    <3>1. at \in 2..(n - 1) /\ at \in 2..n /\ j # at /\ at \div 2 # at /\ at \div 2 \in 1..(n - 1)
      BY <1>4, <1>14, <1>17, <2>1
    <3>2. items[j] = h.items[j] /\ items[at \div 2] = h.items[at \div 2]
      BY <1>6, <1>14, <3>1
    <3>3. <<h.items[j], h.items[at]>> \notin before /\ <<h.items[at], h.items[at \div 2]>> \notin before
      BY <1>14, <1>15, <2>1, <3>1
    <3>4. h.items[j] \in K /\ h.items[at] \in K /\ h.items[at \div 2] \in K
      <4>1. j \in 1..n /\ at \in 1..n /\ at \div 2 \in 1..n
        BY <1>4, <3>1
      <4>2. QED
        BY <1>2, <4>1
    <3>5. QED
      BY <3>2, <3>3, <3>4 DEF IsOrder
  <2>2. Astray(<<g, at>>, before) /\ at \in 1..(n - 1)
    BY <1>4, <1>9, <1>16, <1>17, <2>1 DEF Astray
  <2>3. QED
    BY <1>2, <1>4, <1>9, <1>12, <1>13, <1>17, <2>2 DEF g, n, at
<1>18. CASE ~(at <= n - 1)
  <2>1. at = n
    BY <1>4, <1>18
  <2>2. \A j \in 2..(n - 1) : j # at /\ j \div 2 # at
    BY <1>4, <1>14, <2>1
  <2>3. Ordered(g, before)
    BY <1>9, <1>16, <2>2 DEF Ordered
  <2>4. QED
    BY <1>2, <1>4, <1>9, <1>12, <1>13, <1>18, <2>3 DEF g, n, at
<1>19. QED
    BY <1>17, <1>18

\* An entry that took another's place goes up if it has to, or else down.
LEMMA Replaced ==
    ASSUME NEW K, NEW before, IsOrder(K, before), NEW h \in Arrays(K), NEW at \in 1..Size(h),
           Astray(<<h, at>>, before)
    PROVE  LET g == IF Rises(<<h, at>>, before) THEN SiftUp(h, at, before)[1]
                    ELSE SiftDown(h, at, before)[1]
           IN  g \in Arrays(K) /\ Alike(g, h) /\ Ordered(g, before)
<1>1. CASE Rises(<<h, at>>, before)
  <2> DEFINE up == SiftUp(h, at, before)
             g == up[1]
             i == up[2]
  <2>1. up \in Sifts(K) /\ Alike(g, h) /\ Astray(up, before) /\ ~Rises(up, before) /\ OverChildren(up, before)
    BY <1>1, SiftedAlike, SiftedUp
  <2>2. g \in Arrays(K) /\ i \in 1..Size(g) /\ Size(g) \in Nat
    <3> HIDE DEF up
    <3>1. QED
      BY <2>1, SiftsRight, ArraysRight
  <2>3. ASSUME NEW n \in 2..Size(g)
        PROVE  <<g.items[n], g.items[n \div 2]>> \notin before
    <3>1. CASE n = i
      BY <2>1, <3>1 DEF Rises
    <3>2. CASE n # i /\ n \div 2 # i
      BY <2>1, <3>2 DEF Astray
    <3>3. CASE n # i /\ n \div 2 = i
      BY <2>1, <3>3 DEF OverChildren
    <3>4. QED
      BY <3>1, <3>2, <3>3
  <2>4. QED
    BY <1>1, <2>1, <2>2, <2>3 DEF Ordered
<1>2. CASE ~Rises(<<h, at>>, before)
  <2>1. SinksFrom(<<h, at>>, before, 1)
    <3>1. Size(h) \in Nat /\ (at \div 2 >= 1 => at > 1)
      BY ArraysRight
    <3>2. at > 1 => <<h.items[at], h.items[at \div 2]>> \notin before
      BY <1>2 DEF Rises
    <3>3. QED
      BY <3>1, <3>2 DEF SinksFrom, Astray
  <2> DEFINE down == SiftDown(h, at, before)
  <2>2. OrderedFrom(down[1], before, 1) /\ down \in Sifts(K) /\ Alike(down[1], h)
    BY <2>1, SiftedDown, SiftedAlike
  <2> HIDE DEF down
  <2>3. down[1] \in Arrays(K) /\ Size(down[1]) \in Nat
    BY <2>2, SiftsRight, ArraysRight
  <2>4. Ordered(down[1], before)
    BY <2>2, <2>3, Halves DEF OrderedFrom, Ordered
  <2>5. QED
    BY <1>2, <2>2, <2>3, <2>4 DEF down
<1>3. QED
    BY <1>1, <1>2

\* The heap without k: the entry that took its place rises if it can, and sinks if not.
TakenOut(h, k, before) ==
    LET rest == Vacate(h, k)
        at   == h.index[k]
    IN  IF at > Size(rest) THEN rest
        ELSE IF Rises(<<rest, at>>, before) THEN SiftUp(rest, at, before)[1]
        ELSE SiftDown(rest, at, before)[1]

\* The others are in order then.
LEMMA TakenRight ==
    ASSUME NEW K, NEW before, IsOrder(K, before), NEW h, SoundHeap(h, K, before),
           NEW k \in K, h.index[k] # 0
    PROVE  /\ SoundHeap(TakenOut(h, k, before), K, before)
           /\ KeysIn(TakenOut(h, k, before)) = KeysIn(h) \ {k}
<1> DEFINE rest == Vacate(h, k)
           at == h.index[k]
           g == IF Rises(<<rest, at>>, before) THEN SiftUp(rest, at, before)[1]
                ELSE SiftDown(rest, at, before)[1]
<1>1. TakenOut(h, k, before) = IF at > Size(rest) THEN rest ELSE g
    BY DEF TakenOut
<1>2. /\ rest \in Arrays(K) /\ Coherent(rest) /\ KeysIn(rest) = KeysIn(h) \ {k}
      /\ Size(rest) = Size(h) - 1 /\ Size(h) \in Nat /\ at \in 1..Size(h)
      /\ IF at <= Size(rest) THEN at \in 1..Size(rest) /\ Astray(<<rest, at>>, before)
         ELSE Ordered(rest, before)
    BY Vacated
<1>3. at > Size(rest) <=> ~(at <= Size(rest))
    BY <1>2
<1> HIDE DEF rest, at
<1>4. CASE at <= Size(rest)
  <2>1. g \in Arrays(K) /\ Alike(g, rest) /\ Ordered(g, before)
    BY <1>2, <1>4, Replaced
  <2> HIDE DEF g
  <2>2. QED
    BY <1>1, <1>2, <1>3, <1>4, <2>1 DEF SoundHeap, Alike
<1>5. CASE ~(at <= Size(rest))
    BY <1>1, <1>2, <1>3, <1>5 DEF SoundHeap
<1>6. QED
    BY <1>4, <1>5

\* A heap stays in order when the order changes for an entry that it does not hold.
LEMMA StillSound ==
    ASSUME NEW K, NEW before, NEW after, NEW h, SoundHeap(h, K, before),
           NEW k \in K, h.index[k] = 0, AgreeBut(K, k, before, after)
    PROVE  SoundHeap(h, K, after)
<1>1. h \in Arrays(K) /\ Coherent(h) /\ Ordered(h, before)
    BY DEF SoundHeap
<1>2. Size(h) \in Nat /\ \A j \in 1..Size(h) : h.items[j] \in K /\ h.items[j] # k
    BY <1>1, ArraysRight DEF Coherent
<1>3. \A n \in 2..Size(h) : n \in 1..Size(h) /\ n \div 2 \in 1..Size(h)
    BY <1>2, Halves
<1>4. Ordered(h, after)
    BY <1>1, <1>2, <1>3 DEF Ordered, AgreeBut
<1>5. QED
    BY <1>1, <1>4 DEF SoundHeap

\* push puts a new entry in, or an entry whose rank may have changed in its place again.
LEMMA PushedRight ==
    ASSUME NEW K, NEW before, NEW after, IsOrder(K, before), IsOrder(K, after),
           NEW h, SoundHeap(h, K, before), NEW k \in K, AgreeBut(K, k, before, after)
    PROVE  /\ SoundHeap(Push(h, k, after), K, after)
           /\ KeysIn(Push(h, k, after)) = KeysIn(h) \cup {k}
<1>1. h \in Arrays(K) /\ Coherent(h) /\ Ordered(h, before) /\ DOMAIN h.index = K
    BY ArraysRight DEF SoundHeap
<1>2. CASE h.index[k] # 0
  <2> DEFINE at == h.index[k]
  <2>1. at \in 1..Size(h) /\ Astray(<<h, at>>, after)
    BY <1>1, <1>2, OneAstray
  <2>2. Push(h, k, after) = Reseat(h, at, after)
    BY <1>2 DEF Push, HeapContains
  <2>3. KeysIn(h) = KeysIn(h) \cup {k}
    BY <1>1, <1>2 DEF KeysIn
  <2> HIDE DEF at
  <2> DEFINE g == Reseat(h, at, after)
  <2>4. g \in Arrays(K) /\ Alike(g, h) /\ Ordered(g, after)
    BY <1>1, <2>1, Reseated
  <2> HIDE DEF g
  <2>5. QED
    BY <1>1, <2>2, <2>3, <2>4 DEF SoundHeap, Alike, g
<1>3. CASE h.index[k] = 0
  <2>1. SoundHeap(h, K, after)
    BY <1>3, StillSound
  <2>2. Push(h, k, after) = SiftUp(Appended(h, k), Size(h) + 1, after)[1]
    BY <1>3 DEF Push, HeapContains, Appended
  <2>4. QED
    BY <1>3, <2>1, <2>2, AppendedRight
<1>4. QED
    BY <1>2, <1>3

\* No entry of a heap sorts before its root: of the positions that would, the least one
\* has a parent that does not.
LEMMA RootFirst ==
    ASSUME NEW K, NEW before, IsOrder(K, before), NEW h, SoundHeap(h, K, before), Size(h) # 0
    PROVE  /\ h.items[1] \in KeysIn(h) /\ h.index[h.items[1]] = 1
           /\ \A k \in KeysIn(h) : <<k, h.items[1]>> \notin before
<1> DEFINE t == h.items
           n == Size(h)
           Ahead == {j \in 1..n : <<t[j], t[1]>> \in before}
<1>1. /\ n \in Nat /\ n # 0 /\ h.index \in [K -> Nat] /\ DOMAIN h.index = K
      /\ \A j \in 1..n : t[j] \in K /\ h.index[t[j]] = j
      /\ \A k \in K : h.index[k] # 0 => h.index[k] \in 1..n /\ t[h.index[k]] = k
      /\ \A j \in 2..n : <<t[j], t[j \div 2]>> \notin before
    BY ArraysRight DEF SoundHeap, Coherent, Ordered
<1> HIDE DEF t, n
<1>2. ASSUME NEW some \in Ahead
      PROVE  FALSE
  <2>1. Ahead \in SUBSET Nat
    BY <1>1
  <2>2. PICK j \in Ahead : \A m \in Ahead : j <= m
    <3> HIDE DEF Ahead
    <3>1. QED
      BY <1>2, <2>1, LeastNumber
  <2>3. j \in 1..n /\ <<t[j], t[1]>> \in before
    OBVIOUS
  <2>4. j # 1
    BY <1>1, <2>3 DEF IsOrder
  <2>5. j \in 2..n /\ j \div 2 \in 1..n /\ j \div 2 < j
    BY <1>1, <2>3, <2>4, Halves
  <2>6. j \div 2 \notin Ahead
    BY <1>1, <2>2, <2>5
  <2>7. <<t[j \div 2], t[1]>> \notin before /\ <<t[j], t[j \div 2]>> \notin before
    BY <1>1, <2>5, <2>6
  <2>8. t[1] \in K /\ t[j] \in K /\ t[j \div 2] \in K
    BY <1>1, <2>3, <2>5
  <2>9. QED
    BY <2>3, <2>7, <2>8 DEF IsOrder
<1>3. 1 \in 1..n
    BY <1>1
<1>4. ASSUME NEW k \in KeysIn(h)
      PROVE  <<k, t[1]>> \notin before
    BY <1>1, <1>2 DEF KeysIn
<1>5. t[1] \in KeysIn(h) /\ h.index[t[1]] = 1
    BY <1>1, <1>3 DEF KeysIn
<1>6. QED
    BY <1>4, <1>5 DEF t

\* pop takes the root, which no entry sorts before, and leaves the others in order.
LEMMA PoppedRight ==
    ASSUME NEW K, NEW before, IsOrder(K, before), NEW h, SoundHeap(h, K, before), Size(h) # 0
    PROVE  /\ SoundHeap(Pop(h, before), K, before)
           /\ KeysIn(Pop(h, before)) = KeysIn(h) \ {h.items[1]}
<1> DEFINE k == h.items[1]
           rest == Vacate(h, k)
           g == SiftDown(rest, 1, before)[1]
<1>1. k \in K /\ h.index[k] = 1
  <2>1. h \in Arrays(K)
    BY DEF SoundHeap
  <2>2. QED
    BY <2>1, RootFirst, ArraysRight DEF KeysIn
<1>2. Pop(h, before) = IF Size(rest) = 0 THEN rest ELSE g
    BY DEF Pop
<1> HIDE DEF k
<1>3. /\ rest \in Arrays(K) /\ Coherent(rest) /\ KeysIn(rest) = KeysIn(h) \ {k}
      /\ IF 1 <= Size(rest) THEN Astray(<<rest, 1>>, before) ELSE Ordered(rest, before)
    BY <1>1, Vacated
<1> HIDE DEF rest
<1>4. Size(rest) \in Nat
    BY <1>3, ArraysRight
<1>5. CASE Size(rest) = 0
    BY <1>2, <1>3, <1>5 DEF SoundHeap, k
<1>6. CASE Size(rest) # 0
  <2>1. g \in Arrays(K) /\ Alike(g, rest) /\ Ordered(g, before)
    BY <1>3, <1>4, <1>6, RootLowered
  <2> HIDE DEF g
  <2>2. QED
    BY <1>2, <1>3, <1>6, <2>1 DEF SoundHeap, Alike, k
<1>7. QED
    BY <1>5, <1>6

\* Without k, an order that differs for k only makes no difference.
LEMMA VacatedAgreed ==
    ASSUME NEW K, NEW before, NEW after, IsOrder(K, before), NEW h, SoundHeap(h, K, before),
           NEW k \in K, h.index[k] # 0, AgreeBut(K, k, before, after)
    PROVE  LET g  == Vacate(h, k)
               at == h.index[k]
           IN  /\ g \in Arrays(K) /\ Coherent(g) /\ KeysIn(g) = KeysIn(h) \ {k}
               /\ IF at <= Size(g) THEN at \in 1..Size(g) /\ Astray(<<g, at>>, after)
                  ELSE Ordered(g, after)
<1> DEFINE g  == Vacate(h, k)
           at == h.index[k]
           n == Size(g)
<1>1. /\ g \in Arrays(K) /\ Coherent(g) /\ KeysIn(g) = KeysIn(h) \ {k}
      /\ Size(g) = Size(h) - 1 /\ Size(h) \in Nat /\ at \in 1..Size(h) /\ h.items[at] = k
      /\ IF at <= Size(g) THEN at \in 1..Size(g) /\ Astray(<<g, at>>, before)
         ELSE Ordered(g, before)
    BY Vacated
<1> HIDE DEF g, at
<1>2. /\ n \in Nat /\ DOMAIN g.index = K
      /\ \A j \in 1..n : g.items[j] \in K /\ g.index[g.items[j]] = j
    BY <1>1, ArraysRight DEF Coherent
<1>3. \A j \in 1..n : g.items[j] \in K \ {k}
    BY <1>1, <1>2 DEF KeysIn
<1>4. \A j \in 2..n : j \in 1..n /\ j \div 2 \in 1..n
    BY <1>2, Halves
<1> HIDE DEF n
<1>5. CASE at <= n
  <2>1. at \in 1..n /\ Astray(<<g, at>>, before)
    BY <1>1, <1>5 DEF n
  <2>2. ASSUME NEW j \in 2..n
        PROVE  /\ j # at /\ j \div 2 # at => <<g.items[j], g.items[j \div 2]>> \notin after
               /\ j \div 2 = at /\ at > 1 => <<g.items[j], g.items[at \div 2]>> \notin after
    <3>1. /\ j # at /\ j \div 2 # at => <<g.items[j], g.items[j \div 2]>> \notin before
          /\ j \div 2 = at /\ at > 1 => <<g.items[j], g.items[at \div 2]>> \notin before
      BY <2>1 DEF Astray, n
    <3>2. at > 1 => at \div 2 \in 1..n
      BY <1>2, <1>4, <2>1
    <3>3. QED
      BY <1>3, <1>4, <3>1, <3>2 DEF AgreeBut
  <2>3. Astray(<<g, at>>, after)
    BY <2>2 DEF Astray, n
  <2>4. QED
    BY <1>1, <1>5, <2>1, <2>3 DEF g, at, n
<1>6. CASE ~(at <= n)
  <2>1. Ordered(g, before)
    BY <1>1, <1>6 DEF n
  <2>2. Ordered(g, after)
    BY <1>3, <1>4, <2>1 DEF Ordered, AgreeBut, n
  <2>3. QED
    BY <1>1, <1>6, <2>2 DEF g, at, n
<1>7. QED
    BY <1>5, <1>6

\* remove takes the entry out and leaves the others in order; the entry's rank may have
\* changed before.
LEMMA RemovedRight ==
    ASSUME NEW K, NEW before, NEW after, IsOrder(K, before), IsOrder(K, after),
           NEW h, SoundHeap(h, K, before), NEW k \in K, AgreeBut(K, k, before, after)
    PROVE  /\ SoundHeap(RemoveEntry(h, k, after), K, after)
           /\ KeysIn(RemoveEntry(h, k, after)) = KeysIn(h) \ {k}
<1>1. CASE h.index[k] = 0
  <2>1. RemoveEntry(h, k, after) = h
    BY <1>1 DEF RemoveEntry, HeapContains
  <2>2. k \notin KeysIn(h)
    BY <1>1 DEF KeysIn
  <2>3. QED
    BY <1>1, <2>1, <2>2, StillSound
<1>2. CASE h.index[k] # 0
  <2> DEFINE rest == Vacate(h, k)
             at == h.index[k]
             g == Reseat(rest, at, after)
  <2>1. RemoveEntry(h, k, after) = IF at <= Size(rest) THEN g ELSE rest
    BY <1>2 DEF RemoveEntry, HeapContains
  <2>2. /\ rest \in Arrays(K) /\ Coherent(rest) /\ KeysIn(rest) = KeysIn(h) \ {k}
        /\ IF at <= Size(rest) THEN at \in 1..Size(rest) /\ Astray(<<rest, at>>, after)
           ELSE Ordered(rest, after)
    BY <1>2, VacatedAgreed
  <2> HIDE DEF rest, at
  <2>3. CASE at <= Size(rest)
    <3>1. g \in Arrays(K) /\ Alike(g, rest) /\ Ordered(g, after)
      BY <2>2, <2>3, Reseated
    <3> HIDE DEF g
    <3>2. QED
      BY <2>1, <2>2, <2>3, <3>1 DEF SoundHeap, Alike
  <2>4. CASE ~(at <= Size(rest))
    BY <2>1, <2>2, <2>4 DEF SoundHeap
  <2>5. QED
    BY <2>3, <2>4
<1>3. QED
    BY <1>1, <1>2

-----------------------------------------------------------------------------
(* heapify *)

\* The distinct entries, in no order, are where the index says.
LEMMA FlatRight ==
    ASSUME NEW K, NEW h \in Arrays(K), NEW entries \in Seq(K),
           \A i, j \in DOMAIN entries : entries[i] = entries[j] => i = j
    PROVE  /\ Flat(h, entries) \in Arrays(K) /\ Coherent(Flat(h, entries))
           /\ KeysIn(Flat(h, entries)) = {entries[i] : i \in DOMAIN entries}
<1> DEFINE g == Flat(h, entries)
           n == Len(entries)
           at == [k \in K |-> IF \E i \in DOMAIN entries : entries[i] = k
                              THEN CHOOSE i \in DOMAIN entries : entries[i] = k ELSE 0]
<1>1. n \in Nat /\ DOMAIN entries = 1..n /\ \A i \in 1..n : entries[i] \in K
    OBVIOUS
<1>2. g = [items |-> entries, index |-> at]
    BY ArraysRight DEF Flat
<1>3. ASSUME NEW i \in 1..n
      PROVE  at[entries[i]] = i
  <2>1. entries[i] \in K /\ \E j \in DOMAIN entries : entries[j] = entries[i]
    BY <1>1
  <2>2. (CHOOSE j \in DOMAIN entries : entries[j] = entries[i]) = i
    BY <1>1
  <2>3. QED
    BY <2>1, <2>2
<1>4. ASSUME NEW k \in K, ~ \E i \in 1..n : entries[i] = k
      PROVE  at[k] = 0
    BY <1>1, <1>4
<1>5. DOMAIN at = K
    OBVIOUS
<1>6. at = [k \in K |-> at[k]]
    OBVIOUS
<1> HIDE DEF g, n, at
<1>7. \A k \in K : at[k] \in Nat /\ (at[k] # 0 => at[k] \in 1..n /\ entries[at[k]] = k)
    BY <1>1, <1>3, <1>4
<1>8. at \in [K -> Nat]
    BY <1>6, <1>7
<1>9. g \in Arrays(K) /\ g.items = entries /\ g.index = at /\ Size(g) = n
    BY <1>2, <1>8 DEF Arrays, Size, n
<1>10. Coherent(g)
    BY <1>3, <1>5, <1>7, <1>9 DEF Coherent
<1>11. KeysIn(g) = {entries[i] : i \in DOMAIN entries}
  <2>1. \A k \in K : at[k] # 0 => at[k] \in DOMAIN entries /\ entries[at[k]] = k
    BY <1>1, <1>7
  <2>2. \A i \in DOMAIN entries : entries[i] \in K /\ at[entries[i]] = i /\ i # 0
    BY <1>1, <1>3
  <2>3. QED
    BY <1>5, <1>9, <2>1, <2>2 DEF KeysIn
<1>12. QED
    BY <1>9, <1>10, <1>11 DEF g

\* An array and the position in it that Floyd's loop is at, 0 at its end.
Floyds(K) == {s \in Arrays(K) \X Nat : s[2] <= Size(s[1])}

\* Floyd's loop puts any array in order: from the entry it is past on, all are.
LEMMA SunkRight ==
    ASSUME NEW K, NEW before, IsOrder(K, before), NEW h \in Arrays(K)
    PROVE  Sunk(h, before) \in Arrays(K) /\ Alike(Sunk(h, before), h) /\ Ordered(Sunk(h, before), before)
<1> DEFINE S == Floyds(K)
           After(s) == <<SiftDown(s[1], s[2], before)[1], s[2] - 1>>
           Solves(f) == f = [s \in S |-> IF s[2] = 0 THEN s ELSE f[After(s)]]
           stop == {s \in S : s[2] = 0}
           next == [s \in S |-> IF s[2] = 0 THEN s ELSE After(s)]
           count == [s \in S |-> s[2]]
           I == {s \in S : Alike(s[1], h) /\ OrderedFrom(s[1], before, s[2] + 1)}
           start == <<h, Size(h) \div 2>>
<1>1. ASSUME NEW s \in S
      PROVE  /\ s[1] \in Arrays(K) /\ s[2] \in Nat /\ s[2] <= Size(s[1]) /\ Size(s[1]) \in Nat
             /\ s[2] # 0 => s[2] \in 1..Size(s[1])
  <2>1. s[1] \in Arrays(K) /\ s[2] \in Nat /\ s[2] <= Size(s[1])
    BY DEF Floyds
  <2>2. Size(s[1]) \in Nat
    BY <2>1, ArraysRight
  <2>3. QED
    BY <2>1, <2>2
<1>2. ASSUME NEW s \in S, s[2] # 0
      PROVE  /\ After(s) \in S /\ After(s)[2] < s[2]
             /\ s \in I => After(s) \in I
  <2> DEFINE g == s[1]
             i == s[2]
             down == SiftDown(g, i, before)
             d == down[1]
  <2>1. g \in Arrays(K) /\ i \in 1..Size(g) /\ Size(g) \in Nat
    BY <1>1, <1>2
  <2>2. s \in I => Alike(g, h) /\ OrderedFrom(g, before, i + 1)
    OBVIOUS
  <2> HIDE DEF g, i
  <2>3. down \in Sifts(K) /\ Alike(d, g)
    BY <2>1, SiftedAlike
  <2> HIDE DEF down
  <2>4. d \in Arrays(K) /\ Size(d) = Size(g)
    BY <2>3, SiftsRight DEF Alike
  <2>5. ASSUME s \in I
        PROVE  Alike(d, h) /\ OrderedFrom(d, before, i)
    <3>1. SinksFrom(<<g, i>>, before, i)
      <4>1. ~(i \div 2 >= i)
        BY <2>1
      <4>2. \A n \in 2..Size(g) : n \div 2 >= i /\ n \div 2 # i => n \div 2 >= i + 1
        BY <2>1
      <4>3. QED
        BY <2>2, <2>5, <4>1, <4>2 DEF SinksFrom, OrderedFrom
    <3>2. i \in Nat /\ i >= 1
      BY <2>1
    <3>3. OrderedFrom(d, before, i)
      BY <2>1, <3>1, <3>2, SiftedDown DEF down
    <3>4. QED
      BY <2>2, <2>3, <2>5, <3>3 DEF Alike
  <2> HIDE DEF d
  <2> DEFINE t == <<d, i - 1>>
  <2>6. t \in Arrays(K) \X Nat /\ t[1] = d /\ t[2] = i - 1 /\ t[2] <= Size(t[1]) /\ t[2] < i /\ t[2] + 1 = i
    BY <2>1, <2>4
  <2>7. After(s) = t
    BY DEF d, down, g, i
  <2> HIDE DEF t
  <2>8. t \in S /\ (s \in I => t \in I)
    BY <2>5, <2>6 DEF Floyds
  <2> HIDE DEF After
  <2>9. QED
    BY <2>6, <2>7, <2>8 DEF i
<1>3. next \in [S -> S]
  <2> HIDE DEF S, After
  <2>1. QED
    BY <1>2
<1>4. \E f : f = [s \in S |-> IF s \in stop THEN s ELSE f[next[s]]]
  <2> HIDE DEF stop, next
  <2>1. QED
    BY <1>3, LoopExists
<1>5. ASSUME NEW f
      PROVE  Solves(f) <=> f = [s \in S |-> IF s \in stop THEN s ELSE f[next[s]]]
  <2> HIDE DEF S, After
  <2>1. \A s \in S : (IF s[2] = 0 THEN s ELSE f[After(s)]) = IF s \in stop THEN s ELSE f[next[s]]
    OBVIOUS
  <2> HIDE DEF stop, next
  <2>2. [s \in S |-> IF s[2] = 0 THEN s ELSE f[After(s)]]
           = [s \in S |-> IF s \in stop THEN s ELSE f[next[s]]]
    BY <2>1
  <2>3. QED
    BY <2>2
<1>6. Sunk(h, before) = (CHOOSE f : Solves(f))[start][1]
  <2>1. DOMAIN h.index = K
    BY ArraysRight
  <2>2. QED
    BY <2>1 DEF Sunk, Floyds
<1> HIDE DEF Solves
<1>7. PICK f : f = [s \in S |-> IF s \in stop THEN s ELSE f[next[s]]] /\ Sunk(h, before) = f[start][1]
    BY <1>4, <1>5, <1>6
<1>8. count \in [S -> Nat]
    BY <1>1
<1>9. \A s \in I : s \notin stop => next[s] \in I /\ count[next[s]] < count[s]
  <2> SUFFICES ASSUME NEW s \in I, s \notin stop
               PROVE  next[s] \in I /\ count[next[s]] < count[s]
    OBVIOUS
  <2>1. s \in S /\ s[2] # 0
    OBVIOUS
  <2> HIDE DEF After
  <2>2. next[s] = After(s) /\ After(s) \in S /\ After(s) \in I /\ After(s)[2] < s[2]
    BY <1>2, <2>1
  <2>3. QED
    BY <2>1, <2>2
<1>10. start \in I
  <2>1. Size(h) \in Nat
    BY ArraysRight
  <2> DEFINE i == Size(h) \div 2
  <2>2. i \in Nat /\ i <= Size(h) /\ \A n \in 2..Size(h) : ~(n \div 2 >= i + 1)
    BY <2>1
  <2> HIDE DEF i
  <2>3. OrderedFrom(h, before, i + 1)
    BY <2>2 DEF OrderedFrom
  <2> DEFINE t == <<h, i>>
  <2>4. t \in Arrays(K) \X Nat /\ t[1] = h /\ t[2] = i
    BY <2>2
  <2> HIDE DEF t
  <2>5. t \in S /\ Alike(t[1], h)
    BY <2>2, <2>4 DEF Alike, Floyds
  <2>6. t \in I
    BY <2>3, <2>4, <2>5
  <2>7. start = t
    BY DEF t, i
  <2>8. QED
    BY <2>6, <2>7
<1>11. f[start] \in I /\ f[start] \in stop
  <2>1. I \in SUBSET S
    OBVIOUS
  <2>2. f = [s \in S |-> IF s \in stop THEN s ELSE f[next[s]]]
    BY <1>7
  <2> HIDE DEF stop, next, count, S, start, I
  <2>3. QED
    BY <1>8, <1>9, <1>10, <2>1, <2>2, LoopEnds
<1> DEFINE end == f[start]
<1>12. end[1] \in Arrays(K) /\ Alike(end[1], h) /\ OrderedFrom(end[1], before, 1)
  <2>1. end \in I /\ end[2] = 0
    BY <1>11
  <2> HIDE DEF end
  <2>2. QED
    BY <1>1, <2>1
<1> HIDE DEF end
<1>13. Size(end[1]) \in Nat
    BY <1>12, ArraysRight
<1>14. Ordered(end[1], before)
    BY <1>12, <1>13, Halves DEF OrderedFrom, Ordered
<1>15. Sunk(h, before) = end[1]
    BY <1>7 DEF end
<1>16. QED
    BY <1>12, <1>14, <1>15

\* heapify makes a heap of the distinct entries.
LEMMA HeapifiedRight ==
    ASSUME NEW K, NEW before, IsOrder(K, before), NEW h \in Arrays(K), NEW entries \in Seq(K),
           \A i, j \in DOMAIN entries : entries[i] = entries[j] => i = j
    PROVE  /\ SoundHeap(Heapify(h, entries, before), K, before)
           /\ KeysIn(Heapify(h, entries, before)) = {entries[i] : i \in DOMAIN entries}
<1> DEFINE flat == Flat(h, entries)
<1>1. /\ flat \in Arrays(K) /\ Coherent(flat)
      /\ KeysIn(flat) = {entries[i] : i \in DOMAIN entries}
    BY FlatRight
<1> HIDE DEF flat
<1> DEFINE g == Sunk(flat, before)
<1>2. g \in Arrays(K) /\ Alike(g, flat) /\ Ordered(g, before)
    BY <1>1, SunkRight
<1> HIDE DEF g
<1>3. Heapify(h, entries, before) = g
    BY DEF Heapify, flat, g
<1>4. QED
    BY <1>1, <1>2, <1>3 DEF SoundHeap, Alike

-----------------------------------------------------------------------------
(* What holds in any order *)

\* A sift keeps the index right and the keys, whatever the order.
LEMMA SiftedIndexed ==
    ASSUME NEW K, NEW before, NEW h \in Heaps(K), NEW at \in 1..Size(h)
    PROVE  /\ SiftUp(h, at, before)[1] \in Heaps(K) /\ KeysIn(SiftUp(h, at, before)[1]) = KeysIn(h)
           /\ SiftDown(h, at, before)[1] \in Heaps(K) /\ KeysIn(SiftDown(h, at, before)[1]) = KeysIn(h)
           /\ Size(SiftDown(h, at, before)[1]) = Size(h)
           /\ Reseat(h, at, before) \in Heaps(K) /\ KeysIn(Reseat(h, at, before)) = KeysIn(h)
<1> DEFINE up == SiftUp(h, at, before)
           down == SiftDown(h, at, before)
           again == SiftDown(up[1], up[2], before)
<1>1. /\ up \in Sifts(K) /\ Alike(up[1], h) /\ down \in Sifts(K) /\ Alike(down[1], h)
    BY SiftedAlike DEF Heaps
<1>2. Reseat(h, at, before) = again[1]
    BY DEF Reseat
<1> HIDE DEF up, down
<1>3. up[1] \in Arrays(K) /\ up[2] \in 1..Size(up[1]) /\ down[1] \in Arrays(K)
    BY <1>1, SiftsRight
<1>4. again \in Sifts(K) /\ Alike(again[1], up[1])
    BY <1>3, SiftedAlike
<1> HIDE DEF again
<1>5. again[1] \in Arrays(K)
    BY <1>4, SiftsRight
<1>6. QED
    BY <1>1, <1>2, <1>3, <1>4, <1>5 DEF Heaps, Alike, up, down

\* Vacating a place keeps the index right.
LEMMA VacatedIndexed ==
    ASSUME NEW K, NEW h \in Heaps(K), NEW k \in K, h.index[k] # 0
    PROVE  LET g  == Vacate(h, k)
               at == h.index[k]
           IN  /\ g \in Heaps(K) /\ KeysIn(g) = KeysIn(h) \ {k} /\ Size(g) = Size(h) - 1
               /\ Size(h) \in Nat /\ at \in 1..Size(h) /\ h.items[at] = k
               /\ at <= Size(g) => at \in 1..Size(g)
<1>1. PICK before : IsOrder(K, before) /\ SoundHeap(h, K, before)
  <2>1. IsOrder(K, {}) /\ SoundHeap(h, K, {})
    BY DEF IsOrder, SoundHeap, Heaps, Ordered
  <2>2. QED
    BY <2>1
<1> DEFINE g == Vacate(h, k)
           at == h.index[k]
<1>2. /\ g \in Arrays(K) /\ Coherent(g) /\ KeysIn(g) = KeysIn(h) \ {k}
      /\ Size(g) = Size(h) - 1 /\ Size(h) \in Nat /\ at \in 1..Size(h) /\ h.items[at] = k
      /\ IF at <= Size(g) THEN at \in 1..Size(g) /\ Astray(<<g, at>>, before)
         ELSE Ordered(g, before)
    BY <1>1, Vacated
<1> HIDE DEF g, at
<1>3. at <= Size(g) => at \in 1..Size(g)
    BY <1>2
<1>4. QED
    BY <1>2, <1>3 DEF Heaps, g, at

\* push keeps the index right and has the key in, whatever the order.
LEMMA PushedIndexed ==
    ASSUME NEW K, NEW before, NEW h \in Heaps(K), NEW k \in K
    PROVE  /\ Push(h, k, before) \in Heaps(K)
           /\ KeysIn(Push(h, k, before)) = KeysIn(h) \cup {k}
<1>1. h \in Arrays(K) /\ Coherent(h) /\ DOMAIN h.index = K
    BY ArraysRight DEF Heaps
<1>2. CASE h.index[k] # 0
  <2> DEFINE at == h.index[k]
  <2>1. at \in 1..Size(h)
    BY <1>1, <1>2 DEF Coherent
  <2>2. Push(h, k, before) = Reseat(h, at, before)
    BY <1>2 DEF Push, HeapContains
  <2>3. KeysIn(h) = KeysIn(h) \cup {k}
    BY <1>1, <1>2 DEF KeysIn
  <2> HIDE DEF at
  <2>4. QED
    BY <2>1, <2>2, <2>3, SiftedIndexed
<1>3. CASE h.index[k] = 0
  <2> DEFINE a == Appended(h, k)
             n == Size(h) + 1
  <2>1. Push(h, k, before) = SiftUp(a, n, before)[1]
    BY <1>3 DEF Push, HeapContains, Appended
  <2>2. a \in Heaps(K) /\ KeysIn(a) = KeysIn(h) \cup {k} /\ n \in 1..Size(a)
    BY <1>1, <1>3, AppendedIndexed DEF Heaps
  <2> HIDE DEF a, n
  <2>3. QED
    BY <2>1, <2>2, SiftedIndexed
<1>4. QED
    BY <1>2, <1>3

\* remove keeps the index right and has the key out, whatever the order.
LEMMA RemovedIndexed ==
    ASSUME NEW K, NEW before, NEW h \in Heaps(K), NEW k \in K
    PROVE  /\ RemoveEntry(h, k, before) \in Heaps(K)
           /\ KeysIn(RemoveEntry(h, k, before)) = KeysIn(h) \ {k}
<1>1. CASE h.index[k] = 0
  <2>1. RemoveEntry(h, k, before) = h
    BY <1>1 DEF RemoveEntry, HeapContains
  <2>2. k \notin KeysIn(h)
    BY <1>1 DEF KeysIn
  <2>3. QED
    BY <2>1, <2>2
<1>2. CASE h.index[k] # 0
  <2> DEFINE rest == Vacate(h, k)
             at == h.index[k]
  <2>1. RemoveEntry(h, k, before) = IF at <= Size(rest) THEN Reseat(rest, at, before) ELSE rest
    BY <1>2 DEF RemoveEntry, HeapContains
  <2>2. /\ rest \in Heaps(K) /\ KeysIn(rest) = KeysIn(h) \ {k}
        /\ at <= Size(rest) => at \in 1..Size(rest)
    BY <1>2, VacatedIndexed
  <2> HIDE DEF rest, at
  <2>3. QED
    BY <2>1, <2>2, SiftedIndexed
<1>3. QED
    BY <1>1, <1>2

\* pop keeps the index right and has the root out, whatever the order.
LEMMA PoppedIndexed ==
    ASSUME NEW K, NEW before, NEW h \in Heaps(K), Size(h) # 0
    PROVE  /\ Pop(h, before) \in Heaps(K) /\ h.items[1] \in KeysIn(h)
           /\ Size(Pop(h, before)) = Size(h) - 1 /\ Size(h) \in Nat
           /\ KeysIn(Pop(h, before)) = KeysIn(h) \ {h.items[1]}
<1> DEFINE k == h.items[1]
           rest == Vacate(h, k)
<1>1. /\ h \in Arrays(K) /\ Size(h) \in Nat /\ h.index \in [K -> Nat] /\ DOMAIN h.index = K
      /\ \A n \in 1..Size(h) : h.items[n] \in K /\ h.index[h.items[n]] = n
    BY ArraysRight DEF Heaps, Coherent
<1>2. 1 \in 1..Size(h)
    BY <1>1
<1>3. k \in K /\ h.index[k] = 1
    BY <1>1, <1>2
<1>4. k \in KeysIn(h)
    BY <1>1, <1>3 DEF KeysIn
<1>5. Pop(h, before) = IF Size(rest) = 0 THEN rest ELSE SiftDown(rest, 1, before)[1]
    BY DEF Pop
<1> HIDE DEF k
<1>6. rest \in Heaps(K) /\ KeysIn(rest) = KeysIn(h) \ {k} /\ Size(rest) = Size(h) - 1
    BY <1>3, VacatedIndexed
<1> HIDE DEF rest
<1>7. Size(rest) # 0 => 1 \in 1..Size(rest)
    BY <1>6, ArraysRight DEF Heaps
<1>8. /\ Pop(h, before) \in Heaps(K) /\ KeysIn(Pop(h, before)) = KeysIn(h) \ {k}
      /\ Size(Pop(h, before)) = Size(h) - 1
    BY <1>5, <1>6, <1>7, SiftedIndexed
<1>9. QED
    BY <1>1, <1>4, <1>8 DEF k
=============================================================================
