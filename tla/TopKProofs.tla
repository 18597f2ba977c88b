----------------------------- MODULE TopKProofs -----------------------------
(***************************************************************************)
(* The top-k heap is a heap, no entry is above the estimate of its chunk,  *)
(* and what a process took in is stored once: the theorems behind          *)
(* HeapSound, HeapBelowSketch and FoundOnce.  The loops of the code are    *)
(* recursive functions over rounds or positions; each is unfolded once,    *)
(* and what it computes follows by induction, for which Rounds stands.     *)
(***************************************************************************)
EXTENDS TopKIndex, FiniteSetTheorems, SequenceTheorems, WellFoundedInduction, TLAPS

-----------------------------------------------------------------------------
(* Induction over the rounds of a loop.                                    *)

\* What holds before a loop and is kept by each round holds after each.
LEMMA Rounds ==
  ASSUME NEW n \in Nat, NEW A, 0 \in A, \A k \in 1..n : k - 1 \in A => k \in A
  PROVE  0..n \subseteq A
  <1> SUFFICES ASSUME NEW m \in 0..n, m \notin A PROVE FALSE
      OBVIOUS
  <1> DEFINE T == {k \in 0..n : k \notin A}
  <1>1. T \subseteq Nat /\ T # {}
        OBVIOUS
  <1>2. PICK x \in T : \A y \in T : ~(<<y, x>> \in OpToRel(<, Nat))
        BY <1>1, WFMin, NatLessThanWellFounded
  <1>3. \A y \in T : ~(y < x)
        BY <1>2, <1>1, Zenon DEF OpToRel
  <1>4. x # 0
        OBVIOUS
  <1>5. x \in 1..n /\ x - 1 \in 0..n /\ x - 1 < x
        BY <1>4
  <1> QED BY <1>3, <1>5

\* SwapUp goes through a series of states, each the next round of the last.
LEMMA UpRounds ==
  ASSUME NEW h, NEW i, Size(h) \in Nat
  PROVE  \E s : /\ s[0] = [h |-> h, idx |-> i]
                /\ \A k \in 1..Size(h) : s[k] = UpRound(s[k - 1])
                /\ SwapUp(h, i) = s[Size(h)]
  <1> DEFINE n == Size(h)
             Begin == [h |-> h, idx |-> i]
             Is(f, m) == f = [k \in 0..m |-> IF k = 0 THEN Begin ELSE UpRound(f[k - 1])]
             A == {m \in 0..n : \E f : Is(f, m)}
  <1> HIDE DEF Begin
  <1>1. 0 \in A
    <2> DEFINE f == [k \in 0..0 |-> Begin]
    <2>1. Is(f, 0)
          OBVIOUS
    <2> HIDE DEF f, Is
    <2> QED BY <2>1
  <1>2. ASSUME NEW m \in 1..n, m - 1 \in A PROVE m \in A
    <2>1. PICK f : Is(f, m - 1)
          BY <1>2
    <2> DEFINE g == [k \in 0..m |-> IF k = m THEN UpRound(f[m - 1]) ELSE f[k]]
    <2>2. \A k \in 0..m : g[k] = IF k = 0 THEN Begin ELSE UpRound(g[k - 1])
      <3> TAKE k \in 0..m
      <3>1. CASE k = m
            BY <3>1
      <3>2. CASE k # m
        <4>1. k \in 0..(m - 1)
              BY <3>2
        <4>2. f[k] = IF k = 0 THEN Begin ELSE UpRound(f[k - 1])
              BY <2>1, <4>1
        <4>3. CASE k = 0
              BY <4>2, <4>3, <3>2
        <4>4. CASE k # 0
          <5>1. k - 1 \in 0..m /\ k - 1 # m
                BY <4>1, <4>4
          <5> QED BY <4>2, <4>4, <5>1, <3>2
        <4> QED BY <4>3, <4>4
      <3> QED BY <3>1, <3>2
    <2>3. Is(g, m)
          BY <2>2
    <2> HIDE DEF g, Is
    <2> QED BY <2>3
  <1>3. 0..n \subseteq A
        BY <1>1, <1>2, Rounds
  <1>4. \E f : Is(f, n)
        BY <1>3
  <1> DEFINE s == CHOOSE f : Is(f, n)
  <1>5. Is(s, n)
        BY <1>4, Zenon
  <1>6. SwapUp(h, i) = s[n]
        BY Zenon DEF SwapUp, Begin
  <1>7. s = [k \in 0..n |-> IF k = 0 THEN Begin ELSE UpRound(s[k - 1])]
        BY <1>5, Zenon
  <1> HIDE DEF s
  <1>8. s[0] = Begin /\ \A k \in 1..n : s[k] = UpRound(s[k - 1])
        BY <1>7
  <1> QED BY <1>6, <1>8 DEF Begin

\* So does SwapDown.
LEMMA DownRounds ==
  ASSUME NEW h, NEW i, Size(h) \in Nat
  PROVE  \E s : /\ s[0] = [h |-> h, idx |-> i]
                /\ \A k \in 1..Size(h) : s[k] = DownRound(s[k - 1])
                /\ SwapDown(h, i) = s[Size(h)]
  <1> DEFINE n == Size(h)
             Begin == [h |-> h, idx |-> i]
             Is(f, m) == f = [k \in 0..m |-> IF k = 0 THEN Begin ELSE DownRound(f[k - 1])]
             A == {m \in 0..n : \E f : Is(f, m)}
  <1> HIDE DEF Begin
  <1>1. 0 \in A
    <2> DEFINE f == [k \in 0..0 |-> Begin]
    <2>1. Is(f, 0)
          OBVIOUS
    <2> HIDE DEF f, Is
    <2> QED BY <2>1
  <1>2. ASSUME NEW m \in 1..n, m - 1 \in A PROVE m \in A
    <2>1. PICK f : Is(f, m - 1)
          BY <1>2
    <2> DEFINE g == [k \in 0..m |-> IF k = m THEN DownRound(f[m - 1]) ELSE f[k]]
    <2>2. \A k \in 0..m : g[k] = IF k = 0 THEN Begin ELSE DownRound(g[k - 1])
      <3> TAKE k \in 0..m
      <3>1. CASE k = m
            BY <3>1
      <3>2. CASE k # m
        <4>1. k \in 0..(m - 1)
              BY <3>2
        <4>2. f[k] = IF k = 0 THEN Begin ELSE DownRound(f[k - 1])
              BY <2>1, <4>1
        <4>3. CASE k = 0
              BY <4>2, <4>3, <3>2
        <4>4. CASE k # 0
          <5>1. k - 1 \in 0..m /\ k - 1 # m
                BY <4>1, <4>4
          <5> QED BY <4>2, <4>4, <5>1, <3>2
        <4> QED BY <4>3, <4>4
      <3> QED BY <3>1, <3>2
    <2>3. Is(g, m)
          BY <2>2
    <2> HIDE DEF g, Is
    <2> QED BY <2>3
  <1>3. 0..n \subseteq A
        BY <1>1, <1>2, Rounds
  <1>4. \E f : Is(f, n)
        BY <1>3
  <1> DEFINE s == CHOOSE f : Is(f, n)
  <1>5. Is(s, n)
        BY <1>4, Zenon
  <1>6. SwapDown(h, i) = s[n]
        BY Zenon DEF SwapDown, Begin
  <1>7. s = [k \in 0..n |-> IF k = 0 THEN Begin ELSE DownRound(s[k - 1])]
        BY <1>5, Zenon
  <1> HIDE DEF s
  <1>8. s[0] = Begin /\ \A k \in 1..n : s[k] = DownRound(s[k - 1])
        BY <1>7
  <1> QED BY <1>6, <1>8 DEF Begin

\* What ProcessOneBatch does at a position of the batch: saving a chunk, and
\* keeping the heap.
StoreRound(b, st, i) == IF i \in Unique(b) THEN SaveChunk(st, b[i]) ELSE st
HeapRound(b, h, i) ==
  IF i \in FirstSeen(b) THEN Refreshed(h, b[i], Freqs(b)[LastSeen(b, i)], AddrOf(b, i)) ELSE h

\* The chunks of a batch are saved one after the other.
LEMMA StoreRounds ==
  ASSUME NEW b, Len(b) \in Nat
  PROVE  \E s : /\ s[0] = [cur |-> cur, conTimes |-> conTimes, disk |-> disk, addr |-> <<>>]
                /\ \A k \in 1..Len(b) : s[k] = StoreRound(b, s[k - 1], k)
                /\ Stored(b) = s[Len(b)]
  <1> DEFINE n == Len(b)
             Begin == [cur |-> cur, conTimes |-> conTimes, disk |-> disk, addr |-> <<>>]
             Is(f, m) == f = [k \in 0..m |-> IF k = 0 THEN Begin ELSE StoreRound(b, f[k - 1], k)]
             A == {m \in 0..n : \E f : Is(f, m)}
  <1> HIDE DEF Begin
  <1>1. 0 \in A
    <2> DEFINE f == [k \in 0..0 |-> Begin]
    <2>1. Is(f, 0)
          OBVIOUS
    <2> HIDE DEF f, Is
    <2> QED BY <2>1
  <1>2. ASSUME NEW m \in 1..n, m - 1 \in A PROVE m \in A
    <2>1. PICK f : Is(f, m - 1)
          BY <1>2
    <2> DEFINE g == [k \in 0..m |-> IF k = m THEN StoreRound(b, f[m - 1], m) ELSE f[k]]
    <2>2. \A k \in 0..m : g[k] = IF k = 0 THEN Begin ELSE StoreRound(b, g[k - 1], k)
      <3> TAKE k \in 0..m
      <3>1. CASE k = m
            BY <3>1
      <3>2. CASE k # m
        <4>1. k \in 0..(m - 1)
              BY <3>2
        <4>2. f[k] = IF k = 0 THEN Begin ELSE StoreRound(b, f[k - 1], k)
              BY <2>1, <4>1
        <4>3. CASE k = 0
              BY <4>2, <4>3, <3>2
        <4>4. CASE k # 0
          <5>1. k - 1 \in 0..m /\ k - 1 # m
                BY <4>1, <4>4
          <5> QED BY <4>2, <4>4, <5>1, <3>2
        <4> QED BY <4>3, <4>4
      <3> QED BY <3>1, <3>2
    <2>3. Is(g, m)
          BY <2>2
    <2> HIDE DEF g, Is
    <2> QED BY <2>3
  <1>3. 0..n \subseteq A
        BY <1>1, <1>2, Rounds
  <1>4. \E f : Is(f, n)
        BY <1>3
  <1> DEFINE s == CHOOSE f : Is(f, n)
  <1>5. Is(s, n)
        BY <1>4, Zenon
  <1>6. Stored(b) = s[n]
        BY Zenon DEF Stored, StoreRound, Begin
  <1>7. s = [k \in 0..n |-> IF k = 0 THEN Begin ELSE StoreRound(b, s[k - 1], k)]
        BY <1>5, Zenon
  <1> HIDE DEF s
  <1>8. s[0] = Begin /\ \A k \in 1..n : s[k] = StoreRound(b, s[k - 1], k)
        BY <1>7
  <1> QED BY <1>6, <1>8 DEF Begin

\* And the heap takes them one after the other.
LEMMA HeapRounds ==
  ASSUME NEW b, Len(b) \in Nat
  PROVE  \E s : /\ s[0] = heap
                /\ \A k \in 1..Len(b) : s[k] = HeapRound(b, s[k - 1], k)
                /\ HeapAfter(b) = s[Len(b)]
  <1> DEFINE n == Len(b)
             Begin == heap
             Is(f, m) == f = [k \in 0..m |-> IF k = 0 THEN Begin ELSE HeapRound(b, f[k - 1], k)]
             A == {m \in 0..n : \E f : Is(f, m)}
  <1> HIDE DEF Begin
  <1>1. 0 \in A
    <2> DEFINE f == [k \in 0..0 |-> Begin]
    <2>1. Is(f, 0)
          OBVIOUS
    <2> HIDE DEF f, Is
    <2> QED BY <2>1
  <1>2. ASSUME NEW m \in 1..n, m - 1 \in A PROVE m \in A
    <2>1. PICK f : Is(f, m - 1)
          BY <1>2
    <2> DEFINE g == [k \in 0..m |-> IF k = m THEN HeapRound(b, f[m - 1], m) ELSE f[k]]
    <2>2. \A k \in 0..m : g[k] = IF k = 0 THEN Begin ELSE HeapRound(b, g[k - 1], k)
      <3> TAKE k \in 0..m
      <3>1. CASE k = m
            BY <3>1
      <3>2. CASE k # m
        <4>1. k \in 0..(m - 1)
              BY <3>2
        <4>2. f[k] = IF k = 0 THEN Begin ELSE HeapRound(b, f[k - 1], k)
              BY <2>1, <4>1
        <4>3. CASE k = 0
              BY <4>2, <4>3, <3>2
        <4>4. CASE k # 0
          <5>1. k - 1 \in 0..m /\ k - 1 # m
                BY <4>1, <4>4
          <5> QED BY <4>2, <4>4, <5>1, <3>2
        <4> QED BY <4>3, <4>4
      <3> QED BY <3>1, <3>2
    <2>3. Is(g, m)
          BY <2>2
    <2> HIDE DEF g, Is
    <2> QED BY <2>3
  <1>3. 0..n \subseteq A
        BY <1>1, <1>2, Rounds
  <1>4. \E f : Is(f, n)
        BY <1>3
  <1> DEFINE s == CHOOSE f : Is(f, n)
  <1>5. Is(s, n)
        BY <1>4, Zenon
  <1>6. HeapAfter(b) = s[n]
        BY Zenon DEF HeapAfter, HeapRound, Begin
  <1>7. s = [k \in 0..n |-> IF k = 0 THEN Begin ELSE HeapRound(b, s[k - 1], k)]
        BY <1>5, Zenon
  <1> HIDE DEF s
  <1>8. s[0] = Begin /\ \A k \in 1..n : s[k] = HeapRound(b, s[k - 1], k)
        BY <1>7
  <1> QED BY <1>6, <1>8 DEF Begin

-----------------------------------------------------------------------------
(* The sifts of EcallEntryHeap.                                            *)

Addr == Nat \X Nat
Item == [freq : Nat, idx : Nat, addr : Addr]
Heaps(n, K) == [at : [1..n -> K], index : [K -> Item]]

\* The vector holds each key once.
OncePerKey(h, n, K) ==
  /\ \A c \in K : \E i \in 1..n : h.at[i] = c
  /\ \A i, j \in 1..n : h.at[i] = h.at[j] => i = j

\* Moving items about leaves frequencies and addresses alone.
SameItems(g, h, K) ==
  \A c \in K : g.index[c].freq = h.index[c].freq /\ g.index[c].addr = h.index[c].addr

\* In the middle of a sift everything is in order, except around the moving
\* element at idx: it does not know its place, and may be out of order with
\* its parent and its children, which are in order with each other.
Sifting(s, n, K) ==
  /\ s \in [h : Heaps(n, K), idx : 1..n]
  /\ OncePerKey(s.h, n, K)
  /\ \A i \in 1..n : i # s.idx => s.h.index[s.h.at[i]].idx = i
  /\ \A i \in 2..n : i # s.idx /\ ParentIdx(i) # s.idx => Freq(s.h, ParentIdx(i)) <= Freq(s.h, i)
  /\ \A i \in 2..n : ParentIdx(i) = s.idx /\ s.idx > 1 => Freq(s.h, ParentIdx(s.idx)) <= Freq(s.h, i)

\* The moving element is not below its parent; not above its children.
OverParent(s) == s.idx > 1 => Freq(s.h, ParentIdx(s.idx)) <= Freq(s.h, s.idx)
UnderChildren(s, n) == \A i \in 2..n : ParentIdx(i) = s.idx => Freq(s.h, s.idx) <= Freq(s.h, i)

LEMMA ParentFacts ==
  /\ \A i \in Nat : i >= 2 => ParentIdx(i) \in Nat /\ 1 <= ParentIdx(i) /\ ParentIdx(i) < i
  /\ \A i \in Nat : ParentIdx(ChildIdx(i)) = i /\ ParentIdx(ChildIdx(i) + 1) = i
  /\ \A i, j \in Nat : ParentIdx(j) = i => j = ChildIdx(i) \/ j = ChildIdx(i) + 1
  BY DEF ParentIdx, ChildIdx

LEMMA SwappedFacts ==
  ASSUME NEW n \in Nat, NEW K, NEW h \in Heaps(n, K), NEW i \in 1..n, NEW j \in 1..n, i # j,
         OncePerKey(h, n, K)
  PROVE  LET g == Swapped(h, i, j) IN
         /\ g \in Heaps(n, K) /\ OncePerKey(g, n, K) /\ SameItems(g, h, K)
         /\ g.at[i] = h.at[j] /\ g.at[j] = h.at[i]
         /\ \A k \in 1..n : k # i /\ k # j => g.at[k] = h.at[k]
         /\ g.index[h.at[j]].idx = i
         /\ \A c \in K : c # h.at[j] => g.index[c].idx = h.index[c].idx
         /\ Freq(g, i) = Freq(h, j) /\ Freq(g, j) = Freq(h, i)
         /\ \A k \in 1..n : k # i /\ k # j => Freq(g, k) = Freq(h, k)
  <1> DEFINE g == Swapped(h, i, j)
  <1>1. h.at \in [1..n -> K] /\ h.index \in [K -> Item]
        BY DEF Heaps
  <1>2. g.at = [h.at EXCEPT ![i] = h.at[j], ![j] = h.at[i]] /\ g.index = [h.index EXCEPT ![h.at[j]].idx = i]
        BY DEF Swapped
  <1>3. g \in Heaps(n, K)
    <2>1. g.at \in [1..n -> K]
          BY <1>1, <1>2
    <2>a. h.index[h.at[j]] \in Item /\ i \in Nat
          BY <1>1
    <2>2. [h.index[h.at[j]] EXCEPT !.idx = i] \in Item
          BY <2>a DEF Item
    <2>3. g.index \in [K -> Item]
          BY <1>1, <1>2, <2>2
    <2> QED BY <2>1, <2>3 DEF Swapped, Heaps
  <1>4. g.at[i] = h.at[j] /\ g.at[j] = h.at[i] /\ \A k \in 1..n : k # i /\ k # j => g.at[k] = h.at[k]
        BY <1>1, <1>2
  <1>5. /\ g.index[h.at[j]].idx = i
        /\ \A c \in K : c # h.at[j] => g.index[c] = h.index[c]
        /\ g.index[h.at[j]].freq = h.index[h.at[j]].freq /\ g.index[h.at[j]].addr = h.index[h.at[j]].addr
        BY <1>1, <1>2 DEF Item
  <1>6. SameItems(g, h, K)
        BY <1>5 DEF SameItems
  <1> HIDE DEF g
  <1>7. OncePerKey(g, n, K)
    <2>1. ASSUME NEW c \in K PROVE \E k \in 1..n : g.at[k] = c
      <3>1. PICK k \in 1..n : h.at[k] = c
            BY DEF OncePerKey
      <3> QED BY <3>1, <1>4
    <2>2. ASSUME NEW k \in 1..n, NEW l \in 1..n, g.at[k] = g.at[l] PROVE k = l
          BY <2>2, <1>4 DEF OncePerKey
    <2> QED BY <2>1, <2>2 DEF OncePerKey
  <1>8. /\ Freq(g, i) = Freq(h, j) /\ Freq(g, j) = Freq(h, i)
        /\ \A k \in 1..n : k # i /\ k # j => Freq(g, k) = Freq(h, k)
        BY <1>1, <1>4, <1>6 DEF SameItems, Freq
  <1> QED BY <1>3, <1>4, <1>5, <1>6, <1>7, <1>8 DEF g

LEMMA FreqNat ==
  ASSUME NEW n \in Nat, NEW K, NEW h \in Heaps(n, K), NEW i \in 1..n
  PROVE  Freq(h, i) \in Nat
  BY DEF Heaps, Item, Freq

\* When the moving element changes places with j, the other knows its place.
LEMMA SwapKeepsPlaces ==
  ASSUME NEW n \in Nat, NEW K, NEW s, Sifting(s, n, K), NEW j \in 1..n, j # s.idx
  PROVE  LET g == Swapped(s.h, s.idx, j) IN
         /\ g \in Heaps(n, K) /\ OncePerKey(g, n, K) /\ SameItems(g, s.h, K)
         /\ \A i \in 1..n : i # j => g.index[g.at[i]].idx = i
         /\ Freq(g, s.idx) = Freq(s.h, j) /\ Freq(g, j) = Freq(s.h, s.idx)
         /\ \A k \in 1..n : k # s.idx /\ k # j => Freq(g, k) = Freq(s.h, k)
  <1> DEFINE g == Swapped(s.h, s.idx, j)
  <1>1. s.h \in Heaps(n, K) /\ s.idx \in 1..n /\ OncePerKey(s.h, n, K)
        BY DEF Sifting
  <1>2. /\ g \in Heaps(n, K) /\ OncePerKey(g, n, K) /\ SameItems(g, s.h, K)
        /\ g.at[s.idx] = s.h.at[j] /\ g.at[j] = s.h.at[s.idx]
        /\ \A k \in 1..n : k # s.idx /\ k # j => g.at[k] = s.h.at[k]
        /\ g.index[s.h.at[j]].idx = s.idx
        /\ \A c \in K : c # s.h.at[j] => g.index[c].idx = s.h.index[c].idx
        /\ Freq(g, s.idx) = Freq(s.h, j) /\ Freq(g, j) = Freq(s.h, s.idx)
        /\ \A k \in 1..n : k # s.idx /\ k # j => Freq(g, k) = Freq(s.h, k)
    <2> DEFINE i == s.idx
               h == s.h
    <2>1. h \in Heaps(n, K) /\ i \in 1..n /\ i # j /\ OncePerKey(h, n, K)
          BY <1>1
    <2> HIDE DEF i, h
    <2>2. LET d == Swapped(h, i, j) IN
         /\ d \in Heaps(n, K) /\ OncePerKey(d, n, K) /\ SameItems(d, h, K)
         /\ d.at[i] = h.at[j] /\ d.at[j] = h.at[i]
         /\ \A k \in 1..n : k # i /\ k # j => d.at[k] = h.at[k]
         /\ d.index[h.at[j]].idx = i
         /\ \A c \in K : c # h.at[j] => d.index[c].idx = h.index[c].idx
         /\ Freq(d, i) = Freq(h, j) /\ Freq(d, j) = Freq(h, i)
         /\ \A k \in 1..n : k # i /\ k # j => Freq(d, k) = Freq(h, k)
          BY <2>1, SwappedFacts
    <2> QED BY <2>2 DEF i, h
  <1> HIDE DEF g
  <1>3. ASSUME NEW i \in 1..n, i # j PROVE g.index[g.at[i]].idx = i
    <2>1. CASE i = s.idx
          BY <1>2, <2>1
    <2>2. CASE i # s.idx
      <3>1. g.at[i] = s.h.at[i] /\ s.h.at[i] # s.h.at[j] /\ s.h.at[i] \in K
            BY <1>1, <1>2, <1>3, <2>2 DEF OncePerKey, Heaps
      <3> QED BY <3>1, <1>2, <2>2 DEF Sifting
    <2> QED BY <2>1, <2>2
  <1> QED BY <1>2, <1>3 DEF g

\* A round of SwapUp.
LEMMA UpStep ==
  ASSUME NEW n \in Nat, NEW K, NEW s, Sifting(s, n, K)
  PROVE  /\ Sifting(UpRound(s), n, K)
         /\ SameItems(UpRound(s).h, s.h, K)
         /\ UpRound(s).h.at[UpRound(s).idx] = s.h.at[s.idx]
         /\ UpRound(s) = s => OverParent(s)
         /\ UpRound(s) # s => UpRound(s).idx < s.idx
         /\ UnderChildren(s, n) => UnderChildren(UpRound(s), n)
  <1>t. s.h \in Heaps(n, K) /\ s.idx \in 1..n /\ OncePerKey(s.h, n, K)
        BY DEF Sifting
  <1> DEFINE p == ParentIdx(s.idx)
  <1>1. CASE ~(s.idx > 1 /\ Freq(s.h, s.idx) < Freq(s.h, p))
    <2>1. UpRound(s) = s
          BY <1>1 DEF UpRound
    <2>2. s.idx > 1 => p \in 1..n
          BY <1>t, ParentFacts
    <2>3. OverParent(s)
          BY <1>1, <1>t, <2>2, FreqNat DEF OverParent
    <2> QED BY <2>1, <2>3 DEF SameItems
  <1>2. CASE s.idx > 1 /\ Freq(s.h, s.idx) < Freq(s.h, p)
    <2> DEFINE g == Swapped(s.h, s.idx, p)
               r == [h |-> g, idx |-> p]
    <2>1. UpRound(s) = r
          BY <1>2 DEF UpRound
    <2>2. p \in 1..n /\ p < s.idx
          BY <1>2, <1>t, ParentFacts
    <2>3. /\ g \in Heaps(n, K) /\ OncePerKey(g, n, K) /\ SameItems(g, s.h, K)
          /\ \A i \in 1..n : i # p => g.index[g.at[i]].idx = i
          /\ Freq(g, s.idx) = Freq(s.h, p) /\ Freq(g, p) = Freq(s.h, s.idx)
          /\ \A k \in 1..n : k # s.idx /\ k # p => Freq(g, k) = Freq(s.h, k)
          BY <2>2, SwapKeepsPlaces
    <2>4. g.at[p] = s.h.at[s.idx]
          BY <1>t, <2>2, SwappedFacts
    <2> HIDE DEF g
    <2>f. \A k \in 1..n : Freq(s.h, k) \in Nat
          BY <1>t, FreqNat
    <2> HIDE DEF p
    <2>5. ASSUME NEW i \in 2..n, i # p, ParentIdx(i) # p
          PROVE  Freq(g, ParentIdx(i)) <= Freq(g, i)
      <3>1. ParentIdx(i) \in 1..n /\ ParentIdx(i) < i /\ i # s.idx
            BY <2>5, ParentFacts DEF p
      <3>2. CASE ParentIdx(i) = s.idx
            BY <3>1, <3>2, <2>3, <2>5, <1>2 DEF Sifting, p
      <3>3. CASE ParentIdx(i) # s.idx
        <4>1. Freq(s.h, ParentIdx(i)) <= Freq(s.h, i)
              BY <3>1, <3>3 DEF Sifting
        <4> QED BY <4>1, <3>1, <3>3, <2>3, <2>5
      <3> QED BY <3>2, <3>3
    <2>6. ASSUME NEW i \in 2..n, ParentIdx(i) = p, i # s.idx
          PROVE  i # p /\ Freq(s.h, p) <= Freq(s.h, i) /\ Freq(g, i) = Freq(s.h, i)
      <3>1. i # p
            BY <2>6, ParentFacts
      <3> QED BY <3>1, <2>6, <2>2, <2>3 DEF Sifting
    <2>7. ASSUME p > 1
          PROVE  /\ ParentIdx(p) \in 1..n /\ ParentIdx(p) < p
                 /\ Freq(s.h, ParentIdx(p)) <= Freq(s.h, p)
                 /\ Freq(g, ParentIdx(p)) = Freq(s.h, ParentIdx(p))
      <3>1. ParentIdx(p) \in 1..n /\ ParentIdx(p) < p
            BY <2>2, <2>7, ParentFacts
      <3> QED BY <3>1, <2>2, <2>3, <2>7 DEF Sifting
    <2>8. ASSUME NEW i \in 2..n, ParentIdx(i) = p, p > 1
          PROVE  Freq(g, ParentIdx(p)) <= Freq(g, i)
      <3>1. CASE i = s.idx
            BY <3>1, <2>7, <2>8, <2>3
      <3>2. CASE i # s.idx
            BY <3>2, <2>6, <2>7, <2>8, <2>2, <2>f
      <3> QED BY <3>1, <3>2
    <2>9. Sifting(r, n, K)
          BY <2>2, <2>3, <2>5, <2>8 DEF Sifting
    <2>10. UnderChildren(r, n)
      <3> SUFFICES ASSUME NEW i \in 2..n, ParentIdx(i) = p PROVE Freq(g, p) <= Freq(g, i)
          BY DEF UnderChildren
      <3>1. CASE i = s.idx
            BY <3>1, <2>3, <1>2, <2>2, <2>f, <1>t DEF p
      <3>2. CASE i # s.idx
            BY <3>2, <2>6, <2>3, <1>2, <2>2, <2>f, <1>t DEF p
      <3> QED BY <3>1, <3>2
    <2>11. r # s
          BY <2>2
    <2> QED BY <2>1, <2>9, <2>10, <2>11, <2>2, <2>3, <2>4
  <1> QED BY <1>1, <1>2

LEMMA FunSeq ==
  ASSUME NEW n \in Nat, NEW K, NEW f \in [1..n -> K]
  PROVE  f \in Seq(K) /\ Len(f) = n /\ DOMAIN f = 1..n
  OBVIOUS

LEMMA HeapSize ==
  ASSUME NEW n \in Nat, NEW K, NEW h \in Heaps(n, K)
  PROVE  Size(h) = n
  BY FunSeq DEF Heaps, Size

LEMMA SmallChildFacts ==
  ASSUME NEW n \in Nat, NEW K, NEW h \in Heaps(n, K), NEW i \in 1..n, ChildIdx(i) <= n
  PROVE  /\ SmallChild(h, i) \in 2..n /\ ParentIdx(SmallChild(h, i)) = i
         /\ \A k \in 2..n : ParentIdx(k) = i => Freq(h, SmallChild(h, i)) <= Freq(h, k)
  <1> DEFINE left == ChildIdx(i)
  <1>1. left \in 2..n /\ ParentIdx(left) = i /\ ParentIdx(left + 1) = i
    <2>1. left \in 2..n
          BY DEF ChildIdx
    <2> QED BY <2>1, ParentFacts
  <1>2. \A k \in 2..n : ParentIdx(k) = i => k = left \/ k = left + 1
        BY ParentFacts
  <1>3. Size(h) = n
        BY HeapSize
  <1>4. \A k \in 1..n : Freq(h, k) \in Nat
        BY FreqNat
  <1> HIDE DEF left
  <1>5. SmallChild(h, i) = IF left < n /\ Freq(h, left + 1) < Freq(h, left) THEN left + 1 ELSE left
        BY <1>3 DEF SmallChild, left
  <1>6. CASE left < n /\ Freq(h, left + 1) < Freq(h, left)
    <2>1. SmallChild(h, i) = left + 1
          BY <1>5, <1>6
    <2>2. left + 1 \in 2..n
          BY <1>1, <1>6
    <2> QED BY <2>1, <2>2, <1>1, <1>2, <1>4, <1>6
  <1>7. CASE ~(left < n /\ Freq(h, left + 1) < Freq(h, left))
    <2>1. SmallChild(h, i) = left
          BY <1>5, <1>7
    <2> QED BY <2>1, <1>1, <1>2, <1>4, <1>7
  <1> QED BY <1>6, <1>7

\* A round of SwapDown.
LEMMA DownStep ==
  ASSUME NEW n \in Nat, NEW K, NEW s, Sifting(s, n, K)
  PROVE  /\ Sifting(DownRound(s), n, K)
         /\ SameItems(DownRound(s).h, s.h, K)
         /\ DownRound(s).h.at[DownRound(s).idx] = s.h.at[s.idx]
         /\ DownRound(s) = s => UnderChildren(s, n)
         /\ DownRound(s) # s => DownRound(s).idx > s.idx
         /\ OverParent(s) => OverParent(DownRound(s))
  <1>t. s.h \in Heaps(n, K) /\ s.idx \in 1..n /\ OncePerKey(s.h, n, K)
        BY DEF Sifting
  <1>z. Size(s.h) = n
        BY <1>t, HeapSize
  <1>f. \A k \in 1..n : Freq(s.h, k) \in Nat
        BY <1>t, FreqNat
  <1> DEFINE c == SmallChild(s.h, s.idx)
             Moves == ChildIdx(s.idx) <= n /\ Freq(s.h, c) < Freq(s.h, s.idx)
  <1>c. ASSUME ChildIdx(s.idx) <= n
        PROVE  /\ c \in 2..n /\ ParentIdx(c) = s.idx
               /\ \A k \in 2..n : ParentIdx(k) = s.idx => Freq(s.h, c) <= Freq(s.h, k)
        BY <1>t, <1>c, SmallChildFacts
  <1>1. CASE ~Moves
    <2>1. DownRound(s) = s
          BY <1>1, <1>z DEF DownRound
    <2>2. UnderChildren(s, n)
      <3> SUFFICES ASSUME NEW i \in 2..n, ParentIdx(i) = s.idx PROVE Freq(s.h, s.idx) <= Freq(s.h, i)
          BY DEF UnderChildren
      <3>1. ChildIdx(s.idx) <= n
        <4>1. i = ChildIdx(s.idx) \/ i = ChildIdx(s.idx) + 1
              BY <1>t, ParentFacts
        <4> QED BY <4>1, <1>t DEF ChildIdx
      <3>2. c \in 2..n /\ Freq(s.h, c) <= Freq(s.h, i)
            BY <3>1, <1>c
      <3>3. ~(Freq(s.h, c) < Freq(s.h, s.idx))
            BY <3>1, <1>1
      <3> HIDE DEF c
      <3> QED BY <3>2, <3>3, <1>f, <1>t
    <2> QED BY <2>1, <2>2 DEF SameItems
  <1>2. CASE Moves
    <2> DEFINE g == Swapped(s.h, s.idx, c)
               r == [h |-> g, idx |-> c]
    <2>1. DownRound(s) = r
          BY <1>2, <1>z DEF DownRound
    <2>2. /\ c \in 2..n /\ c \in 1..n /\ ParentIdx(c) = s.idx /\ s.idx < c
          /\ \A k \in 2..n : ParentIdx(k) = s.idx => Freq(s.h, c) <= Freq(s.h, k)
      <3>1. /\ c \in 2..n /\ ParentIdx(c) = s.idx
            /\ \A k \in 2..n : ParentIdx(k) = s.idx => Freq(s.h, c) <= Freq(s.h, k)
            BY <1>c, <1>2
      <3> HIDE DEF c
      <3> QED BY <3>1, ParentFacts
    <2>l. Freq(s.h, c) < Freq(s.h, s.idx)
          BY <1>2
    <2> HIDE DEF c
    <2>3. /\ g \in Heaps(n, K) /\ OncePerKey(g, n, K) /\ SameItems(g, s.h, K)
          /\ \A i \in 1..n : i # c => g.index[g.at[i]].idx = i
          /\ Freq(g, s.idx) = Freq(s.h, c) /\ Freq(g, c) = Freq(s.h, s.idx)
          /\ \A k \in 1..n : k # s.idx /\ k # c => Freq(g, k) = Freq(s.h, k)
          BY <2>2, SwapKeepsPlaces
    <2>4. g.at[c] = s.h.at[s.idx]
          BY <1>t, <2>2, SwappedFacts
    <2> HIDE DEF g
    <2>5. ASSUME NEW i \in 2..n, i # c, ParentIdx(i) # c
          PROVE  Freq(g, ParentIdx(i)) <= Freq(g, i)
      <3>1. ParentIdx(i) \in 1..n /\ ParentIdx(i) < i
            BY ParentFacts
      <3>2. CASE ParentIdx(i) = s.idx
        <4>1. Freq(g, i) = Freq(s.h, i)
              BY <2>3, <2>5, <3>1, <3>2
        <4> QED BY <4>1, <3>2, <2>2, <2>3
      <3>3. CASE i = s.idx
        <4>1. Freq(g, ParentIdx(i)) = Freq(s.h, ParentIdx(i))
              BY <2>3, <2>5, <3>1, <3>3
        <4>2. Freq(s.h, ParentIdx(i)) <= Freq(s.h, c)
              BY <2>2, <3>3 DEF Sifting
        <4> QED BY <4>1, <4>2, <3>3, <2>3
      <3>4. CASE i # s.idx /\ ParentIdx(i) # s.idx
        <4>1. Freq(s.h, ParentIdx(i)) <= Freq(s.h, i)
              BY <3>4 DEF Sifting
        <4> QED BY <4>1, <3>1, <3>4, <2>3, <2>5
      <3> QED BY <3>2, <3>3, <3>4
    <2>6. ASSUME NEW i \in 2..n, ParentIdx(i) = c
          PROVE  Freq(g, ParentIdx(c)) <= Freq(g, i)
      <3>1. i # c /\ i # s.idx /\ c # s.idx
            BY <2>6, <2>2, ParentFacts
      <3>2. Freq(s.h, c) <= Freq(s.h, i)
            BY <2>6, <3>1 DEF Sifting
      <3> QED BY <3>1, <3>2, <2>2, <2>3
    <2>7. Sifting(r, n, K)
          BY <2>2, <2>3, <2>5, <2>6 DEF Sifting
    <2>8. OverParent(r)
          BY <2>2, <2>3, <2>l, <1>f, <1>t DEF OverParent
    <2>9. r # s
          BY <2>2
    <2> QED BY <2>1, <2>7, <2>8, <2>9, <2>2, <2>3, <2>4
  <1> QED BY <1>1, <1>2

\* SwapUp ends where the element is not below its parent.
LEMMA SiftUp ==
  ASSUME NEW n \in Nat, NEW K, NEW h, NEW i, Sifting([h |-> h, idx |-> i], n, K)
  PROVE  LET b == [h |-> h, idx |-> i]
             r == SwapUp(h, i)
         IN  /\ Sifting(r, n, K) /\ SameItems(r.h, h, K) /\ r.h.at[r.idx] = h.at[i]
             /\ OverParent(r)
             /\ UnderChildren(b, n) => UnderChildren(r, n)
  <1> DEFINE b == [h |-> h, idx |-> i]
             Good(s) == /\ Sifting(s, n, K) /\ SameItems(s.h, h, K) /\ s.h.at[s.idx] = h.at[i]
                        /\ UnderChildren(b, n) => UnderChildren(s, n)
             Near(s, k) == UpRound(s) = s \/ s.idx + k <= i
  <1>1. h \in Heaps(n, K) /\ i \in 1..n /\ Size(h) = n
        BY HeapSize DEF Sifting
  <1>2. PICK s : s[0] = b /\ (\A k \in 1..n : s[k] = UpRound(s[k - 1])) /\ SwapUp(h, i) = s[n]
        BY <1>1, UpRounds
  <1> DEFINE A == {k \in 0..n : Good(s[k]) /\ Near(s[k], k)}
  <1>3. 0 \in A
    <2>1. Good(b)
          BY DEF SameItems
    <2>2. Near(b, 0)
          BY <1>1
    <2> QED BY <2>1, <2>2, <1>2
  <1>4. ASSUME NEW k \in 1..n, k - 1 \in A PROVE k \in A
    <2>1. Good(s[k - 1]) /\ Near(s[k - 1], k - 1)
          BY <1>4
    <2>2. s[k] = UpRound(s[k - 1])
          BY <1>2
    <2> DEFINE t == s[k - 1]
               u == s[k]
    <2>3. /\ Sifting(u, n, K) /\ SameItems(u.h, t.h, K)
          /\ u.h.at[u.idx] = t.h.at[t.idx]
          /\ UpRound(t) # t => u.idx < t.idx
          /\ UnderChildren(t, n) => UnderChildren(u, n)
          BY <2>1, <2>2, UpStep
    <2>4. Sifting(t, n, K) /\ SameItems(t.h, h, K) /\ t.h.at[t.idx] = h.at[i] /\ (UnderChildren(b, n) => UnderChildren(t, n))
          BY <2>1
    <2>5. t.idx \in Nat /\ u.idx \in Nat
          BY <2>3, <2>4 DEF Sifting
    <2>6. Near(t, k - 1) /\ u = UpRound(t)
          BY <2>1, <2>2
    <2> HIDE DEF t, u, b
    <2>7. Good(u)
          BY <2>3, <2>4 DEF SameItems
    <2>8. Near(u, k)
          BY <2>3, <2>5, <2>6, <1>1
    <2> QED BY <2>7, <2>8 DEF u
  <1>5. n \in A
    <2> HIDE DEF A
    <2> QED BY <1>3, <1>4, Rounds
  <1>6. Good(s[n]) /\ Near(s[n], n)
        BY <1>5
  <1> DEFINE r == s[n]
  <1>7. Sifting(r, n, K) /\ r.idx \in 1..n
        BY <1>6 DEF Sifting
  <1>8. UpRound(r) = r
        BY <1>6, <1>7, <1>1
  <1>9. OverParent(r)
        BY <1>7, <1>8, UpStep
  <1> HIDE DEF r, b
  <1> QED BY <1>2, <1>6, <1>9 DEF r, b

\* SwapDown ends where the element is not above a child.
LEMMA SiftDown ==
  ASSUME NEW n \in Nat, NEW K, NEW h, NEW i, Sifting([h |-> h, idx |-> i], n, K)
  PROVE  LET b == [h |-> h, idx |-> i]
             r == SwapDown(h, i)
         IN  /\ Sifting(r, n, K) /\ SameItems(r.h, h, K) /\ r.h.at[r.idx] = h.at[i]
             /\ UnderChildren(r, n)
             /\ OverParent(b) => OverParent(r)
  <1> DEFINE b == [h |-> h, idx |-> i]
             Good(s) == /\ Sifting(s, n, K) /\ SameItems(s.h, h, K) /\ s.h.at[s.idx] = h.at[i]
                        /\ OverParent(b) => OverParent(s)
             Near(s, k) == DownRound(s) = s \/ i + k <= s.idx
  <1>1. h \in Heaps(n, K) /\ i \in 1..n /\ Size(h) = n
        BY HeapSize DEF Sifting
  <1>2. PICK s : s[0] = b /\ (\A k \in 1..n : s[k] = DownRound(s[k - 1])) /\ SwapDown(h, i) = s[n]
        BY <1>1, DownRounds
  <1> DEFINE A == {k \in 0..n : Good(s[k]) /\ Near(s[k], k)}
  <1>3. 0 \in A
    <2>1. Good(b)
          BY DEF SameItems
    <2>2. Near(b, 0)
          BY <1>1
    <2> QED BY <2>1, <2>2, <1>2
  <1>4. ASSUME NEW k \in 1..n, k - 1 \in A PROVE k \in A
    <2>1. Good(s[k - 1]) /\ Near(s[k - 1], k - 1)
          BY <1>4
    <2>2. s[k] = DownRound(s[k - 1])
          BY <1>2
    <2> DEFINE t == s[k - 1]
               u == s[k]
    <2>3. /\ Sifting(u, n, K) /\ SameItems(u.h, t.h, K)
          /\ u.h.at[u.idx] = t.h.at[t.idx]
          /\ DownRound(t) # t => u.idx > t.idx
          /\ OverParent(t) => OverParent(u)
          BY <2>1, <2>2, DownStep
    <2>4. Sifting(t, n, K) /\ SameItems(t.h, h, K) /\ t.h.at[t.idx] = h.at[i] /\ (OverParent(b) => OverParent(t))
          BY <2>1
    <2>5. t.idx \in Nat /\ u.idx \in Nat
          BY <2>3, <2>4 DEF Sifting
    <2>6. Near(t, k - 1) /\ u = DownRound(t)
          BY <2>1, <2>2
    <2> HIDE DEF t, u, b
    <2>7. Good(u)
          BY <2>3, <2>4 DEF SameItems
    <2>8. Near(u, k)
          BY <2>3, <2>5, <2>6, <1>1
    <2> QED BY <2>7, <2>8 DEF u
  <1>5. n \in A
    <2> HIDE DEF A
    <2> QED BY <1>3, <1>4, Rounds
  <1>6. Good(s[n]) /\ Near(s[n], n)
        BY <1>5
  <1> DEFINE r == s[n]
  <1>7. Sifting(r, n, K) /\ r.idx \in 1..n
        BY <1>6 DEF Sifting
  <1>8. DownRound(r) = r
        BY <1>6, <1>7, <1>1
  <1>9. UnderChildren(r, n)
        BY <1>7, <1>8, DownStep
  <1> HIDE DEF r, b
  <1> QED BY <1>2, <1>6, <1>9 DEF r, b

\* A heap of n items with keys K.
HeapOK(h, n, K) ==
  /\ h \in Heaps(n, K) /\ OncePerKey(h, n, K)
  /\ \A i \in 1..n : h.index[h.at[i]].idx = i
  /\ \A i \in 2..n : Freq(h, ParentIdx(i)) <= Freq(h, i)

\* The element that moved is told its place, and all is in order again.
LEMMA PlacedOK ==
  ASSUME NEW n \in Nat, NEW K, NEW s, Sifting(s, n, K), OverParent(s), UnderChildren(s, n)
  PROVE  HeapOK(Placed(s), n, K) /\ SameItems(Placed(s), s.h, K)
  <1> DEFINE h == s.h
             i == s.idx
             g == Placed(s)
  <1>1. h \in Heaps(n, K) /\ i \in 1..n /\ OncePerKey(h, n, K) /\ h.at \in [1..n -> K] /\ h.index \in [K -> Item]
        BY DEF Sifting, Heaps
  <1>2. g = [at |-> h.at, index |-> [h.index EXCEPT ![h.at[i]].idx = i]]
        BY <1>1 DEF Placed, Heaps
  <1>a. h.index[h.at[i]] \in Item /\ h.at[i] \in K /\ i \in Nat
        BY <1>1
  <1>3. [h.index[h.at[i]] EXCEPT !.idx = i] \in Item
        BY <1>a DEF Item
  <1>4. g \in Heaps(n, K)
        BY <1>1, <1>2, <1>3 DEF Heaps
  <1>5. /\ g.at = h.at
        /\ \A c \in K : c # h.at[i] => g.index[c] = h.index[c]
        /\ g.index[h.at[i]].idx = i
        /\ g.index[h.at[i]].freq = h.index[h.at[i]].freq /\ g.index[h.at[i]].addr = h.index[h.at[i]].addr
        BY <1>1, <1>2, <1>a DEF Item
  <1>6. SameItems(g, h, K)
        BY <1>5 DEF SameItems
  <1> HIDE DEF g
  <1>7. OncePerKey(g, n, K)
        BY <1>1, <1>5 DEF OncePerKey
  <1>8. ASSUME NEW k \in 1..n PROVE g.index[g.at[k]].idx = k
    <2>1. CASE k = i
          BY <2>1, <1>5
    <2>2. CASE k # i
      <3>1. h.at[k] # h.at[i] /\ h.at[k] \in K
            BY <2>2, <1>1 DEF OncePerKey
      <3> QED BY <3>1, <2>2, <1>5 DEF Sifting
    <2> QED BY <2>1, <2>2
  <1>9. \A k \in 1..n : Freq(g, k) = Freq(h, k)
        BY <1>1, <1>5, <1>6 DEF SameItems, Freq
  <1>10. ASSUME NEW k \in 2..n PROVE Freq(g, ParentIdx(k)) <= Freq(g, k)
    <2>1. ParentIdx(k) \in 1..n
          BY ParentFacts
    <2>2. Freq(h, ParentIdx(k)) <= Freq(h, k)
          BY DEF Sifting, OverParent, UnderChildren
    <2> QED BY <2>1, <2>2, <1>9
  <1> QED BY <1>4, <1>6, <1>7, <1>8, <1>10 DEF HeapOK, g

-----------------------------------------------------------------------------
(* The operations of EcallEntryHeap.                                       *)

\* Pop drops the item at the top and no other.
LEMMA PopOK ==
  ASSUME NEW n \in Nat, NEW K, NEW h, HeapOK(h, n, K), n >= 2
  PROVE  LET L == K \ {h.at[1]} IN HeapOK(Pop(h), n - 1, L) /\ SameItems(Pop(h), h, L)
  <1> DEFINE L == K \ {h.at[1]}
             v == SubSeq([h.at EXCEPT ![1] = h.at[n]], 1, n - 1)
             x == [c \in DOMAIN h.index \ {h.at[1]} |-> h.index[c]]
             g == [at |-> v, index |-> x]
             b == [h |-> g, idx |-> 1]
  <1>1. /\ h \in Heaps(n, K) /\ h.at \in [1..n -> K] /\ h.index \in [K -> Item] /\ Size(h) = n
        /\ n - 1 \in Nat /\ 1 \in 1..(n - 1)
        BY HeapSize DEF HeapOK, Heaps
  <1>2. v \in [1..(n - 1) -> K] /\ \A k \in 1..(n - 1) : v[k] = IF k = 1 THEN h.at[n] ELSE h.at[k]
    <2> DEFINE w == [h.at EXCEPT ![1] = h.at[n]]
    <2>1. w \in [1..n -> K] /\ \A k \in 1..n : w[k] = IF k = 1 THEN h.at[n] ELSE h.at[k]
          BY <1>1
    <2> HIDE DEF w
    <2>2. w \in Seq(K) /\ Len(w) = n
          BY <2>1, FunSeq
    <2>3. SubSeq(w, 1, n - 1) = [k \in 1..(n - 1) |-> w[k]]
          BY <2>2, <1>1
    <2>4. v = [k \in 1..(n - 1) |-> w[k]]
          BY <2>3 DEF w
    <2> HIDE DEF v
    <2>5. \A k \in 1..(n - 1) : k \in 1..n
          BY <1>1
    <2> QED BY <2>1, <2>4, <2>5
  <1>3. x \in [L -> Item] /\ \A c \in L : x[c] = h.index[c]
        BY <1>1
  <1> HIDE DEF v, x
  <1>u. \A k, l \in 1..n : h.at[k] = h.at[l] => k = l
        BY DEF HeapOK, OncePerKey
  <1>4. \A k \in 1..(n - 1) : v[k] \in L
        BY <1>1, <1>2, <1>u
  <1>5. g \in Heaps(n - 1, L)
        BY <1>2, <1>3, <1>4 DEF Heaps
  <1>6. OncePerKey(g, n - 1, L)
    <2>1. ASSUME NEW c \in L PROVE \E k \in 1..(n - 1) : v[k] = c
      <3>1. PICK k \in 1..n : h.at[k] = c
            BY DEF HeapOK, OncePerKey
      <3>2. CASE k = n
            BY <3>1, <3>2, <1>1, <1>2
      <3>3. CASE k # n
        <4>1. k \in 1..(n - 1) /\ k # 1
              BY <3>1, <3>3
        <4> QED BY <4>1, <3>1, <1>2
      <3> QED BY <3>2, <3>3
    <2>2. ASSUME NEW k \in 1..(n - 1), NEW l \in 1..(n - 1), v[k] = v[l] PROVE k = l
          BY <2>2, <1>2, <1>u
    <2> QED BY <2>1, <2>2 DEF OncePerKey
  <1>7. \A k \in 2..(n - 1) : v[k] = h.at[k] /\ Freq(g, k) = Freq(h, k)
        BY <1>2, <1>3, <1>4 DEF Freq
  <1>8. Sifting(b, n - 1, L)
    <2>1. ASSUME NEW k \in 1..(n - 1), k # 1 PROVE g.index[g.at[k]].idx = k
          BY <2>1, <1>3, <1>4, <1>7 DEF HeapOK
    <2>2. ASSUME NEW k \in 2..(n - 1), ParentIdx(k) # 1 PROVE Freq(g, ParentIdx(k)) <= Freq(g, k)
      <3>1. ParentIdx(k) \in 2..(n - 1)
            BY <2>2, ParentFacts
      <3> QED BY <3>1, <1>7 DEF HeapOK
    <2> HIDE DEF g
    <2> QED BY <1>1, <1>5, <1>6, <2>1, <2>2 DEF Sifting
  <1>9. OverParent(b)
        BY DEF OverParent
  <1> DEFINE r == SwapDown(g, 1)
  <1>10. Sifting(r, n - 1, L) /\ SameItems(r.h, g, L) /\ UnderChildren(r, n - 1) /\ OverParent(r)
        BY <1>1, <1>8, <1>9, SiftDown
  <1>11. Pop(h) = Placed(r)
        BY <1>1 DEF Pop, v, x
  <1> HIDE DEF r
  <1>12. HeapOK(Placed(r), n - 1, L) /\ SameItems(Placed(r), r.h, L)
        BY <1>1, <1>10, PlacedOK
  <1>13. SameItems(Placed(r), h, L)
        BY <1>3, <1>10, <1>12 DEF SameItems
  <1> QED BY <1>11, <1>12, <1>13

\* Add takes one more item.
LEMMA AddOK ==
  ASSUME NEW n \in Nat, NEW K, NEW h, HeapOK(h, n, K), NEW c, c \notin K, NEW item \in Item
  PROVE  LET g == Add(h, c, item) IN
         /\ HeapOK(g, n + 1, K \cup {c}) /\ SameItems(g, h, K)
         /\ g.index[c].freq = item.freq /\ g.index[c].addr = item.addr
  <1> DEFINE L == K \cup {c}
             v == Append(h.at, c)
             x == [d \in DOMAIN h.index \cup {c} |-> IF Contains(h, d) THEN h.index[d] ELSE item]
             g == [at |-> v, index |-> x]
             b == [h |-> g, idx |-> n + 1]
  <1>1. /\ h \in Heaps(n, K) /\ h.at \in [1..n -> K] /\ h.index \in [K -> Item] /\ Size(h) = n
        /\ n + 1 \in Nat /\ n + 1 \in 1..(n + 1)
        BY HeapSize DEF HeapOK, Heaps
  <1>2. v \in [1..(n + 1) -> L] /\ v[n + 1] = c /\ \A k \in 1..n : v[k] = h.at[k]
    <2>1. h.at \in Seq(L) /\ Len(h.at) = n /\ c \in L
          BY <1>1, FunSeq
    <2>2. v \in Seq(L) /\ Len(v) = n + 1 /\ v[n + 1] = c /\ \A k \in 1..n : v[k] = h.at[k]
          BY <2>1, AppendProperties
    <2> HIDE DEF v
    <2> QED BY <2>2
  <1>3. x \in [L -> Item] /\ x[c] = item /\ \A d \in K : x[d] = h.index[d]
        BY <1>1 DEF Contains
  <1> HIDE DEF v, x
  <1>5. g \in Heaps(n + 1, L)
        BY <1>2, <1>3 DEF Heaps
  <1>6. OncePerKey(g, n + 1, L)
    <2>1. ASSUME NEW d \in L PROVE \E k \in 1..(n + 1) : v[k] = d
      <3>1. CASE d = c
            BY <3>1, <1>1, <1>2
      <3>2. CASE d \in K
        <4>1. PICK k \in 1..n : h.at[k] = d
              BY <3>2 DEF HeapOK, OncePerKey
        <4> QED BY <4>1, <1>2
      <3> QED BY <3>1, <3>2
    <2>2. ASSUME NEW k \in 1..(n + 1), NEW l \in 1..(n + 1), v[k] = v[l] PROVE k = l
      <3>1. \A m \in 1..n : v[m] \in K /\ v[m] = h.at[m]
            BY <1>1, <1>2
      <3>2. \A i, j \in 1..n : h.at[i] = h.at[j] => i = j
            BY DEF HeapOK, OncePerKey
      <3>3. k \in 1..n \/ k = n + 1
            OBVIOUS
      <3>4. l \in 1..n \/ l = n + 1
            OBVIOUS
      <3> QED BY <2>2, <3>1, <3>2, <3>3, <3>4, <1>2
    <2> QED BY <2>1, <2>2 DEF OncePerKey
  <1>7. \A k \in 1..n : v[k] \in K /\ v[k] = h.at[k] /\ Freq(g, k) = Freq(h, k)
        BY <1>1, <1>2, <1>3 DEF Freq
  <1>8. Sifting(b, n + 1, L)
    <2>1. ASSUME NEW k \in 1..(n + 1), k # n + 1 PROVE g.index[g.at[k]].idx = k
      <3>1. k \in 1..n
            BY <2>1
      <3> QED BY <3>1, <1>3, <1>7 DEF HeapOK
    <2>2. ASSUME NEW k \in 2..(n + 1), k # n + 1 PROVE Freq(g, ParentIdx(k)) <= Freq(g, k)
      <3>1. k \in 2..n /\ k \in 1..n /\ ParentIdx(k) \in 1..n
            BY <2>2, ParentFacts
      <3> QED BY <3>1, <1>7 DEF HeapOK
    <2>3. \A k \in 2..(n + 1) : ParentIdx(k) # n + 1
          BY ParentFacts
    <2> HIDE DEF g
    <2> QED BY <1>1, <1>5, <1>6, <2>1, <2>2, <2>3 DEF Sifting
  <1>9. UnderChildren(b, n + 1)
        BY ParentFacts DEF UnderChildren
  <1> DEFINE r == SwapUp(g, n + 1)
  <1>10. Sifting(r, n + 1, L) /\ SameItems(r.h, g, L) /\ UnderChildren(r, n + 1) /\ OverParent(r)
        BY <1>1, <1>8, <1>9, SiftUp
  <1>11. Add(h, c, item) = Placed(r)
        BY <1>1 DEF Add, v, x
  <1> HIDE DEF r
  <1>12. HeapOK(Placed(r), n + 1, L) /\ SameItems(Placed(r), r.h, L)
        BY <1>1, <1>10, PlacedOK
  <1>13. SameItems(Placed(r), h, K) /\ Placed(r).index[c].freq = item.freq /\ Placed(r).index[c].addr = item.addr
        BY <1>3, <1>10, <1>12 DEF SameItems
  <1> QED BY <1>11, <1>12, <1>13

\* Update changes one frequency, up or down.
LEMMA UpdateOK ==
  ASSUME NEW n \in Nat, NEW K, NEW h, HeapOK(h, n, K), NEW c \in K, NEW freq \in Nat
  PROVE  LET g == Update(h, c, freq) IN
         /\ HeapOK(g, n, K) /\ SameItems(g, h, K \ {c})
         /\ g.index[c].freq = freq /\ g.index[c].addr = h.index[c].addr
  <1> DEFINE i == h.index[c].idx
             g == [h EXCEPT !.index[h.at[i]].freq = freq]
             b == [h |-> g, idx |-> i]
  <1>1. h \in Heaps(n, K) /\ h.at \in [1..n -> K] /\ h.index \in [K -> Item]
        BY DEF HeapOK, Heaps
  <1>2. i \in 1..n /\ h.at[i] = c
    <2>1. PICK k \in 1..n : h.at[k] = c
          BY DEF HeapOK, OncePerKey
    <2> QED BY <2>1 DEF HeapOK
  <1> HIDE DEF i
  <1>3. g = [at |-> h.at, index |-> [h.index EXCEPT ![c].freq = freq]]
        BY <1>1, <1>2 DEF Heaps
  <1>a. h.index[c] \in Item
        BY <1>1
  <1>4. [h.index[c] EXCEPT !.freq = freq] \in Item
        BY <1>a DEF Item
  <1>5. g \in Heaps(n, K)
        BY <1>1, <1>3, <1>4 DEF Heaps
  <1>6. /\ g.at = h.at
        /\ \A d \in K : d # c => g.index[d] = h.index[d]
        /\ g.index[c].freq = freq /\ g.index[c].addr = h.index[c].addr /\ g.index[c].idx = h.index[c].idx
        BY <1>1, <1>3, <1>a DEF Item
  <1>7. SameItems(g, h, K \ {c})
        BY <1>6 DEF SameItems
  <1> HIDE DEF g
  <1>8. OncePerKey(g, n, K)
        BY <1>6 DEF HeapOK, OncePerKey
  <1>9. \A k \in 1..n : g.index[g.at[k]].idx = k
        BY <1>1, <1>6 DEF HeapOK
  <1>10. \A k \in 1..n : k # i => Freq(g, k) = Freq(h, k)
    <2> TAKE k \in 1..n
    <2> HAVE k # i
    <2>1. h.at[k] # c /\ h.at[k] \in K
          BY <1>1, <1>2 DEF HeapOK, OncePerKey
    <2> QED BY <2>1, <1>6 DEF Freq
  <1>11. ASSUME NEW k \in 2..n, k # i, ParentIdx(k) # i PROVE Freq(g, ParentIdx(k)) <= Freq(g, k)
    <2>1. ParentIdx(k) \in 1..n
          BY ParentFacts
    <2> QED BY <2>1, <1>10, <1>11 DEF HeapOK
  <1>12. ASSUME NEW k \in 2..n, ParentIdx(k) = i, i > 1 PROVE Freq(g, ParentIdx(i)) <= Freq(g, k)
    <2>1. ParentIdx(i) \in 1..n /\ ParentIdx(i) < i /\ i < k /\ i \in 2..n
          BY <1>2, <1>12, ParentFacts
    <2>2. Freq(h, ParentIdx(i)) <= Freq(h, i) /\ Freq(h, i) <= Freq(h, k)
          BY <2>1, <1>12 DEF HeapOK
    <2>3. Freq(h, ParentIdx(i)) \in Nat /\ Freq(h, i) \in Nat /\ Freq(h, k) \in Nat
          BY <1>1, <1>2, <2>1, FreqNat
    <2>4. Freq(g, ParentIdx(i)) = Freq(h, ParentIdx(i)) /\ Freq(g, k) = Freq(h, k)
          BY <2>1, <1>10
    <2> QED BY <2>2, <2>3, <2>4
  <1>13. Sifting(b, n, K)
        BY <1>2, <1>5, <1>8, <1>9, <1>11, <1>12 DEF Sifting
  <1> DEFINE u == SwapUp(g, i)
             r == SwapDown(u.h, u.idx)
  <1>14. Sifting(u, n, K) /\ SameItems(u.h, g, K) /\ OverParent(u)
        BY <1>13, SiftUp
  <1>15. u = [h |-> u.h, idx |-> u.idx]
        BY <1>14 DEF Sifting
  <1> HIDE DEF u
  <1>16. Sifting(r, n, K) /\ SameItems(r.h, u.h, K) /\ UnderChildren(r, n) /\ OverParent(r)
    <2> DEFINE uh == u.h
               ui == u.idx
    <2>1. u = [h |-> uh, idx |-> ui]
          BY <1>15
    <2> HIDE DEF uh, ui
    <2>2. Sifting([h |-> uh, idx |-> ui], n, K) /\ OverParent([h |-> uh, idx |-> ui])
          BY <1>14, <2>1
    <2>3. LET q == SwapDown(uh, ui) IN
          Sifting(q, n, K) /\ SameItems(q.h, uh, K) /\ UnderChildren(q, n) /\ OverParent(q)
          BY <2>2, SiftDown
    <2> QED BY <2>3 DEF uh, ui
  <1>17. Update(h, c, freq) = Placed(r)
        BY DEF Update, g, i, u
  <1> HIDE DEF r
  <1>18. HeapOK(Placed(r), n, K) /\ SameItems(Placed(r), r.h, K)
        BY <1>16, PlacedOK
  <1>19. /\ SameItems(Placed(r), h, K \ {c})
         /\ Placed(r).index[c].freq = freq /\ Placed(r).index[c].addr = h.index[c].addr
        BY <1>6, <1>7, <1>14, <1>16, <1>18 DEF SameItems
  <1> QED BY <1>17, <1>18, <1>19

-----------------------------------------------------------------------------
(* The heap of a batch.                                                    *)

\* A heap of chunks within the limit, with frequencies and addresses such as
\* F and A allow for each chunk.
Within(h, F, A) ==
  \E n \in 0..TopK : \E K \in SUBSET Chunks :
    HeapOK(h, n, K) /\ \A d \in K : <<d, h.index[d].freq>> \in F /\ <<d, h.index[d].addr>> \in A

LEMMA RefreshedOK ==
  ASSUME NEW F, NEW A, NEW h, Within(h, F, A),
         NEW c \in Chunks, NEW freq \in Nat, NEW addr \in Addr, <<c, freq>> \in F, <<c, addr>> \in A
  PROVE  Within(Refreshed(h, c, freq, addr), F, A)
  <1>a. TopK \in Nat /\ TopK >= 2
        BY TopKAssumption
  <1>1. PICK n \in 0..TopK, K \in SUBSET Chunks :
          HeapOK(h, n, K) /\ \A d \in K : <<d, h.index[d].freq>> \in F /\ <<d, h.index[d].addr>> \in A
        BY DEF Within
  <1>2. h \in Heaps(n, K) /\ Size(h) = n /\ DOMAIN h.index = K /\ n \in Nat
        BY <1>1, <1>a, HeapSize DEF HeapOK, Heaps
  <1> DEFINE item == [freq |-> freq, idx |-> 0, addr |-> addr]
             full == IF Size(h) = TopK THEN Pop(h) ELSE h
  <1>i. item \in Item /\ item.freq = freq /\ item.addr = addr
        BY DEF Item
  <1> HIDE DEF item
  <1>3. CASE ~(Size(h) < TopK \/ freq >= TopEntry(h))
        BY <1>3 DEF Refreshed
  <1>4. CASE (Size(h) < TopK \/ freq >= TopEntry(h)) /\ c \in K
    <2>1. Refreshed(h, c, freq, addr) = Update(h, c, freq)
          BY <1>2, <1>4 DEF Refreshed, Contains
    <2> DEFINE g == Update(h, c, freq)
    <2>2. /\ HeapOK(g, n, K) /\ SameItems(g, h, K \ {c})
          /\ g.index[c].freq = freq /\ g.index[c].addr = h.index[c].addr
          BY <1>1, <1>2, <1>4, UpdateOK
    <2> HIDE DEF g
    <2>3. \A d \in K : <<d, g.index[d].freq>> \in F /\ <<d, g.index[d].addr>> \in A
          BY <1>1, <2>2 DEF SameItems
    <2> QED BY <2>1, <2>2, <2>3 DEF Within, g
  <1>5. CASE (Size(h) < TopK \/ freq >= TopEntry(h)) /\ c \notin K
    <2>1. Refreshed(h, c, freq, addr) = Add(full, c, item)
          BY <1>2, <1>5 DEF Refreshed, Contains, item
    <2>2. PICK m \in 0..(TopK - 1), L \in SUBSET K : HeapOK(full, m, L) /\ SameItems(full, h, L)
      <3>1. CASE n = TopK
        <4> DEFINE L == K \ {h.at[1]}
        <4>1. HeapOK(Pop(h), n - 1, L) /\ SameItems(Pop(h), h, L)
              BY <1>1, <1>2, <1>a, <3>1, PopOK
        <4>2. full = Pop(h) /\ n - 1 \in 0..(TopK - 1)
              BY <1>2, <1>a, <3>1
        <4> QED BY <4>1, <4>2
      <3>2. CASE n # TopK
        <4>1. full = h /\ n \in 0..(TopK - 1) /\ SameItems(h, h, K)
              BY <1>2, <1>a, <3>2 DEF SameItems
        <4> QED BY <4>1, <1>1
      <3> QED BY <3>1, <3>2
    <2> HIDE DEF full
    <2> DEFINE g == Add(full, c, item)
               M == L \cup {c}
    <2>3. /\ HeapOK(g, m + 1, M) /\ SameItems(g, full, L)
          /\ g.index[c].freq = freq /\ g.index[c].addr = addr
      <3>1. m \in Nat /\ c \notin L
            BY <1>5, <1>a
      <3>2. LET d == Add(full, c, item) IN
            /\ HeapOK(d, m + 1, L \cup {c}) /\ SameItems(d, full, L)
            /\ d.index[c].freq = item.freq /\ d.index[c].addr = item.addr
            BY <3>1, <1>i, <2>2, AddOK
      <3> QED BY <3>2, <1>i
    <2> HIDE DEF g
    <2>4. \A d \in M : <<d, g.index[d].freq>> \in F /\ <<d, g.index[d].addr>> \in A
          BY <1>1, <2>2, <2>3 DEF SameItems
    <2>5. m + 1 \in 0..TopK /\ M \in SUBSET Chunks
          BY <1>a
    <2> QED BY <2>1, <2>3, <2>4, <2>5 DEF Within, g
  <1> QED BY <1>3, <1>4, <1>5

LEMMA HeapAfterOK ==
  ASSUME NEW F, NEW A, Within(heap, F, A), NEW b \in Seq(Chunks),
         \A i \in FirstSeen(b) :
            /\ Freqs(b)[LastSeen(b, i)] \in Nat /\ <<b[i], Freqs(b)[LastSeen(b, i)]>> \in F
            /\ AddrOf(b, i) \in Addr /\ <<b[i], AddrOf(b, i)>> \in A
  PROVE  Within(HeapAfter(b), F, A)
  <1>1. Len(b) \in Nat
        OBVIOUS
  <1>2. PICK s : s[0] = heap /\ (\A k \in 1..Len(b) : s[k] = HeapRound(b, s[k - 1], k)) /\ HeapAfter(b) = s[Len(b)]
        BY <1>1, HeapRounds
  <1> DEFINE T == {k \in 0..Len(b) : Within(s[k], F, A)}
  <1>3. 0 \in T
        BY <1>1, <1>2
  <1>4. ASSUME NEW k \in 1..Len(b), k - 1 \in T PROVE k \in T
    <2>1. Within(s[k - 1], F, A) /\ s[k] = HeapRound(b, s[k - 1], k)
          BY <1>2, <1>4
    <2>2. CASE k \in FirstSeen(b)
      <3>1. s[k] = Refreshed(s[k - 1], b[k], Freqs(b)[LastSeen(b, k)], AddrOf(b, k))
            BY <2>1, <2>2 DEF HeapRound
      <3>2. b[k] \in Chunks
            OBVIOUS
      <3>3. Within(s[k], F, A)
            BY <2>1, <2>2, <3>1, <3>2, RefreshedOK
      <3> QED BY <3>3
    <2>3. CASE k \notin FirstSeen(b)
          BY <2>1, <2>3 DEF HeapRound
    <2> QED BY <2>2, <2>3
  <1>5. Len(b) \in T
    <2> DEFINE n == Len(b)
    <2>1. n \in Nat /\ n \in 0..n /\ \A k \in 1..n : k - 1 \in T => k \in T
          BY <1>1, <1>4
    <2> HIDE DEF T, n
    <2>2. 0..n \subseteq T
          BY <2>1, <1>3, Rounds
    <2> QED BY <2>1, <2>2 DEF n
  <1> QED BY <1>2, <1>5

\* What a caller of the heap may rely on.
LEMMA WithinSound ==
  ASSUME NEW F, NEW A, Within(heap, F, A)
  PROVE  /\ HeapSound
         /\ \A c \in DOMAIN heap.index :
              c \in Chunks /\ <<c, heap.index[c].freq>> \in F /\ <<c, heap.index[c].addr>> \in A
         /\ \A c \in DOMAIN heap.index : heap.index[c] \in Item
  <1>1. PICK n \in 0..TopK, K \in SUBSET Chunks :
          HeapOK(heap, n, K) /\ \A d \in K : <<d, heap.index[d].freq>> \in F /\ <<d, heap.index[d].addr>> \in A
        BY DEF Within
  <1>2. n \in Nat
        BY TopKAssumption
  <1>3. /\ heap \in Heaps(n, K) /\ Size(heap) = n /\ DOMAIN heap.index = K /\ DOMAIN heap.at = 1..n
        /\ heap.at \in [1..n -> K] /\ heap.index \in [K -> Item]
        BY <1>1, <1>2, HeapSize DEF HeapOK, Heaps
  <1>4. K = {heap.at[i] : i \in 1..n}
        BY <1>1, <1>3 DEF HeapOK, OncePerKey
  <1>5. HeapSound
    <2>1. n <= TopK
          BY TopKAssumption
    <2>2. \A i \in 1..n : heap.index[heap.at[i]].idx = i
          BY <1>1 DEF HeapOK
    <2>3. \A i \in 2..n : Freq(heap, ParentIdx(i)) <= Freq(heap, i)
          BY <1>1 DEF HeapOK
    <2> QED BY <2>1, <2>2, <2>3, <1>3, <1>4 DEF HeapSound
  <1> QED BY <1>1, <1>3, <1>5

-----------------------------------------------------------------------------
(* The sketch.                                                             *)

Rows == [1..Width -> Nat]
Sketches == [1..Depth -> Rows]

\* No counter of r is below that of q.
Covers(r, q) == \A d \in 1..Depth : \A w \in 1..Width : q[d][w] <= r[d][w]

LEMMA Positions ==
  ASSUME NEW s \in Seq(Chunks), NEW d, NEW w
  PROVE  LET P == {i \in DOMAIN s : Column[d][s[i]] = w} IN
         IsFiniteSet(P) /\ Cardinality(P) \in Nat
  <1> DEFINE P == {i \in DOMAIN s : Column[d][s[i]] = w}
  <1>1. IsFiniteSet(1..Len(s))
        BY FS_Interval
  <1>2. P \subseteq 1..Len(s)
        OBVIOUS
  <1> HIDE DEF P
  <1>3. IsFiniteSet(P)
        BY <1>1, <1>2, FS_Subset
  <1> QED BY <1>3, FS_CardinalityType DEF P

LEMMA CountedType ==
  ASSUME NEW sk \in Sketches, NEW s \in Seq(Chunks)
  PROVE  Counted(sk, s) \in Sketches /\ Covers(Counted(sk, s), sk)
  <1> DEFINE n(d, w) == Cardinality({i \in DOMAIN s : Column[d][s[i]] = w})
  <1>1. \A d \in 1..Depth : \A w \in 1..Width : n(d, w) \in Nat
        BY Positions
  <1>2. Counted(sk, s) = [d \in 1..Depth |-> [w \in 1..Width |-> sk[d][w] + n(d, w)]]
        BY DEF Counted
  <1> HIDE DEF n
  <1>3. \A d \in 1..Depth : \A w \in 1..Width : sk[d][w] \in Nat /\ sk[d][w] + n(d, w) \in Nat
    <2>1. \A d \in 1..Depth : \A w \in 1..Width : sk[d][w] \in Nat
          BY DEF Sketches, Rows
    <2> QED BY <2>1, <1>1
  <1>4. Counted(sk, s) \in Sketches
        BY <1>2, <1>3 DEF Sketches, Rows
  <1>5. Covers(Counted(sk, s), sk)
        BY <1>1, <1>2, <1>3 DEF Covers
  <1> QED BY <1>4, <1>5

\* A batch counted to its end covers what was counted on the way.
LEMMA CountedGrows ==
  ASSUME NEW sk \in Sketches, NEW s \in Seq(Chunks), NEW k \in 1..Len(s)
  PROVE  SubSeq(s, 1, k) \in Seq(Chunks) /\ Covers(Counted(sk, s), Counted(sk, SubSeq(s, 1, k)))
  <1> DEFINE t == SubSeq(s, 1, k)
  <1>1. t = [i \in 1..k |-> s[i]]
        OBVIOUS
  <1>2. t \in Seq(Chunks) /\ DOMAIN t = 1..k /\ \A i \in 1..k : t[i] = s[i]
    <2> HIDE DEF t
    <2>a. \A i \in 1..k : s[i] \in Chunks
          OBVIOUS
    <2>1. t \in [1..k -> Chunks]
          BY <1>1, <2>a
    <2> QED BY <2>1, <1>1, FunSeq
  <1> HIDE DEF t
  <1> SUFFICES ASSUME NEW d \in 1..Depth, NEW w \in 1..Width
               PROVE  Counted(sk, t)[d][w] <= Counted(sk, s)[d][w]
      BY <1>2 DEF Covers, t
  <1> DEFINE P == {i \in DOMAIN s : Column[d][s[i]] = w}
             Q == {i \in DOMAIN t : Column[d][t[i]] = w}
  <1>3. IsFiniteSet(P) /\ Cardinality(P) \in Nat
        BY Positions
  <1>4. Q \subseteq P
        BY <1>2
  <1>5. Counted(sk, t)[d][w] = sk[d][w] + Cardinality(Q) /\ Counted(sk, s)[d][w] = sk[d][w] + Cardinality(P)
        BY DEF Counted
  <1> HIDE DEF P, Q
  <1>6. Cardinality(Q) <= Cardinality(P) /\ Cardinality(Q) \in Nat
        BY <1>3, <1>4, FS_Subset, FS_CardinalityType
  <1>7. sk[d][w] \in Nat
        BY DEF Sketches, Rows
  <1> QED BY <1>3, <1>5, <1>6, <1>7

\* A set of numbers has a least element, a set of positions a greatest.
LEMMA MinOK ==
  ASSUME NEW S \in SUBSET Nat, S # {}
  PROVE  Min(S) \in S /\ \A y \in S : Min(S) <= y
  <1>1. PICK x \in S : \A y \in S : ~(<<y, x>> \in OpToRel(<, Nat))
        BY WFMin, NatLessThanWellFounded
  <1>2. \A y \in S : ~(y < x)
        BY <1>1, Zenon DEF OpToRel
  <1>3. \A y \in S : x <= y
        BY <1>2
  <1> QED BY <1>3 DEF Min

LEMMA MaxOK ==
  ASSUME NEW n \in Nat, NEW S \in SUBSET (1..n), S # {}
  PROVE  Max(S) \in S
  <1> DEFINE T == {n - i : i \in S}
  <1>1. T \in SUBSET Nat /\ T # {}
    <2>1. \A i \in S : n - i \in Nat
          OBVIOUS
    <2> QED BY <2>1
  <1>2. Min(T) \in T /\ \A y \in T : Min(T) <= y
        BY <1>1, MinOK
  <1>3. PICK m \in S : Min(T) = n - m
        BY <1>2
  <1>4. \A j \in S : n - m <= n - j
        BY <1>2, <1>3
  <1>5. \A j \in S : m >= j
        BY <1>4
  <1> QED BY <1>5 DEF Max

LEMMA EstimateOK ==
  ASSUME NEW sk \in Sketches, NEW c \in Chunks
  PROVE  /\ Estimate(sk, c) \in Nat
         /\ \E d \in 1..Depth : Estimate(sk, c) = sk[d][Column[d][c]]
         /\ \A d \in 1..Depth : Estimate(sk, c) <= sk[d][Column[d][c]]
  <1> DEFINE S == {sk[d][Column[d][c]] : d \in 1..Depth}
  <1>1. \A d \in 1..Depth : Column[d][c] \in 1..Width
        BY TopKAssumption
  <1>2. S \in SUBSET Nat
    <2>1. \A d \in 1..Depth : \A w \in 1..Width : sk[d][w] \in Nat
          BY DEF Sketches, Rows
    <2> QED BY <1>1, <2>1
  <1>3. S # {}
    <2>1. 1 \in 1..Depth
          BY TopKAssumption
    <2> QED BY <2>1
  <1>4. Estimate(sk, c) = Min(S)
        BY DEF Estimate
  <1>5. Min(S) \in S /\ \A y \in S : Min(S) <= y
        BY <1>2, <1>3, MinOK
  <1> QED BY <1>2, <1>4, <1>5

LEMMA EstimateGrows ==
  ASSUME NEW sk \in Sketches, NEW tk \in Sketches, Covers(tk, sk), NEW c \in Chunks
  PROVE  Estimate(sk, c) <= Estimate(tk, c)
  <1>1. PICK d \in 1..Depth : Estimate(tk, c) = tk[d][Column[d][c]]
        BY EstimateOK
  <1>2. Column[d][c] \in 1..Width
        BY TopKAssumption
  <1>3. sk[d][Column[d][c]] <= tk[d][Column[d][c]] /\ sk[d][Column[d][c]] \in Nat /\ tk[d][Column[d][c]] \in Nat
        BY <1>2 DEF Covers, Sketches, Rows
  <1>4. Estimate(sk, c) <= sk[d][Column[d][c]] /\ Estimate(sk, c) \in Nat
        BY EstimateOK
  <1> QED BY <1>1, <1>3, <1>4

\* The frequency a chunk of a batch goes into the heap with.
LEMMA FreqsOK ==
  ASSUME sketch \in Sketches, NEW b \in Seq(Chunks), NEW i \in DOMAIN b
  PROVE  LET f == Freqs(b)[LastSeen(b, i)] IN
         f \in Nat /\ f <= Estimate(Counted(sketch, b), b[i])
  <1> DEFINE S == {j \in DOMAIN b : b[j] = b[i]}
             l == LastSeen(b, i)
  <1>1. l \in S
    <2>1. Len(b) \in Nat /\ S \in SUBSET (1..Len(b)) /\ i \in S
          OBVIOUS
    <2> HIDE DEF S
    <2>2. Max(S) \in S
          BY <2>1, MaxOK
    <2> QED BY <2>2 DEF LastSeen, S
  <1>2. l \in 1..Len(b) /\ l \in DOMAIN b /\ b[l] = b[i] /\ b[l] \in Chunks
        BY <1>1
  <1> HIDE DEF l, S
  <1> DEFINE sk == Counted(sketch, SubSeq(b, 1, l))
  <1>3. Freqs(b)[l] = Estimate(sk, b[l])
        BY <1>2 DEF Freqs
  <1>4. sk \in Sketches /\ Counted(sketch, b) \in Sketches /\ Covers(Counted(sketch, b), sk)
        BY <1>2, CountedGrows, CountedType
  <1> HIDE DEF sk
  <1>5. Estimate(sk, b[l]) \in Nat /\ Estimate(sk, b[l]) <= Estimate(Counted(sketch, b), b[l])
        BY <1>2, <1>4, EstimateOK, EstimateGrows
  <1> QED BY <1>2, <1>3, <1>5 DEF l

-----------------------------------------------------------------------------
(* Saving the chunks of a batch.                                           *)

Recs == [chunk : Chunks, key : Nat]
Bodies == {s \in Seq(Recs) : Len(s) <= ContainerMax}
Containers == [name : Nat, body : Bodies]
IsDisk(dk) == dk \in [DOMAIN dk -> Bodies] /\ DOMAIN dk \subseteq Nat
IsIndex(ix) == ix \in [DOMAIN ix -> Addr] /\ DOMAIN ix \subseteq Chunks \X Nat

\* Record r is at address a, in a file or in the open container cu.
At(dk, cu, a, r) ==
  \/ a[1] \in DOMAIN dk /\ a[2] \in DOMAIN dk[a[1]] /\ dk[a[1]][a[2]] = r
  \/ cu.name = a[1] /\ a[2] \in DOMAIN cu.body /\ cu.body[a[2]] = r

\* Files with records of key k have names drawn by now, not that of cu.
NamesOK(dk, cu, t, k) ==
  \A n \in DOMAIN dk : \A i \in DOMAIN dk[n] : dk[n][i].key = k => 0 < n /\ n < t /\ n # cu.name

\* No record was encrypted with a key of a later start than m.
KeysUpTo(dk, cu, m) ==
  /\ \A n \in DOMAIN dk : \A i \in DOMAIN dk[n] : dk[n][i].key <= m
  /\ \A i \in DOMAIN cu.body : cu.body[i].key <= m

LEMMA EmptyBody == <<>> \in Bodies /\ DOMAIN <<>> = {}
  <1>1. <<>> \in Seq(Recs) /\ Len(<<>>) = 0 /\ DOMAIN <<>> = {}
        BY EmptySeq
  <1> QED BY <1>1, TopKAssumption DEF Bodies

\* A container goes out under its name, an empty one takes its place.
LEMMA RollOK ==
  ASSUME NEW dk, IsDisk(dk), NEW cu \in Containers, NEW t \in Nat, 0 < cu.name, cu.name < t,
         NEW k, NamesOK(dk, cu, t, k), NEW m \in Nat, KeysUpTo(dk, cu, m),
         NEW x \in Nat, x = 0 \/ x >= t, NEW u \in Nat, u >= t
  PROVE  LET w == Written(dk, cu)
             e == [name |-> x, body |-> <<>>]
         IN  /\ IsDisk(w) /\ e \in Containers /\ NamesOK(w, e, u, k) /\ KeysUpTo(w, e, m)
             /\ \A a, r : r.key = k => (At(w, e, a, r) <=> At(dk, cu, a, r))
  <1> DEFINE w == Written(dk, cu)
             e == [name |-> x, body |-> <<>>]
  <1>1. /\ DOMAIN w = DOMAIN dk \cup {cu.name} /\ w[cu.name] = cu.body
        /\ \A n \in DOMAIN dk : n # cu.name => w[n] = dk[n]
        BY DEF Written
  <1>2. cu.name \in Nat /\ cu.body \in Bodies
        BY DEF Containers
  <1>3. IsDisk(w)
    <2>1. w \in [DOMAIN dk \cup {cu.name} -> Bodies]
          BY <1>2 DEF IsDisk, Written
    <2> QED BY <2>1, <1>1, <1>2 DEF IsDisk
  <1> HIDE DEF w
  <1>4. e \in Containers /\ e.name = x /\ DOMAIN e.body = {}
        BY EmptyBody DEF Containers
  <1> HIDE DEF e
  <1>5. NamesOK(w, e, u, k)
    <2> SUFFICES ASSUME NEW n \in DOMAIN w, NEW i \in DOMAIN w[n], w[n][i].key = k
                 PROVE  0 < n /\ n < u /\ n # x
        BY <1>4 DEF NamesOK
    <2>1. n \in Nat
          BY <1>3 DEF IsDisk
    <2>2. CASE n = cu.name
          BY <2>2, <1>2
    <2>3. CASE n # cu.name
      <3>1. n \in DOMAIN dk /\ w[n] = dk[n]
            BY <2>3, <1>1
      <3>2. 0 < n /\ n < t
            BY <3>1 DEF NamesOK
      <3> QED BY <2>1, <3>2
    <2> QED BY <2>2, <2>3
  <1>6. KeysUpTo(w, e, m)
    <2>1. ASSUME NEW n \in DOMAIN w, NEW i \in DOMAIN w[n] PROVE w[n][i].key <= m
          BY <2>1, <1>1 DEF KeysUpTo
    <2> QED BY <2>1, <1>4 DEF KeysUpTo
  <1>7. ASSUME NEW a, NEW r, r.key = k PROVE At(w, e, a, r) <=> At(dk, cu, a, r)
    <2>1. ASSUME At(w, e, a, r) PROVE At(dk, cu, a, r)
      <3>1. a[1] \in DOMAIN w /\ a[2] \in DOMAIN w[a[1]] /\ w[a[1]][a[2]] = r
            BY <2>1, <1>4 DEF At
      <3> QED BY <3>1, <1>1 DEF At
    <2>2. ASSUME At(dk, cu, a, r) PROVE At(w, e, a, r)
      <3>1. CASE a[1] \in DOMAIN dk /\ a[2] \in DOMAIN dk[a[1]] /\ dk[a[1]][a[2]] = r
        <4>1. a[1] # cu.name
              BY <3>1, <1>7 DEF NamesOK
        <4> QED BY <4>1, <3>1, <1>1 DEF At
      <3>2. CASE cu.name = a[1] /\ a[2] \in DOMAIN cu.body /\ cu.body[a[2]] = r
            BY <3>2, <1>1 DEF At
      <3> QED BY <2>2, <3>1, <3>2 DEF At
    <2> QED BY <2>1, <2>2
  <1> QED BY <1>3, <1>4, <1>5, <1>6, <1>7 DEF w, e

\* A chunk goes to the end of the open container.
LEMMA PutOK ==
  ASSUME NEW dk, NEW cu \in Containers, Len(cu.body) < ContainerMax, NEW r0 \in Recs,
         NEW m \in Nat, KeysUpTo(dk, cu, m), r0.key <= m
  PROVE  LET e == [cu EXCEPT !.body = Append(@, r0)]
         IN  /\ e \in Containers /\ e.name = cu.name /\ KeysUpTo(dk, e, m)
             /\ <<cu.name, Len(cu.body) + 1>> \in Addr
             /\ \A a \in Addr : \A r : At(dk, e, a, r) <=>
                   \/ At(dk, cu, a, r)
                   \/ a = <<cu.name, Len(cu.body) + 1>> /\ r = r0
  <1> DEFINE e == [cu EXCEPT !.body = Append(@, r0)]
             n == Len(cu.body)
             v == Append(cu.body, r0)
  <1>1. cu.name \in Nat /\ cu.body \in Bodies /\ cu.body \in Seq(Recs) /\ n \in Nat /\ DOMAIN cu.body = 1..n
        BY DEF Containers, Bodies
  <1>2. e = [name |-> cu.name, body |-> v]
        BY DEF Containers
  <1>3. v \in Seq(Recs) /\ Len(v) = n + 1 /\ v[n + 1] = r0 /\ (\A i \in 1..n : v[i] = cu.body[i]) /\ DOMAIN v = 1..(n + 1)
        BY <1>1, AppendProperties
  <1>4. e \in Containers /\ e.name = cu.name /\ e.body = v
        BY <1>1, <1>2, <1>3, TopKAssumption DEF Containers, Bodies
  <1>5. <<cu.name, n + 1>> \in Addr
        BY <1>1 DEF Addr
  <1> HIDE DEF e, v, n
  <1>6. KeysUpTo(dk, e, m)
    <2>1. ASSUME NEW i \in 1..(n + 1) PROVE v[i].key <= m
      <3>1. i \in 1..n \/ i = n + 1
            BY <1>1
      <3> QED BY <3>1, <1>1, <1>3 DEF KeysUpTo
    <2> QED BY <2>1, <1>3, <1>4 DEF KeysUpTo
  <1>7. ASSUME NEW a \in Addr, NEW r
        PROVE  At(dk, e, a, r) <=> At(dk, cu, a, r) \/ (a = <<cu.name, n + 1>> /\ r = r0)
    <2>1. a = <<a[1], a[2]>> /\ a[1] \in Nat /\ a[2] \in Nat
          BY DEF Addr
    <2>2. a[2] \in 1..(n + 1) <=> a[2] \in 1..n \/ a[2] = n + 1
          BY <1>1, <2>1
    <2>3. n + 1 \notin 1..n
          BY <1>1
    <2> QED BY <2>1, <2>2, <2>3, <1>1, <1>3, <1>4 DEF At
  <1> QED BY <1>4, <1>5, <1>6, <1>7 DEF e, n

Rec(c) == [chunk |-> c, key |-> key]

\* What saving relies on: the open container has a name of its own that was
\* drawn, and no later key than the present one was used.
GoodStore(dk, cu, t) ==
  /\ IsDisk(dk) /\ cu \in Containers /\ t \in Nat /\ 0 < cu.name /\ cu.name < t
  /\ NamesOK(dk, cu, t, key) /\ KeysUpTo(dk, cu, key)

LEMMA SaveOK ==
  ASSUME key \in Nat, NEW st, GoodStore(st.disk, st.cur, st.conTimes), NEW c \in Chunks
  PROVE  LET g == SaveChunk(st, c) IN
         /\ GoodStore(g.disk, g.cur, g.conTimes)
         /\ DOMAIN g.addr = DOMAIN st.addr \cup {c} /\ g.addr[c] \in Addr
         /\ \A d \in DOMAIN st.addr : d # c => g.addr[d] = st.addr[d]
         /\ \A a \in Addr : \A d \in Chunks :
              At(g.disk, g.cur, a, Rec(d)) <=> At(st.disk, st.cur, a, Rec(d)) \/ (a = g.addr[c] /\ d = c)
  <1> DEFINE dk == st.disk
             cu == st.cur
             t == st.conTimes
             full == Len(cu.body) = ContainerMax
             fresh == [name |-> t, body |-> <<>>]
             open == IF full THEN fresh ELSE cu
             files == IF full THEN Written(dk, cu) ELSE dk
             u == IF full THEN t + 1 ELSE t
             r0 == Rec(c)
             e == [open EXCEPT !.body = Append(@, r0)]
             a0 == <<open.name, Len(open.body) + 1>>
             g == SaveChunk(st, c)
  <1>1. g = [cur |-> e, conTimes |-> u, disk |-> files,
             addr |-> [d \in DOMAIN st.addr \cup {c} |-> IF d = c THEN a0 ELSE st.addr[d]]]
        BY DEF SaveChunk, Rec
  <1>2. /\ g.cur = e /\ g.conTimes = u /\ g.disk = files /\ g.addr[c] = a0
        /\ DOMAIN g.addr = DOMAIN st.addr \cup {c}
        /\ \A d \in DOMAIN st.addr : d # c => g.addr[d] = st.addr[d]
    <2> HIDE DEF e, u, files, a0, g
    <2> QED BY <1>1
  <1>3. r0 \in Recs /\ r0.key = key
        BY DEF Rec, Recs
  <1>4. \A d \in Chunks : Rec(d).key = key /\ (Rec(d) = r0 <=> d = c)
        BY DEF Rec
  <1> HIDE DEF dk, cu, t, g, r0
  <1>5. /\ IsDisk(dk) /\ cu \in Containers /\ t \in Nat /\ 0 < cu.name /\ cu.name < t
        /\ NamesOK(dk, cu, t, key) /\ KeysUpTo(dk, cu, key)
        BY DEF GoodStore, dk, cu, t
  <1>6. cu.name \in Nat /\ Len(cu.body) \in Nat /\ Len(cu.body) <= ContainerMax
        BY <1>5 DEF Containers, Bodies
  <1>7. /\ IsDisk(files) /\ open \in Containers /\ u \in Nat /\ 0 < open.name /\ open.name < u
        /\ NamesOK(files, open, u, key) /\ KeysUpTo(files, open, key)
        /\ Len(open.body) < ContainerMax
        /\ \A a, r : r.key = key => (At(files, open, a, r) <=> At(dk, cu, a, r))
    <2>1. CASE full
      <3>1. t + 1 \in Nat /\ t + 1 >= t /\ t >= t
            BY <1>5
      <3>2. /\ IsDisk(Written(dk, cu)) /\ fresh \in Containers
            /\ NamesOK(Written(dk, cu), fresh, t + 1, key) /\ KeysUpTo(Written(dk, cu), fresh, key)
            /\ \A a, r : r.key = key => (At(Written(dk, cu), fresh, a, r) <=> At(dk, cu, a, r))
            BY <1>5, <3>1, RollOK
      <3>3. 0 < fresh.name /\ fresh.name < t + 1
            BY <1>5, <1>6
      <3>4. Len(fresh.body) < ContainerMax
            BY EmptySeq, TopKAssumption
      <3> HIDE DEF fresh
      <3> QED BY <2>1, <3>1, <3>2, <3>3, <3>4
    <2>2. CASE ~full
          BY <2>2, <1>5, <1>6, TopKAssumption
    <2> QED BY <2>1, <2>2
  <1> HIDE DEF open, files, u, full
  <1>8. /\ e \in Containers /\ e.name = open.name /\ KeysUpTo(files, e, key) /\ a0 \in Addr
        /\ \A a \in Addr : \A r : At(files, e, a, r) <=> At(files, open, a, r) \/ (a = a0 /\ r = r0)
    <2>1. key <= key
          OBVIOUS
    <2> QED BY <1>3, <1>7, <2>1, PutOK
  <1> HIDE DEF e, a0
  <1>9. NamesOK(files, e, u, key)
        BY <1>7, <1>8 DEF NamesOK
  <1>10. GoodStore(files, e, u)
        BY <1>7, <1>8, <1>9 DEF GoodStore
  <1>11. ASSUME NEW a \in Addr, NEW d \in Chunks
         PROVE  At(files, e, a, Rec(d)) <=> At(dk, cu, a, Rec(d)) \/ (a = a0 /\ d = c)
         BY <1>4, <1>7, <1>8
  <1> QED BY <1>2, <1>8, <1>10, <1>11 DEF g, dk, cu

\* The chunks of a batch that are new are stored once each, nothing else is.
LEMMA StoredOK ==
  ASSUME key \in Nat, GoodStore(disk, cur, conTimes), NEW b \in Seq(Chunks)
  PROVE  LET st == Stored(b) IN
         /\ GoodStore(st.disk, st.cur, st.conTimes)
         /\ DOMAIN st.addr = {b[i] : i \in Unique(b)}
         /\ \A c \in DOMAIN st.addr : st.addr[c] \in Addr
         /\ \A a \in Addr : \A c \in Chunks :
              At(st.disk, st.cur, a, Rec(c)) <=>
                At(disk, cur, a, Rec(c)) \/ (c \in DOMAIN st.addr /\ a = st.addr[c])
  <1> DEFINE n == Len(b)
             Upto(k) == {i \in Unique(b) : i <= k}
             Good(st, k) ==
               /\ GoodStore(st.disk, st.cur, st.conTimes)
               /\ DOMAIN st.addr = {b[i] : i \in Upto(k)}
               /\ \A c \in DOMAIN st.addr : st.addr[c] \in Addr
               /\ \A a \in Addr : \A c \in Chunks :
                    At(st.disk, st.cur, a, Rec(c)) <=>
                      At(disk, cur, a, Rec(c)) \/ (c \in DOMAIN st.addr /\ a = st.addr[c])
  <1>1. n \in Nat /\ DOMAIN b = 1..n /\ (\A i \in 1..n : b[i] \in Chunks)
        OBVIOUS
  <1>2. Unique(b) \subseteq 1..n /\ (\A i \in Unique(b) : \A j \in 1..(i - 1) : b[j] # b[i])
        BY <1>1 DEF Unique, FirstSeen
  <1>3. PICK s : /\ s[0] = [cur |-> cur, conTimes |-> conTimes, disk |-> disk, addr |-> <<>>]
                 /\ \A k \in 1..n : s[k] = StoreRound(b, s[k - 1], k)
                 /\ Stored(b) = s[n]
        BY <1>1, StoreRounds
  <1> DEFINE A == {k \in 0..n : Good(s[k], k)}
  <1>4. 0 \in A
    <2>1. s[0].cur = cur /\ s[0].conTimes = conTimes /\ s[0].disk = disk /\ DOMAIN s[0].addr = {}
          BY <1>3, EmptySeq
    <2>2. Upto(0) = {}
          BY <1>1, <1>2
    <2>3. 0 \in 0..n
          BY <1>1
    <2> QED BY <2>1, <2>2, <2>3
  <1>5. ASSUME NEW k \in 1..n, k - 1 \in A PROVE k \in A
    <2> DEFINE st == s[k - 1]
               g == s[k]
    <2>1. Good(st, k - 1) /\ g = StoreRound(b, st, k) /\ k \in 0..n
          BY <1>1, <1>3, <1>5
    <2> HIDE DEF st, g
    <2>2. CASE k \in Unique(b)
      <3>1. g = SaveChunk(st, b[k]) /\ b[k] \in Chunks /\ GoodStore(st.disk, st.cur, st.conTimes)
            BY <2>1, <2>2, <1>1 DEF StoreRound
      <3>2. /\ GoodStore(g.disk, g.cur, g.conTimes)
            /\ DOMAIN g.addr = DOMAIN st.addr \cup {b[k]} /\ g.addr[b[k]] \in Addr
            /\ \A d \in DOMAIN st.addr : d # b[k] => g.addr[d] = st.addr[d]
            /\ \A a \in Addr : \A d \in Chunks :
                 At(g.disk, g.cur, a, Rec(d)) <=> At(st.disk, st.cur, a, Rec(d)) \/ (a = g.addr[b[k]] /\ d = b[k])
        <4> DEFINE x == b[k]
        <4> HIDE DEF x
        <4>1. x \in Chunks
              BY <3>1 DEF x
        <4> QED BY <3>1, <4>1, SaveOK DEF x
      <3>3. b[k] \notin DOMAIN st.addr
        <4> SUFFICES ASSUME NEW i \in Upto(k - 1), b[i] = b[k] PROVE FALSE
            BY <2>1
        <4>1. i \in 1..(k - 1)
              BY <1>1, <1>2
        <4> QED BY <4>1, <1>2, <2>2
      <3>4. Upto(k) = Upto(k - 1) \cup {k}
            BY <1>1, <1>2, <2>2
      <3>5. DOMAIN g.addr = {b[i] : i \in Upto(k)}
        <4> HIDE DEF Upto
        <4> QED BY <2>1, <3>2, <3>4
      <3>6. \A c \in DOMAIN g.addr : g.addr[c] \in Addr
            BY <2>1, <3>2, <3>3
      <3>7. ASSUME NEW a \in Addr, NEW c \in Chunks
            PROVE  At(g.disk, g.cur, a, Rec(c)) <=>
                      At(disk, cur, a, Rec(c)) \/ (c \in DOMAIN g.addr /\ a = g.addr[c])
        <4>1. At(st.disk, st.cur, a, Rec(c)) <=>
                At(disk, cur, a, Rec(c)) \/ (c \in DOMAIN st.addr /\ a = st.addr[c])
              BY <2>1
        <4>2. At(g.disk, g.cur, a, Rec(c)) <=> At(st.disk, st.cur, a, Rec(c)) \/ (a = g.addr[b[k]] /\ c = b[k])
              BY <3>2
        <4>3. CASE c = b[k]
              BY <4>1, <4>2, <4>3, <3>2, <3>3
        <4>4. CASE c # b[k]
              BY <4>1, <4>2, <4>4, <3>2
        <4> QED BY <4>3, <4>4
      <3>8. Good(g, k)
            BY <3>2, <3>5, <3>6, <3>7
      <3> HIDE DEF Good
      <3> QED BY <3>8, <2>1 DEF g
    <2>3. CASE k \notin Unique(b)
      <3>1. g = st
            BY <2>1, <2>3 DEF StoreRound
      <3>2. Upto(k) = Upto(k - 1)
            BY <1>1, <1>2, <2>3
      <3>3. Good(g, k)
            BY <2>1, <3>1, <3>2
      <3> HIDE DEF Good
      <3> QED BY <3>3, <2>1 DEF g
    <2> QED BY <2>2, <2>3
  <1>6. n \in A
    <2>1. n \in Nat /\ n \in 0..n /\ \A k \in 1..n : k - 1 \in A => k \in A
          BY <1>1, <1>5
    <2> HIDE DEF A, n
    <2>2. 0..n \subseteq A
          BY <2>1, <1>4, Rounds
    <2> QED BY <2>1, <2>2
  <1>7. Upto(n) = Unique(b)
        BY <1>1, <1>2
  <1>8. Good(s[n], n)
    <2> HIDE DEF Good, n
    <2> QED BY <1>6
  <1> HIDE DEF n, Upto
  <1> QED BY <1>3, <1>7, <1>8

-----------------------------------------------------------------------------
(* The inductive invariant.                                                *)

AnyFreq == Chunks \X Nat
AnyAddr == Chunks \X Addr

\* Frequencies the sketch allows, and the addresses of an outside index.
Under(sk) == {x \in AnyFreq : x[2] <= Estimate(sk, x[1])}
Known(ix, k) == {x \in AnyAddr : <<x[1], k>> \in DOMAIN ix /\ ix[<<x[1], k>>] = x[2]}

\* The heap a start makes of the items of a heap file.
Reloaded(items) ==
  [at |-> [i \in DOMAIN items |-> items[i][1]],
   index |-> [c \in {items[i][1] : i \in DOMAIN items} |->
                items[CHOOSE i \in DOMAIN items : items[i][1] = c][2]]]

\* The heap in the enclave and the one in the heap file are sound.
HeapInv ==
  /\ Within(heap, AnyFreq, AnyAddr)
  /\ Within(Reloaded(sealedHeap), AnyFreq, AnyAddr)

\* The two sealed files belong together unless a kill tore them apart: the
\* heap file stays below the sketch it was written with, below all that
\* this one grows into, and below what the next shutdown writes of it.
SketchInv ==
  /\ sketch \in Sketches /\ sealedSketch \in Seq(Rows) /\ torn \in BOOLEAN
  /\ pc = "sketch" =>
       /\ Len(sealedSketch) <= Depth
       /\ \A d \in 1..Len(sealedSketch) : sealedSketch[d] = sketch[d]
  /\ pc = "heap" => LoadSketch(sealedSketch) = sketch
  /\ ~torn => Within(heap, Under(sketch), AnyAddr)
  /\ ~torn /\ pc \in {"idle", "upload", "sketch"} => Within(Reloaded(sealedHeap), Under(sketch), AnyAddr)
  /\ ~torn /\ pc # "sketch" => Within(Reloaded(sealedHeap), Under(LoadSketch(sealedSketch)), AnyAddr)

\* The state of the store has its types, and every start drew a key of its own.
StoreTypes ==
  /\ key \in Nat /\ starts \in Nat /\ sealedKey = 0
  /\ IsDisk(disk) /\ cur \in Containers /\ conTimes \in Nat /\ 0 < conTimes
  /\ IsIndex(outIndex) /\ IsIndex(db) /\ recipe \in Seq(Chunks)
  /\ recipes \subseteq [key : Nat, start : Nat, chunks : Seq(Chunks)]
  /\ KeysUpTo(disk, cur, starts)
  /\ \A e \in DOMAIN outIndex : e[2] <= starts
  /\ \A e \in DOMAIN db : e[2] <= starts
  /\ \A r \in recipes : r.start <= starts
  /\ pc # "upload" => cur = NoContainer
  /\ pc = "upload" => 0 < cur.name /\ cur.name < conTimes
  /\ pc = "down" => conTimes = 1 /\ recipe = <<>>

\* The outside index says where the records of the present key are, all of
\* them and each at one place.
IndexExact ==
  \A a \in Addr : \A c \in Chunks :
     At(disk, cur, a, Rec(c)) <=> <<c, key>> \in DOMAIN outIndex /\ outIndex[<<c, key>>] = a

\* A process with a heap of its own knows all it took in.
ColdInv ==
  /\ \A i \in DOMAIN recipe : <<recipe[i], key>> \in DOMAIN outIndex
  /\ \A r \in recipes : r.start = starts => \A i \in DOMAIN r.chunks : <<r.chunks[i], key>> \in DOMAIN outIndex
  /\ Within(heap, AnyFreq, Known(outIndex, key))

StoreInv ==
  /\ StoreTypes
  /\ Running => key = starts /\ NamesOK(disk, cur, conTimes, key) /\ IndexExact
  /\ Running /\ ~warm => ColdInv

TopKInv == HeapInv /\ SketchInv /\ StoreInv

LEMMA WithinMore ==
  ASSUME NEW F, NEW A, NEW G, NEW B, F \subseteq G, A \subseteq B, NEW h, Within(h, F, A)
  PROVE  Within(h, G, B)
  BY DEF Within

LEMMA UnderAny == \A sk : Under(sk) \subseteq AnyFreq
  BY DEF Under

LEMMA KnownAny == \A ix, k : Known(ix, k) \subseteq AnyAddr
  BY DEF Known

LEMMA EmptyOK ==
  ASSUME NEW h, h.at = <<>>, h = [at |-> h.at, index |-> h.index], DOMAIN h.index = {},
         h.index = [c \in DOMAIN h.index |-> h.index[c]], NEW F, NEW A
  PROVE  Within(h, F, A)
  <1>1. <<>> \in [1..0 -> {}]
        OBVIOUS
  <1>2. h.index \in [{} -> Item]
        OBVIOUS
  <1>3. h \in Heaps(0, {})
        BY <1>1, <1>2 DEF Heaps
  <1>4. HeapOK(h, 0, {})
        BY <1>3 DEF HeapOK, OncePerKey
  <1>5. 0 \in 0..TopK /\ {} \in SUBSET Chunks
        BY TopKAssumption
  <1> QED BY <1>4, <1>5 DEF Within

LEMMA EmptyWithin == \A F, A : Within(EmptyHeap, F, A)
  <1>1. <<>> = [c \in DOMAIN <<>> |-> <<>>[c]] /\ DOMAIN <<>> = {}
        OBVIOUS
  <1> QED BY <1>1, EmptyOK DEF EmptyHeap

LEMMA NothingReloaded == \A F, A : Within(Reloaded(<<>>), F, A)
  <1> DEFINE h == Reloaded(<<>>)
  <1>1. h.at = <<>> /\ h = [at |-> h.at, index |-> h.index] /\ DOMAIN h.index = {}
        BY DEF Reloaded
  <1>2. h.index = [c \in DOMAIN h.index |-> h.index[c]]
        BY DEF Reloaded
  <1> HIDE DEF h
  <1>3. \A F, A : Within(h, F, A)
        BY <1>1, <1>2, EmptyOK
  <1> QED BY <1>3 DEF h

\* What a start reads back is the heap that was written.
LEMMA ReloadedHeap ==
  ASSUME NEW F, NEW A, NEW h, Within(h, F, A)
  PROVE  Reloaded([i \in DOMAIN h.at |-> <<h.at[i], h.index[h.at[i]]>>]) = h
  <1> DEFINE items == [i \in DOMAIN h.at |-> <<h.at[i], h.index[h.at[i]]>>]
  <1>1. PICK n \in 0..TopK, K \in SUBSET Chunks : HeapOK(h, n, K)
        BY DEF Within
  <1>2. /\ h = [at |-> h.at, index |-> h.index] /\ h.at \in [1..n -> K] /\ h.index \in [K -> Item]
        /\ (\A c \in K : \E i \in 1..n : h.at[i] = c)
        /\ \A i, j \in 1..n : h.at[i] = h.at[j] => i = j
        BY <1>1 DEF HeapOK, Heaps, OncePerKey
  <1>3. DOMAIN items = 1..n /\ \A i \in 1..n : items[i][1] = h.at[i] /\ items[i][2] = h.index[h.at[i]]
        BY <1>2
  <1> HIDE DEF items
  <1>4. [i \in DOMAIN items |-> items[i][1]] = h.at
        BY <1>2, <1>3
  <1>5. {items[i][1] : i \in DOMAIN items} = K
    <2>1. ASSUME NEW i \in DOMAIN items PROVE items[i][1] \in K
          BY <1>2, <1>3
    <2>2. ASSUME NEW c \in K PROVE \E i \in DOMAIN items : items[i][1] = c
          BY <1>2, <1>3
    <2> QED BY <2>1, <2>2
  <1>6. ASSUME NEW c \in K
        PROVE  items[CHOOSE i \in DOMAIN items : items[i][1] = c][2] = h.index[c]
    <2> DEFINE j == CHOOSE i \in DOMAIN items : items[i][1] = c
    <2>1. j \in DOMAIN items /\ items[j][1] = c
          BY <1>2, <1>3
    <2> HIDE DEF j
    <2>2. items[j][2] = h.index[c]
          BY <2>1, <1>3
    <2> QED BY <2>2 DEF j
  <1>7. [c \in K |-> items[CHOOSE i \in DOMAIN items : items[i][1] = c][2]] = h.index
        BY <1>2, <1>6
  <1>8. Reloaded(items) = [at |-> h.at, index |-> h.index]
        BY <1>4, <1>5, <1>7 DEF Reloaded
  <1> QED BY <1>2, <1>8 DEF items

LEMMA LoadHeapIs ==
  ASSUME NEW rows, NEW items PROVE LoadHeap(rows, items) = EmptyHeap \/ LoadHeap(rows, items) = Reloaded(items)
  BY DEF LoadHeap, Reloaded

LEMMA SketchTypes ==
  /\ ZeroRow \in Rows /\ NoSketch \in Sketches
  /\ \A rows \in Seq(Rows) : LoadSketch(rows) \in Sketches
  <1>1. ZeroRow \in Rows
        BY DEF ZeroRow, Rows
  <1>2. NoSketch \in Sketches
        BY <1>1 DEF NoSketch, Sketches
  <1>3. ASSUME NEW rows \in Seq(Rows) PROVE LoadSketch(rows) \in Sketches
    <2>1. \A d \in DOMAIN rows : rows[d] \in Rows
          OBVIOUS
    <2> QED BY <1>1, <2>1 DEF LoadSketch, Sketches
  <1> QED BY <1>1, <1>2, <1>3

LEMMA UnderGrows ==
  ASSUME NEW sk \in Sketches, NEW tk \in Sketches, Covers(tk, sk)
  PROVE  Under(sk) \subseteq Under(tk)
  <1> SUFFICES ASSUME NEW x \in Under(sk) PROVE x[2] <= Estimate(tk, x[1]) /\ x \in AnyFreq
      BY DEF Under
  <1>1. x \in AnyFreq /\ x[2] <= Estimate(sk, x[1])
        BY DEF Under
  <1>2. x[1] \in Chunks /\ x[2] \in Nat
        BY <1>1 DEF AnyFreq
  <1>3. Estimate(sk, x[1]) \in Nat /\ Estimate(tk, x[1]) \in Nat /\ Estimate(sk, x[1]) <= Estimate(tk, x[1])
        BY <1>2, EstimateOK, EstimateGrows
  <1> QED BY <1>1, <1>2, <1>3

-----------------------------------------------------------------------------
(* A batch keeps heap and sketch together.                                 *)

LEMMA UploadStore ==
  ASSUME StoreInv, pc = "upload"
  PROVE  key \in Nat /\ key = starts /\ GoodStore(disk, cur, conTimes) /\ IndexExact /\ IsIndex(outIndex)
  <1>1. Running
        BY DEF Running
  <1> QED BY <1>1 DEF StoreInv, StoreTypes, GoodStore

LEMMA AddrOfOK ==
  ASSUME HeapInv, StoreInv, pc = "upload", NEW b \in Seq(Chunks), NEW i \in FirstSeen(b)
  PROVE  AddrOf(b, i) \in Addr
  <1>1. key \in Nat /\ GoodStore(disk, cur, conTimes) /\ IsIndex(outIndex)
        BY UploadStore
  <1>2. CASE i \in InHeap(b)
    <2>1. b[i] \in DOMAIN heap.index
          BY <1>2 DEF InHeap, Contains
    <2>2. \A c \in DOMAIN heap.index : heap.index[c] \in Item
          BY WithinSound DEF HeapInv
    <2>3. heap.index[b[i]].addr \in Addr
          BY <2>1, <2>2 DEF Item
    <2> QED BY <1>2, <2>3 DEF AddrOf
  <1>3. CASE i \notin InHeap(b) /\ i \in Unique(b)
    <2>1. b[i] \in DOMAIN Stored(b).addr /\ \A c \in DOMAIN Stored(b).addr : Stored(b).addr[c] \in Addr
          BY <1>1, <1>3, StoredOK
    <2> QED BY <1>3, <2>1 DEF AddrOf
  <1>4. CASE i \notin InHeap(b) /\ i \notin Unique(b)
    <2>1. <<b[i], key>> \in DOMAIN outIndex
          BY <1>4 DEF Unique
    <2> QED BY <1>1, <1>4, <2>1 DEF AddrOf, IsIndex
  <1> QED BY <1>2, <1>3, <1>4

LEMMA HeapBatch ==
  ASSUME HeapInv, SketchInv, StoreInv, pc = "upload", NEW b \in Seq(Chunks)
  PROVE  /\ Within(HeapAfter(b), AnyFreq, AnyAddr)
         /\ ~torn => Within(HeapAfter(b), Under(Counted(sketch, b)), AnyAddr)
         /\ Counted(sketch, b) \in Sketches /\ Covers(Counted(sketch, b), sketch)
  <1>1. sketch \in Sketches
        BY DEF SketchInv
  <1>2. Counted(sketch, b) \in Sketches /\ Covers(Counted(sketch, b), sketch)
        BY <1>1, CountedType
  <1>3. ASSUME NEW i \in FirstSeen(b)
        PROVE  /\ Freqs(b)[LastSeen(b, i)] \in Nat /\ AddrOf(b, i) \in Addr
               /\ <<b[i], Freqs(b)[LastSeen(b, i)]>> \in AnyFreq
               /\ <<b[i], Freqs(b)[LastSeen(b, i)]>> \in Under(Counted(sketch, b))
               /\ <<b[i], AddrOf(b, i)>> \in AnyAddr
    <2> DEFINE f == Freqs(b)[LastSeen(b, i)]
               a == AddrOf(b, i)
    <2>1. i \in DOMAIN b /\ b[i] \in Chunks
          BY DEF FirstSeen
    <2>2. f \in Nat /\ f <= Estimate(Counted(sketch, b), b[i])
          BY <1>1, <2>1, FreqsOK
    <2>3. a \in Addr
          BY AddrOfOK
    <2> HIDE DEF f, a
    <2>4. <<b[i], f>> \in AnyFreq /\ <<b[i], a>> \in AnyAddr
          BY <2>1, <2>2, <2>3 DEF AnyFreq, AnyAddr
    <2>5. <<b[i], f>> \in Under(Counted(sketch, b))
          BY <2>2, <2>4 DEF Under
    <2> QED BY <2>2, <2>3, <2>4, <2>5 DEF f, a
  <1>4. Within(HeapAfter(b), AnyFreq, AnyAddr)
        BY <1>3, HeapAfterOK DEF HeapInv
  <1>5. ASSUME ~torn PROVE Within(HeapAfter(b), Under(Counted(sketch, b)), AnyAddr)
    <2>1. Within(heap, Under(sketch), AnyAddr)
          BY <1>5 DEF SketchInv
    <2>2. Under(sketch) \subseteq Under(Counted(sketch, b))
          BY <1>1, <1>2, UnderGrows
    <2>3. Within(heap, Under(Counted(sketch, b)), AnyAddr)
          BY <2>1, <2>2, WithinMore
    <2> QED BY <1>3, <2>3, HeapAfterOK
  <1> QED BY <1>2, <1>4, <1>5

\* A whole sketch file gives back the sketch.
LEMMA WholeFile ==
  ASSUME sketch \in Sketches, sealedSketch \in Seq(Rows), Len(sealedSketch) = Depth,
         \A d \in 1..Len(sealedSketch) : sealedSketch[d] = sketch[d]
  PROVE  LoadSketch(sealedSketch) = sketch
  <1>1. DOMAIN sealedSketch = 1..Depth
        OBVIOUS
  <1> QED BY <1>1 DEF LoadSketch, Sketches

LEMMA HeapAndSketchInit == Init => HeapInv /\ SketchInv
  <1> SUFFICES ASSUME Init PROVE HeapInv /\ SketchInv
      OBVIOUS
  <1>1. heap = EmptyHeap /\ sealedHeap = <<>> /\ sketch = NoSketch /\ sealedSketch = <<>> /\ pc = "down" /\ torn = FALSE
        BY DEF Init
  <1>2. HeapInv
        BY <1>1, EmptyWithin, NothingReloaded DEF HeapInv
  <1>3. <<>> \in Seq(Rows)
        OBVIOUS
  <1>4. SketchInv
        BY <1>1, <1>3, EmptyWithin, NothingReloaded, SketchTypes DEF SketchInv
  <1> QED BY <1>2, <1>4

\* Every action of the server keeps the heap sound and, unless a kill tears
\* the two files apart, below the sketch.
LEMMA HeapAndSketchStep == TopKInv /\ [Next]_vars => HeapInv' /\ SketchInv'
  <1> SUFFICES ASSUME HeapInv, SketchInv, StoreInv, [Next]_vars PROVE HeapInv' /\ SketchInv'
      BY DEF TopKInv
  <1>t. /\ sketch \in Sketches /\ sealedSketch \in Seq(Rows) /\ torn \in BOOLEAN
        /\ LoadSketch(sealedSketch) \in Sketches
        BY SketchTypes DEF SketchInv
  <1>1. CASE Start
    <2>1. /\ pc = "down" /\ pc' = "idle" /\ sketch' = LoadSketch(sealedSketch)
          /\ heap' = LoadHeap(sealedSketch, sealedHeap)
          /\ sealedSketch' = sealedSketch /\ sealedHeap' = sealedHeap /\ torn' = torn
          BY <1>1 DEF Start, sealedVars
    <2>2. heap' = EmptyHeap \/ heap' = Reloaded(sealedHeap)
          BY <2>1, LoadHeapIs
    <2>3. HeapInv'
          BY <2>1, <2>2, EmptyWithin DEF HeapInv
    <2>4. SketchInv'
          BY <1>t, <2>1, <2>2, EmptyWithin DEF SketchInv
    <2> QED BY <2>3, <2>4
  <1>2. CASE CtrlC
    <2>1. /\ pc = "idle" /\ pc' = "sketch" /\ sealedSketch' = <<>>
          /\ heap' = heap /\ sketch' = sketch /\ sealedHeap' = sealedHeap /\ torn' = torn
          BY <1>2 DEF CtrlC, enclaveVars, history
    <2>2. HeapInv'
          BY <2>1 DEF HeapInv
    <2>3. <<>> \in Seq(Rows) /\ Len(<<>>) = 0 /\ 0 <= Depth /\ 1..0 = {}
          BY TopKAssumption
    <2>4. SketchInv'
          BY <1>t, <2>1, <2>3 DEF SketchInv
    <2> QED BY <2>2, <2>4
  <1>3. CASE WriteSketchRow
    <2> DEFINE n == Len(sealedSketch)
    <2>1. /\ pc = "sketch" /\ pc' = pc /\ n < Depth /\ sealedSketch' = Append(sealedSketch, sketch[n + 1])
          /\ heap' = heap /\ sketch' = sketch /\ sealedHeap' = sealedHeap /\ torn' = torn
          BY <1>3 DEF WriteSketchRow, enclaveVars, history
    <2>2. HeapInv'
          BY <2>1 DEF HeapInv
    <2>3. n \in Nat /\ Depth \in Nat /\ n + 1 \in 1..Depth
          BY <1>t, <2>1, TopKAssumption
    <2>4. sketch[n + 1] \in Rows
          BY <1>t, <2>3 DEF Sketches
    <2>5. /\ sealedSketch' \in Seq(Rows) /\ Len(sealedSketch') = n + 1 /\ sealedSketch'[n + 1] = sketch[n + 1]
          /\ \A d \in 1..n : sealedSketch'[d] = sealedSketch[d]
          BY <1>t, <2>1, <2>4, AppendProperties
    <2>6. \A d \in 1..n : sealedSketch[d] = sketch[d]
          BY <2>1 DEF SketchInv
    <2> HIDE DEF n
    <2>7. ASSUME NEW d \in 1..(n + 1) PROVE sealedSketch'[d] = sketch[d]
      <3>1. d \in 1..n \/ d = n + 1
            BY <2>3
      <3> QED BY <3>1, <2>5, <2>6
    <2>8. Len(sealedSketch') <= Depth
          BY <2>3, <2>5
    <2>9. SketchInv'
          BY <1>t, <2>1, <2>5, <2>7, <2>8 DEF SketchInv
    <2> QED BY <2>2, <2>9
  <1>4. CASE OpenHeapFile
    <2>1. /\ pc = "sketch" /\ pc' = "heap" /\ Len(sealedSketch) = Depth /\ sealedHeap' = <<>>
          /\ heap' = heap /\ sketch' = sketch /\ sealedSketch' = sealedSketch /\ torn' = torn
          BY <1>4 DEF OpenHeapFile, enclaveVars, history
    <2>2. HeapInv'
          BY <2>1, NothingReloaded DEF HeapInv
    <2>3. LoadSketch(sealedSketch) = sketch
          BY <1>t, <2>1, WholeFile DEF SketchInv
    <2>4. SketchInv'
          BY <1>t, <2>1, <2>3, NothingReloaded DEF SketchInv
    <2> QED BY <2>2, <2>4
  <1>5. CASE WriteHeapFile
    <2>1. /\ pc = "heap" /\ pc' = "sealed"
          /\ sealedHeap' = [i \in DOMAIN heap.at |-> <<heap.at[i], heap.index[heap.at[i]]>>]
          /\ heap' = heap /\ sketch' = sketch /\ sealedSketch' = sealedSketch /\ torn' = torn
          BY <1>5 DEF WriteHeapFile, enclaveVars, history
    <2>2. Reloaded(sealedHeap') = heap
          BY <2>1, ReloadedHeap DEF HeapInv
    <2>3. HeapInv'
          BY <2>1, <2>2 DEF HeapInv
    <2>4. LoadSketch(sealedSketch) = sketch
          BY <2>1 DEF SketchInv
    <2>5. SketchInv'
          BY <1>t, <2>1, <2>2, <2>4 DEF SketchInv
    <2> QED BY <2>3, <2>5
  <1>6. CASE DestroyEnclave
    <2>1. /\ pc = "sealed" /\ pc' = "destroyed" /\ heap' = EmptyHeap /\ sketch' = NoSketch
          /\ sealedHeap' = sealedHeap /\ sealedSketch' = sealedSketch /\ torn' = torn
          BY <1>6 DEF DestroyEnclave, EnclaveGone, sealedVars, history
    <2>2. HeapInv'
          BY <2>1, EmptyWithin DEF HeapInv
    <2>3. SketchInv'
          BY <1>t, <2>1, EmptyWithin, SketchTypes DEF SketchInv
    <2> QED BY <2>2, <2>3
  <1>7. CASE OpenDB \/ SaveDB
    <2>1. /\ pc \in {"destroyed", "saving"} /\ pc' \in {"saving", "down"} /\ heap' = heap /\ sketch' = sketch
          /\ sealedHeap' = sealedHeap /\ sealedSketch' = sealedSketch /\ torn' = torn
          BY <1>7 DEF OpenDB, SaveDB, enclaveVars, history
    <2>2. HeapInv'
          BY <2>1 DEF HeapInv
    <2>3. SketchInv'
          BY <1>t, <2>1 DEF SketchInv
    <2> QED BY <2>2, <2>3
  <1>8. CASE Kill
    <2>1. /\ pc # "down" /\ pc' = "down" /\ heap' = EmptyHeap /\ sketch' = NoSketch
          /\ sealedHeap' = sealedHeap /\ sealedSketch' = sealedSketch
          /\ torn' = (torn \/ (pc = "sketch" /\ Len(sealedSketch) < Depth /\ sealedHeap # <<>>))
          BY <1>8 DEF Kill, EnclaveGone
    <2>2. HeapInv'
          BY <2>1, EmptyWithin DEF HeapInv
    <2>3. ASSUME ~torn' PROVE Within(Reloaded(sealedHeap), Under(LoadSketch(sealedSketch)), AnyAddr)
      <3>1. CASE pc # "sketch"
            BY <2>1, <2>3, <3>1 DEF SketchInv
      <3>2. CASE pc = "sketch" /\ sealedHeap = <<>>
            BY <3>2, NothingReloaded
      <3>3. CASE pc = "sketch" /\ ~(Len(sealedSketch) < Depth)
        <4>1. Len(sealedSketch) = Depth
          <5>1. Len(sealedSketch) \in Nat /\ Depth \in Nat /\ Len(sealedSketch) <= Depth
                BY <1>t, <3>3, TopKAssumption DEF SketchInv
          <5> QED BY <5>1, <3>3
        <4>2. LoadSketch(sealedSketch) = sketch
              BY <1>t, <3>3, <4>1, WholeFile DEF SketchInv
        <4> QED BY <2>1, <2>3, <3>3, <4>2 DEF SketchInv
      <3> QED BY <2>1, <2>3, <3>1, <3>2, <3>3
    <2>4. torn' \in BOOLEAN
          BY <2>1
    <2>5. SketchInv'
          BY <1>t, <2>1, <2>3, <2>4, EmptyWithin, SketchTypes DEF SketchInv
    <2> QED BY <2>2, <2>5
  <1>9. CASE BeginUpload \/ EndUpload
    <2>1. /\ pc \in {"idle", "upload"} /\ pc' \in {"idle", "upload"} /\ heap' = heap /\ sketch' = sketch
          /\ sealedHeap' = sealedHeap /\ sealedSketch' = sealedSketch /\ torn' = torn
          BY <1>9 DEF BeginUpload, EndUpload, enclaveVars, sealedVars, history
    <2>2. HeapInv'
          BY <2>1 DEF HeapInv
    <2>3. SketchInv'
          BY <1>t, <2>1 DEF SketchInv
    <2> QED BY <2>2, <2>3
  <1>10. ASSUME NEW b \in Batches, ProcessOneBatch(b) PROVE HeapInv' /\ SketchInv'
    <2>1. /\ pc = "upload" /\ pc' = pc /\ sketch' = Counted(sketch, b) /\ heap' = HeapAfter(b)
          /\ sealedHeap' = sealedHeap /\ sealedSketch' = sealedSketch /\ torn' = torn
          BY <1>10 DEF ProcessOneBatch, sealedVars
    <2>2. b \in Seq(Chunks)
          BY TopKAssumption
    <2>3. /\ Within(heap', AnyFreq, AnyAddr) /\ (~torn => Within(heap', Under(sketch'), AnyAddr))
          /\ sketch' \in Sketches /\ Covers(sketch', sketch)
          BY <2>1, <2>2, HeapBatch
    <2>4. HeapInv'
          BY <2>1, <2>3 DEF HeapInv
    <2>5. Under(sketch) \subseteq Under(sketch')
          BY <1>t, <2>3, UnderGrows
    <2>6. ~torn => Within(Reloaded(sealedHeap), Under(sketch), AnyAddr)
          BY <2>1 DEF SketchInv
    <2>7. ~torn => Within(Reloaded(sealedHeap), Under(sketch'), AnyAddr)
          BY <2>5, <2>6, WithinMore
    <2>8. SketchInv'
          BY <1>t, <2>1, <2>3, <2>7 DEF SketchInv
    <2> QED BY <2>4, <2>8
  <1>11. CASE UNCHANGED vars
    <2>1. /\ pc' = pc /\ heap' = heap /\ sketch' = sketch
          /\ sealedHeap' = sealedHeap /\ sealedSketch' = sealedSketch /\ torn' = torn
          BY <1>11 DEF vars, enclaveVars, sealedVars, history
    <2>2. HeapInv'
          BY <2>1 DEF HeapInv
    <2>3. SketchInv'
          BY <1>t, <2>1 DEF SketchInv
    <2> QED BY <2>2, <2>3
  <1> QED BY <1>1, <1>2, <1>3, <1>4, <1>5, <1>6, <1>7, <1>8, <1>9, <1>10, <1>11 DEF Next

-----------------------------------------------------------------------------
(* The store and its outside index.                                        *)

LEMMA Nothing ==
  /\ IsIndex(<<>>) /\ DOMAIN <<>> = {} /\ <<>> \in Seq(Chunks)
  /\ NoContainer \in Containers /\ NoContainer.name = 0 /\ DOMAIN NoContainer.body = {}
  <1>1. DOMAIN <<>> = {} /\ <<>> \in Seq(Chunks) /\ <<>> \in [{} -> Addr]
        OBVIOUS
  <1>2. NoContainer \in Containers /\ NoContainer.name = 0 /\ DOMAIN NoContainer.body = {}
        BY EmptyBody DEF NoContainer, Containers
  <1> QED BY <1>1, <1>2 DEF IsIndex

\* An empty container says nothing of where records are.
LEMMA EmptyAt ==
  ASSUME NEW dk, NEW cu, DOMAIN cu.body = {}, NEW du, DOMAIN du.body = {}, NEW a, NEW r
  PROVE  At(dk, cu, a, r) <=> At(dk, du, a, r)
  BY DEF At

LEMMA StoreInit == Init => StoreInv
  <1> SUFFICES ASSUME Init PROVE StoreInv
      OBVIOUS
  <1>1. /\ pc = "down" /\ key = 0 /\ starts = 0 /\ sealedKey = 0 /\ disk = <<>> /\ cur = NoContainer /\ conTimes = 1
        /\ outIndex = <<>> /\ db = <<>> /\ recipe = <<>> /\ recipes = {}
        BY DEF Init
  <1>2. IsDisk(<<>>)
    <2>1. <<>> \in [{} -> Bodies] /\ DOMAIN <<>> = {}
          OBVIOUS
    <2> QED BY <2>1 DEF IsDisk
  <1>3. KeysUpTo(<<>>, NoContainer, 0)
        BY Nothing DEF KeysUpTo
  <1>4. StoreTypes
        BY <1>1, <1>2, <1>3, Nothing DEF StoreTypes
  <1> QED BY <1>1, <1>4 DEF StoreInv, Running

\* The shutdown and a kill leave the files and their keys as they are.
LEMMA QuietStore ==
  ASSUME StoreInv, disk' = disk, recipes' = recipes, starts' = starts, sealedKey' = sealedKey, key' \in Nat,
         cur' = NoContainer, conTimes' \in Nat, 0 < conTimes', IsIndex(outIndex'), IsIndex(db'),
         recipe' \in Seq(Chunks), DOMAIN outIndex' \subseteq DOMAIN outIndex,
         DOMAIN db' \subseteq DOMAIN outIndex \cup DOMAIN db,
         pc' \notin {"idle", "upload"}, pc' = "down" => conTimes' = 1 /\ recipe' = <<>>
  PROVE  StoreInv'
  <1>1. StoreTypes
        BY DEF StoreInv
  <1>2. KeysUpTo(disk', cur', starts')
        BY <1>1, Nothing DEF StoreTypes, KeysUpTo
  <1>3. /\ \A e \in DOMAIN outIndex' : e[2] <= starts'
        /\ \A e \in DOMAIN db' : e[2] <= starts'
        BY <1>1 DEF StoreTypes
  <1>4. StoreTypes'
        BY <1>1, <1>2, <1>3, Nothing DEF StoreTypes
  <1> QED BY <1>4 DEF StoreInv, Running

LEMMA ShutdownStore ==
  ASSUME StoreInv, CtrlC \/ WriteSketchRow \/ OpenHeapFile \/ WriteHeapFile \/ DestroyEnclave \/ OpenDB \/ SaveDB \/ Kill
  PROVE  StoreInv'
  <1>t. StoreTypes
        BY DEF StoreInv
  <1>0. /\ key \in Nat /\ conTimes \in Nat /\ 0 < conTimes /\ IsIndex(outIndex) /\ IsIndex(db)
        /\ recipe \in Seq(Chunks) /\ (pc # "upload" => cur = NoContainer)
        BY <1>t DEF StoreTypes
  <1>1. CASE CtrlC \/ WriteSketchRow \/ OpenHeapFile \/ WriteHeapFile
    <2>1. /\ pc # "upload" /\ pc' \notin {"idle", "upload", "down"} /\ key' = key /\ outIndex' = outIndex
          /\ conTimes' = conTimes /\ cur' = cur /\ recipe' = recipe /\ disk' = disk /\ recipes' = recipes
          /\ sealedKey' = sealedKey /\ db' = db /\ starts' = starts
          BY <1>1 DEF CtrlC, WriteSketchRow, OpenHeapFile, WriteHeapFile, enclaveVars, sessionVars, storeVars, history
    <2> QED BY <1>0, <2>1, QuietStore
  <1>2. CASE DestroyEnclave
    <2>1. /\ pc # "upload" /\ pc' \notin {"idle", "upload", "down"} /\ key' = 0 /\ outIndex' = outIndex
          /\ conTimes' = conTimes /\ cur' = cur /\ recipe' = recipe /\ disk' = disk /\ recipes' = recipes
          /\ sealedKey' = sealedKey /\ db' = db /\ starts' = starts
          BY <1>2 DEF DestroyEnclave, EnclaveGone, sessionVars, storeVars, sealedVars, history
    <2> QED BY <1>0, <2>1, QuietStore
  <1>3. CASE OpenDB
    <2>1. /\ pc # "upload" /\ pc' \notin {"idle", "upload", "down"} /\ key' = key /\ outIndex' = outIndex
          /\ conTimes' = conTimes /\ cur' = cur /\ recipe' = recipe /\ disk' = disk /\ recipes' = recipes
          /\ sealedKey' = sealedKey /\ db' = <<>> /\ starts' = starts
          BY <1>3 DEF OpenDB, enclaveVars, sessionVars, storeVars, history
    <2>2. IsIndex(db') /\ DOMAIN db' = {}
          BY <2>1, Nothing
    <2> QED BY <1>0, <2>1, <2>2, QuietStore
  <1>4. CASE SaveDB
    <2>1. /\ pc' = "down" /\ key' = key /\ outIndex' = <<>>
          /\ conTimes' = 1 /\ cur' = NoContainer /\ recipe' = <<>> /\ disk' = disk /\ recipes' = recipes
          /\ sealedKey' = sealedKey /\ db' = outIndex /\ starts' = starts
          BY <1>4 DEF SaveDB, ProcessGone, enclaveVars, storeVars, history
    <2>2. IsIndex(outIndex') /\ DOMAIN outIndex' = {} /\ recipe' \in Seq(Chunks)
          BY <2>1, Nothing
    <2> QED BY <1>0, <2>1, <2>2, QuietStore
  <1>5. CASE Kill
    <2>1. /\ pc' = "down" /\ key' = 0 /\ outIndex' = <<>>
          /\ conTimes' = 1 /\ cur' = NoContainer /\ recipe' = <<>> /\ disk' = disk /\ recipes' = recipes
          /\ sealedKey' = sealedKey /\ starts' = starts
          BY <1>5 DEF Kill, EnclaveGone, ProcessGone, storeVars
    <2>2. IsIndex(outIndex') /\ DOMAIN outIndex' = {} /\ recipe' \in Seq(Chunks)
          BY <2>1, Nothing
    <2>3. IsIndex(db') /\ DOMAIN db' \subseteq DOMAIN outIndex \cup DOMAIN db
      <3>1. CASE db' = db
            BY <1>0, <3>1
      <3>2. CASE \E S \in SUBSET DOMAIN outIndex : db' = Restrict(outIndex, S)
        <4>1. PICK S \in SUBSET DOMAIN outIndex : db' = [x \in S |-> outIndex[x]]
              BY <3>2 DEF Restrict
        <4>2. DOMAIN db' = S /\ \A x \in S : db'[x] \in Addr
              BY <1>0, <4>1 DEF IsIndex
        <4>3. db' \in [S -> Addr]
              BY <4>1, <4>2
        <4>4. S \subseteq Chunks \X Nat
              BY <1>0 DEF IsIndex
        <4> QED BY <4>2, <4>3, <4>4 DEF IsIndex
      <3> QED BY <1>5, <3>1, <3>2 DEF Kill
    <2> QED BY <1>0, <2>1, <2>2, <2>3, QuietStore
  <1> QED BY <1>1, <1>2, <1>3, <1>4, <1>5

\* A start draws a key no record and no entry has.
LEMMA StartStore ==
  ASSUME StoreInv, Start
  PROVE  StoreInv'
  <1>1. StoreTypes
        BY DEF StoreInv
  <1>2. /\ pc = "down" /\ pc' = "idle" /\ starts' = starts + 1 /\ outIndex' = db
        /\ key' = (IF sealedKey = 0 THEN starts' ELSE sealedKey) /\ warm' = (heap' # EmptyHeap)
        /\ conTimes' = conTimes /\ cur' = cur /\ recipe' = recipe /\ disk' = disk /\ recipes' = recipes
        /\ sealedKey' = sealedKey /\ db' = db
        BY DEF Start, sessionVars, storeVars, sealedVars
  <1>3. key' = starts + 1 /\ starts \in Nat /\ starts + 1 \in Nat /\ cur = NoContainer /\ conTimes = 1 /\ recipe = <<>>
        BY <1>1, <1>2 DEF StoreTypes
  <1>4. IsDisk(disk) /\ KeysUpTo(disk, cur, starts) /\ IsIndex(db)
        BY <1>1 DEF StoreTypes
  <1>5. ASSUME NEW n \in DOMAIN disk, NEW i \in DOMAIN disk[n]
        PROVE  disk[n][i].key \in Nat /\ disk[n][i].key <= starts /\ disk[n][i].key # starts + 1
    <2>1. disk[n] \in Seq(Recs)
          BY <1>4 DEF IsDisk, Bodies
    <2>2. disk[n][i] \in Recs
          BY <2>1
    <2>3. disk[n][i].key \in Nat /\ disk[n][i].key <= starts
          BY <1>4, <2>2 DEF Recs, KeysUpTo
    <2> QED BY <1>3, <2>3
  <1>6. ASSUME NEW e \in DOMAIN db PROVE e[2] \in Nat /\ e[2] <= starts /\ e[2] <= starts + 1 /\ e[2] # starts + 1
    <2>1. e[2] \in Nat
          BY <1>4 DEF IsIndex
    <2>2. e[2] <= starts
          BY <1>1 DEF StoreTypes
    <2> QED BY <1>3, <2>1, <2>2
  <1>7. KeysUpTo(disk, cur, starts + 1)
    <2>1. \A n \in DOMAIN disk : \A i \in DOMAIN disk[n] : disk[n][i].key <= starts + 1
          BY <1>3, <1>5
    <2> QED BY <2>1, <1>3, Nothing DEF KeysUpTo
  <1>8. \A r \in recipes : r.start \in Nat /\ r.start <= starts /\ r.start <= starts + 1 /\ r.start # starts + 1
        BY <1>1, <1>3 DEF StoreTypes
  <1>9. StoreTypes'
        BY <1>1, <1>2, <1>3, <1>6, <1>7, <1>8 DEF StoreTypes
  <1>10. NamesOK(disk', cur', conTimes', key')
        BY <1>2, <1>3, <1>5 DEF NamesOK
  <1>11. IndexExact'
    <2>1. ASSUME NEW a \in Addr, NEW c \in Chunks
          PROVE  ~At(disk, cur, a, [chunk |-> c, key |-> starts + 1]) /\ <<c, starts + 1>> \notin DOMAIN db
      <3>1. ~At(disk, cur, a, [chunk |-> c, key |-> starts + 1])
            BY <1>3, <1>5, Nothing DEF At
      <3> QED BY <3>1, <1>6
    <2> QED BY <2>1, <1>2, <1>3 DEF IndexExact, Rec
  <1>12. ASSUME ~warm' PROVE ColdInv'
    <2>1. heap' = EmptyHeap
          BY <1>2, <1>12
    <2>2. Within(heap', AnyFreq, Known(outIndex', key'))
          BY <2>1, EmptyWithin
    <2>3. DOMAIN recipe' = {}
          BY <1>2, <1>3, Nothing
    <2> QED BY <2>2, <2>3, <1>2, <1>8 DEF ColdInv
  <1> QED BY <1>2, <1>3, <1>9, <1>10, <1>11, <1>12 DEF StoreInv

\* A session names its container and begins a recipe.
LEMMA BeginStore ==
  ASSUME StoreInv, BeginUpload
  PROVE  StoreInv'
  <1>1. StoreTypes
        BY DEF StoreInv
  <1>2. /\ pc = "idle" /\ pc' = "upload" /\ cur' = [name |-> conTimes, body |-> <<>>] /\ conTimes' = conTimes + 2
        /\ recipe' = <<>> /\ key' = key /\ heap' = heap /\ outIndex' = outIndex /\ disk' = disk /\ recipes' = recipes
        /\ sealedKey' = sealedKey /\ db' = db /\ starts' = starts /\ warm' = warm
        BY DEF BeginUpload, enclaveVars, storeVars, sealedVars
  <1>3. conTimes \in Nat /\ 0 < conTimes /\ cur = NoContainer /\ IsDisk(disk) /\ KeysUpTo(disk, cur, starts)
        BY <1>1, <1>2 DEF StoreTypes
  <1>4. /\ cur' \in Containers /\ cur'.name = conTimes /\ DOMAIN cur'.body = {}
        /\ conTimes' \in Nat /\ 0 < conTimes' /\ conTimes < conTimes'
        BY <1>2, <1>3, EmptyBody DEF Containers
  <1>5. KeysUpTo(disk', cur', starts')
        BY <1>2, <1>3, <1>4 DEF KeysUpTo
  <1>6. StoreTypes'
        BY <1>1, <1>2, <1>3, <1>4, <1>5, Nothing DEF StoreTypes
  <1>7. Running /\ key = starts /\ NamesOK(disk, cur, conTimes, key) /\ IndexExact
        BY <1>2 DEF StoreInv, Running
  <1>8. NamesOK(disk', cur', conTimes', key')
    <2> SUFFICES ASSUME NEW n \in DOMAIN disk, NEW i \in DOMAIN disk[n], disk[n][i].key = key
                 PROVE  0 < n /\ n < conTimes' /\ n # cur'.name
        BY <1>2 DEF NamesOK
    <2>1. n \in Nat /\ 0 < n /\ n < conTimes
          BY <1>3, <1>7 DEF NamesOK, IsDisk
    <2> QED BY <1>3, <1>4, <2>1
  <1>9. IndexExact'
    <2>1. ASSUME NEW a \in Addr, NEW c \in Chunks PROVE At(disk, cur', a, Rec(c)) <=> At(disk, cur, a, Rec(c))
          BY <1>3, <1>4, Nothing, EmptyAt
    <2> QED BY <1>2, <1>7, <2>1 DEF IndexExact, Rec
  <1>10. ASSUME ~warm' PROVE ColdInv'
    <2>1. ColdInv
          BY <1>2, <1>7, <1>10 DEF StoreInv
    <2> QED BY <1>2, <2>1, Nothing DEF ColdInv
  <1> QED BY <1>2, <1>6, <1>7, <1>8, <1>9, <1>10 DEF StoreInv

\* The open container goes out, the recipe is closed.
LEMMA EndStore ==
  ASSUME StoreInv, EndUpload
  PROVE  StoreInv'
  <1>1. StoreTypes
        BY DEF StoreInv
  <1>2. /\ pc = "upload" /\ pc' = "idle" /\ disk' = (IF cur.body = <<>> THEN disk ELSE Written(disk, cur))
        /\ recipes' = recipes \cup {[key |-> key, start |-> starts, chunks |-> recipe]}
        /\ cur' = NoContainer /\ recipe' = <<>> /\ key' = key /\ heap' = heap /\ outIndex' = outIndex
        /\ conTimes' = conTimes /\ sealedKey' = sealedKey /\ db' = db /\ starts' = starts /\ warm' = warm
        BY DEF EndUpload, enclaveVars, sealedVars, history
  <1>3. Running /\ key = starts /\ NamesOK(disk, cur, conTimes, key) /\ IndexExact
        BY <1>2 DEF StoreInv, Running
  <1>4. /\ IsDisk(disk) /\ cur \in Containers /\ conTimes \in Nat /\ 0 < cur.name /\ cur.name < conTimes
        /\ starts \in Nat /\ key \in Nat /\ KeysUpTo(disk, cur, starts) /\ recipe \in Seq(Chunks)
        BY <1>1, <1>2 DEF StoreTypes
  <1>5. /\ IsDisk(disk') /\ NamesOK(disk', cur', conTimes, key) /\ KeysUpTo(disk', cur', starts)
        /\ \A a \in Addr : \A c \in Chunks : At(disk', cur', a, Rec(c)) <=> At(disk, cur, a, Rec(c))
    <2>1. CASE cur.body = <<>>
      <3>1. disk' = disk /\ DOMAIN cur.body = {} /\ DOMAIN cur'.body = {} /\ cur'.name = 0
            BY <1>2, <2>1, Nothing
      <3>2. NamesOK(disk, cur', conTimes, key)
        <4> SUFFICES ASSUME NEW n \in DOMAIN disk, NEW i \in DOMAIN disk[n], disk[n][i].key = key
                     PROVE  0 < n /\ n < conTimes /\ n # cur'.name
            BY DEF NamesOK
        <4>1. n \in Nat /\ 0 < n /\ n < conTimes
              BY <1>3, <1>4 DEF NamesOK, IsDisk
        <4> QED BY <3>1, <4>1
      <3>3. KeysUpTo(disk, cur', starts)
            BY <1>4, <3>1 DEF KeysUpTo
      <3>4. \A a \in Addr : \A c \in Chunks : At(disk, cur', a, Rec(c)) <=> At(disk, cur, a, Rec(c))
            BY <3>1, EmptyAt
      <3> QED BY <1>4, <3>1, <3>2, <3>3, <3>4
    <2>2. CASE cur.body # <<>>
      <3>1. disk' = Written(disk, cur) /\ cur' = [name |-> 0, body |-> <<>>]
            BY <1>2, <2>2 DEF NoContainer
      <3>2. 0 \in Nat /\ conTimes >= conTimes
            BY <1>4
      <3>3. /\ IsDisk(disk') /\ NamesOK(disk', cur', conTimes, key) /\ KeysUpTo(disk', cur', starts)
            /\ \A a, r : r.key = key => (At(disk', cur', a, r) <=> At(disk, cur, a, r))
            BY <1>3, <1>4, <3>1, <3>2, RollOK
      <3>4. \A c \in Chunks : Rec(c).key = key
            BY DEF Rec
      <3> QED BY <3>3, <3>4
    <2> QED BY <2>1, <2>2
  <1>6. /\ recipes' \subseteq [key : Nat, start : Nat, chunks : Seq(Chunks)]
        /\ \A r \in recipes' : r.start <= starts
    <2> DEFINE q == [key |-> key, start |-> starts, chunks |-> recipe]
    <2>1. q \in [key : Nat, start : Nat, chunks : Seq(Chunks)] /\ q.start <= starts
          BY <1>4
    <2> HIDE DEF q
    <2>2. recipes \subseteq [key : Nat, start : Nat, chunks : Seq(Chunks)] /\ \A r \in recipes : r.start <= starts
          BY <1>1 DEF StoreTypes
    <2>3. recipes' = recipes \cup {q}
          BY <1>2 DEF q
    <2> QED BY <2>1, <2>2, <2>3
  <1>7. StoreTypes'
        BY <1>1, <1>2, <1>4, <1>5, <1>6, Nothing DEF StoreTypes
  <1>8. IndexExact'
        BY <1>2, <1>3, <1>5 DEF IndexExact, Rec
  <1>9. ASSUME ~warm' PROVE ColdInv'
    <2>1. ColdInv
          BY <1>2, <1>3, <1>9 DEF StoreInv
    <2>2. ASSUME NEW r \in recipes', r.start = starts
          PROVE  \A i \in DOMAIN r.chunks : <<r.chunks[i], key>> \in DOMAIN outIndex
      <3>1. CASE r \in recipes
            BY <2>1, <2>2, <3>1 DEF ColdInv
      <3>2. CASE r = [key |-> key, start |-> starts, chunks |-> recipe]
            BY <2>1, <3>2 DEF ColdInv
      <3> QED BY <1>2, <2>2, <3>1, <3>2
    <2>3. DOMAIN recipe' = {}
          BY <1>2, Nothing
    <2>4. Within(heap', AnyFreq, Known(outIndex', key'))
          BY <1>2, <2>1 DEF ColdInv
    <2> QED BY <1>2, <2>2, <2>3, <2>4 DEF ColdInv
  <1> QED BY <1>2, <1>3, <1>5, <1>7, <1>8, <1>9 DEF StoreInv

\* A batch: what was stored is what the outside index learns, and every
\* chunk of the batch is one the process knew or one it stored.
LEMMA BatchStore ==
  ASSUME HeapInv, SketchInv, StoreInv, NEW b \in Seq(Chunks), ProcessOneBatch(b)
  PROVE  StoreInv'
  <1> DEFINE st == Stored(b)
             U == {<<b[i], key>> : i \in Unique(b)}
  <1>1. StoreTypes
        BY DEF StoreInv
  <1>2. /\ pc = "upload" /\ pc' = pc /\ heap' = HeapAfter(b)
        /\ cur' = st.cur /\ conTimes' = st.conTimes /\ disk' = st.disk
        /\ outIndex' = [e \in DOMAIN outIndex \cup U |-> IF e \in DOMAIN outIndex THEN outIndex[e] ELSE st.addr[e[1]]]
        /\ recipe' = recipe \o b /\ key' = key /\ recipes' = recipes
        /\ sealedKey' = sealedKey /\ db' = db /\ starts' = starts /\ warm' = warm
        BY DEF ProcessOneBatch, sealedVars
  <1>3. Running /\ key \in Nat /\ key = starts /\ GoodStore(disk, cur, conTimes) /\ IndexExact /\ IsIndex(outIndex)
        BY <1>2, UploadStore DEF Running
  <1>4. /\ GoodStore(st.disk, st.cur, st.conTimes)
        /\ DOMAIN st.addr = {b[i] : i \in Unique(b)}
        /\ \A c \in DOMAIN st.addr : st.addr[c] \in Addr
        /\ \A a \in Addr : \A c \in Chunks :
             At(st.disk, st.cur, a, Rec(c)) <=>
               At(disk, cur, a, Rec(c)) \/ (c \in DOMAIN st.addr /\ a = st.addr[c])
        BY <1>3, StoredOK
  <1>5. /\ DOMAIN b = 1..Len(b) /\ Len(b) \in Nat /\ (\A i \in DOMAIN b : b[i] \in Chunks)
        /\ Unique(b) \subseteq FirstSeen(b) /\ FirstSeen(b) \subseteq DOMAIN b
        /\ (\A i \in Unique(b) : <<b[i], key>> \notin DOMAIN outIndex)
        BY DEF Unique, FirstSeen
  <1> HIDE DEF st
  <1>6. /\ DOMAIN outIndex' = DOMAIN outIndex \cup U
        /\ \A e \in DOMAIN outIndex : outIndex'[e] = outIndex[e]
        /\ \A i \in Unique(b) : outIndex'[<<b[i], key>>] = st.addr[b[i]]
    <2>1. \A i \in Unique(b) : <<b[i], key>> \in U /\ <<b[i], key>>[1] = b[i]
          OBVIOUS
    <2> HIDE DEF U
    <2> QED BY <1>2, <1>5, <2>1
  <1>7. IsIndex(outIndex') /\ \A e \in DOMAIN outIndex' : e[2] <= starts
    <2>1. ASSUME NEW e \in DOMAIN outIndex'
          PROVE  outIndex'[e] \in Addr /\ e \in Chunks \X Nat /\ e[2] <= starts
      <3>1. CASE e \in DOMAIN outIndex
        <4>1. outIndex[e] \in Addr /\ e \in Chunks \X Nat
              BY <1>3, <3>1 DEF IsIndex
        <4>2. e[2] <= starts
              BY <1>1, <3>1 DEF StoreTypes
        <4> QED BY <1>6, <3>1, <4>1, <4>2
      <3>2. CASE e \in U
        <4>1. PICK i \in Unique(b) : e = <<b[i], key>>
              BY <3>2
        <4>2. b[i] \in DOMAIN st.addr /\ b[i] \in Chunks
              BY <1>4, <1>5
        <4>3. outIndex'[e] \in Addr
              BY <1>4, <1>6, <4>1, <4>2
        <4>4. key <= starts
              BY <1>3
        <4> QED BY <1>3, <4>1, <4>2, <4>3, <4>4
      <3> QED BY <1>6, <2>1, <3>1, <3>2
    <2>2. outIndex' \in [DOMAIN outIndex' -> Addr]
      <3>1. outIndex' = [e \in DOMAIN outIndex' |-> outIndex'[e]]
            BY <1>2
      <3> QED BY <3>1, <2>1
    <2> QED BY <2>1, <2>2 DEF IsIndex
  <1> HIDE DEF U
  <1>8. /\ IsDisk(disk') /\ cur' \in Containers /\ conTimes' \in Nat /\ 0 < cur'.name /\ cur'.name < conTimes'
        /\ NamesOK(disk', cur', conTimes', key) /\ KeysUpTo(disk', cur', key)
        BY <1>2, <1>4 DEF GoodStore
  <1>9. recipe' \in Seq(Chunks) /\ 0 < conTimes'
    <2>1. recipe \in Seq(Chunks)
          BY <1>1 DEF StoreTypes
    <2>2. cur'.name \in Nat
          BY <1>8 DEF Containers
    <2> QED BY <1>2, <1>8, <2>1, <2>2, ConcatProperties
  <1>10. StoreTypes'
        BY <1>1, <1>2, <1>3, <1>7, <1>8, <1>9 DEF StoreTypes
  <1>11. \A c \in Chunks : <<c, key>> \in U <=> c \in DOMAIN st.addr
        BY <1>4 DEF U
  <1>12. IndexExact'
    <2>1. ASSUME NEW a \in Addr, NEW c \in Chunks
          PROVE  At(disk', cur', a, Rec(c)) <=> <<c, key>> \in DOMAIN outIndex' /\ outIndex'[<<c, key>>] = a
      <3>1. At(disk', cur', a, Rec(c)) <=>
              \/ <<c, key>> \in DOMAIN outIndex /\ outIndex[<<c, key>>] = a
              \/ c \in DOMAIN st.addr /\ a = st.addr[c]
            BY <1>2, <1>3, <1>4 DEF IndexExact
      <3>2. CASE c \in DOMAIN st.addr
        <4>1. PICK i \in Unique(b) : c = b[i]
              BY <1>4, <3>2
        <4> QED BY <1>5, <1>6, <1>11, <3>1, <3>2, <4>1
      <3>3. CASE c \notin DOMAIN st.addr
            BY <1>6, <1>11, <3>1, <3>3
      <3> QED BY <3>2, <3>3
    <2> QED BY <1>2, <2>1 DEF IndexExact, Rec
  <1>13. ASSUME ~warm PROVE ColdInv'
    <2>1. ColdInv
          BY <1>3, <1>13 DEF StoreInv
    <2>2. \A c \in DOMAIN heap.index :
             c \in Chunks /\ heap.index[c] \in Item /\ <<c, heap.index[c].addr>> \in Known(outIndex, key)
          BY <2>1, WithinSound DEF ColdInv
    <2>3. Known(outIndex, key) \subseteq Known(outIndex', key)
          BY <1>6 DEF Known
    <2>4. ASSUME NEW i \in FirstSeen(b)
          PROVE  <<b[i], key>> \in DOMAIN outIndex' /\ outIndex'[<<b[i], key>>] = AddrOf(b, i)
      <3>1. CASE i \in InHeap(b)
        <4>1. b[i] \in DOMAIN heap.index /\ AddrOf(b, i) = heap.index[b[i]].addr
              BY <3>1 DEF InHeap, Contains, AddrOf
        <4>2. <<b[i], AddrOf(b, i)>> \in Known(outIndex, key)
              BY <2>2, <4>1
        <4> QED BY <1>6, <4>2 DEF Known
      <3>2. CASE i \notin InHeap(b) /\ i \in Unique(b)
        <4>1. AddrOf(b, i) = st.addr[b[i]]
              BY <3>2 DEF AddrOf, st
        <4>2. <<b[i], key>> \in U
              BY <3>2 DEF U
        <4> QED BY <1>6, <3>2, <4>1, <4>2
      <3>3. CASE i \notin InHeap(b) /\ i \notin Unique(b)
        <4>1. <<b[i], key>> \in DOMAIN outIndex /\ AddrOf(b, i) = outIndex[<<b[i], key>>]
              BY <3>3 DEF AddrOf, Unique
        <4> QED BY <1>6, <4>1
      <3> QED BY <3>1, <3>2, <3>3
    <2>5. ASSUME NEW i \in FirstSeen(b)
          PROVE  /\ Freqs(b)[LastSeen(b, i)] \in Nat /\ <<b[i], Freqs(b)[LastSeen(b, i)]>> \in AnyFreq
                 /\ AddrOf(b, i) \in Addr /\ <<b[i], AddrOf(b, i)>> \in Known(outIndex', key)
      <3> DEFINE f == Freqs(b)[LastSeen(b, i)]
                 a == AddrOf(b, i)
      <3>1. i \in DOMAIN b /\ b[i] \in Chunks /\ sketch \in Sketches
            BY <1>5 DEF SketchInv
      <3>2. f \in Nat
            BY <3>1, FreqsOK
      <3>3. a \in Addr
            BY <1>2, AddrOfOK
      <3>4. <<b[i], key>> \in DOMAIN outIndex' /\ outIndex'[<<b[i], key>>] = a
            BY <2>4
      <3> HIDE DEF f, a
      <3>5. <<b[i], f>> \in AnyFreq /\ <<b[i], a>> \in AnyAddr
            BY <3>1, <3>2, <3>3 DEF AnyFreq, AnyAddr
      <3>6. <<b[i], a>> \in Known(outIndex', key)
            BY <3>4, <3>5 DEF Known
      <3> QED BY <3>2, <3>3, <3>5, <3>6 DEF f, a
    <2>6. Within(heap', AnyFreq, Known(outIndex', key'))
      <3>1. Within(heap, AnyFreq, Known(outIndex', key))
            BY <2>1, <2>3, WithinMore DEF ColdInv
      <3> DEFINE A == Known(outIndex', key)
      <3>2. \A i \in FirstSeen(b) :
               /\ Freqs(b)[LastSeen(b, i)] \in Nat /\ <<b[i], Freqs(b)[LastSeen(b, i)]>> \in AnyFreq
               /\ AddrOf(b, i) \in Addr /\ <<b[i], AddrOf(b, i)>> \in A
            BY <2>5
      <3> HIDE DEF A
      <3>3. Within(HeapAfter(b), AnyFreq, A)
            BY <3>1, <3>2, HeapAfterOK DEF A
      <3> QED BY <1>2, <3>3 DEF A
    <2>7. ASSUME NEW i \in DOMAIN b PROVE <<b[i], key>> \in DOMAIN outIndex'
      <3>1. PICK j \in FirstSeen(b) : b[j] = b[i]
        <4> DEFINE P == {j \in DOMAIN b : b[j] = b[i]}
        <4>1. P \in SUBSET Nat /\ P # {}
              BY <1>5
        <4>2. Min(P) \in P /\ \A y \in P : Min(P) <= y
              BY <4>1, MinOK
        <4> DEFINE m == Min(P)
        <4> HIDE DEF m
        <4>3. m \in DOMAIN b /\ b[m] = b[i] /\ m \in Nat /\ \A j \in DOMAIN b : b[j] = b[i] => m <= j
              BY <4>1, <4>2 DEF m
        <4>4. ASSUME NEW j \in 1..(m - 1) PROVE b[j] # b[m]
          <5>1. j \in DOMAIN b /\ ~(m <= j)
                BY <1>5, <4>3
          <5> QED BY <4>3, <5>1
        <4> QED BY <4>3, <4>4 DEF FirstSeen
      <3> QED BY <2>4, <3>1
    <2>8. \A i \in DOMAIN recipe' : <<recipe'[i], key>> \in DOMAIN outIndex'
      <3> DEFINE n == Len(recipe)
                 q == recipe'
      <3>1. recipe \in Seq(Chunks) /\ n \in Nat /\ DOMAIN recipe = 1..n
            BY <1>1 DEF StoreTypes
      <3>2. /\ DOMAIN q = 1..(n + Len(b))
            /\ \A i \in 1..(n + Len(b)) : q[i] = IF i <= n THEN recipe[i] ELSE b[i - n]
            BY <1>2, <1>5, <3>1, ConcatProperties
      <3> HIDE DEF n, q
      <3>3. ASSUME NEW i \in DOMAIN q PROVE <<q[i], key>> \in DOMAIN outIndex'
        <4>1. CASE i <= n
          <5>1. i \in DOMAIN recipe /\ q[i] = recipe[i]
                BY <1>5, <3>1, <3>2, <4>1
          <5> QED BY <1>6, <2>1, <5>1 DEF ColdInv
        <4>2. CASE ~(i <= n)
          <5>1. i - n \in DOMAIN b /\ q[i] = b[i - n]
                BY <1>5, <3>1, <3>2, <4>2
          <5> QED BY <2>7, <5>1
        <4> QED BY <4>1, <4>2
      <3> QED BY <3>3 DEF q
    <2>9. \A r \in recipes : r.start = starts => \A i \in DOMAIN r.chunks : <<r.chunks[i], key>> \in DOMAIN outIndex'
          BY <1>6, <2>1 DEF ColdInv
    <2> QED BY <1>2, <2>6, <2>8, <2>9 DEF ColdInv
  <1> QED BY <1>2, <1>3, <1>8, <1>10, <1>12, <1>13 DEF StoreInv

LEMMA StoreStep == TopKInv /\ [Next]_vars => StoreInv'
  <1> SUFFICES ASSUME HeapInv, SketchInv, StoreInv, [Next]_vars PROVE StoreInv'
      BY DEF TopKInv
  <1>1. ASSUME NEW b \in Batches, ProcessOneBatch(b) PROVE StoreInv'
    <2>1. b \in Seq(Chunks)
          BY TopKAssumption
    <2> QED BY <1>1, <2>1, BatchStore
  <1>2. CASE UNCHANGED vars
    <2>1. /\ pc' = pc /\ key' = key /\ heap' = heap /\ outIndex' = outIndex /\ conTimes' = conTimes /\ cur' = cur
          /\ recipe' = recipe /\ disk' = disk /\ recipes' = recipes /\ sealedKey' = sealedKey /\ db' = db
          /\ starts' = starts /\ warm' = warm
          BY <1>2 DEF vars, enclaveVars, sessionVars, storeVars, sealedVars, history
    <2>2. StoreTypes'
          BY <2>1 DEF StoreInv, StoreTypes
    <2>3. Running' => key' = starts' /\ NamesOK(disk', cur', conTimes', key') /\ IndexExact'
          BY <2>1 DEF StoreInv, Running, IndexExact, Rec
    <2>4. Running' /\ ~warm' => ColdInv'
          BY <2>1 DEF StoreInv, Running, ColdInv
    <2> QED BY <2>2, <2>3, <2>4 DEF StoreInv
  <1> QED BY <1>1, <1>2, ShutdownStore, StartStore, BeginStore, EndStore DEF Next

LEMMA TopKInduction == Spec => []TopKInv
  <1>1. Init => TopKInv
        BY HeapAndSketchInit, StoreInit DEF TopKInv
  <1>2. TopKInv /\ [Next]_vars => TopKInv'
        BY HeapAndSketchStep, StoreStep DEF TopKInv
  <1> QED BY <1>1, <1>2, PTL DEF Spec

\* A chunk the outside index knows is stored there, and nowhere else.
LEMMA KnownOnce ==
  ASSUME StoreInv, Running, NEW c \in Chunks, <<c, key>> \in DOMAIN outIndex
  PROVE  Found(c) /\ Cardinality(Copies(c)) = 1
  <1> DEFINE x == outIndex[<<c, key>>]
  <1>1. IsDisk(disk) /\ cur \in Containers /\ IsIndex(outIndex) /\ IndexExact
        BY DEF StoreInv, StoreTypes
  <1>2. x \in Addr
        BY <1>1 DEF IsIndex
  <1>3. \A a \in Addr : At(disk, cur, a, Rec(c)) <=> a = x
        BY <1>1 DEF IndexExact
  <1>4. At(disk, cur, x, Rec(c))
        BY <1>2, <1>3
  <1>5. Found(c)
        BY <1>4 DEF Found, Holds, At, Rec
  <1> HIDE DEF x
  <1>6. ASSUME NEW a \in Copies(c) PROVE a = x
    <2>1. CASE a \in {y \in (DOMAIN disk) \X (1..ContainerMax) : y[2] \in DOMAIN disk[y[1]] /\ disk[y[1]][y[2]] = Rec(c)}
      <3>1. a \in Addr
        <4>1. a \in (DOMAIN disk) \X (1..ContainerMax)
              BY <2>1
        <4>2. DOMAIN disk \subseteq Nat /\ 1..ContainerMax \subseteq Nat
              BY <1>1, TopKAssumption DEF IsDisk
        <4> QED BY <4>1, <4>2 DEF Addr
      <3>2. At(disk, cur, a, Rec(c))
            BY <2>1 DEF At
      <3> QED BY <1>3, <3>1, <3>2
    <2>2. CASE a \in {<<cur.name, i>> : i \in {j \in DOMAIN cur.body : cur.body[j] = Rec(c)}}
      <3>1. PICK i \in DOMAIN cur.body : cur.body[i] = Rec(c) /\ a = <<cur.name, i>>
            BY <2>2
      <3>2. cur.name \in Nat /\ i \in Nat
            BY <1>1 DEF Containers, Bodies
      <3>3. a \in Addr /\ a[1] = cur.name /\ a[2] = i
            BY <3>1, <3>2 DEF Addr
      <3>4. At(disk, cur, a, Rec(c))
            BY <3>1, <3>3 DEF At
      <3> QED BY <1>3, <3>3, <3>4
    <2> QED BY <1>6, <2>1, <2>2 DEF Copies, Rec
  <1>7. x \in Copies(c)
    <2>1. x = <<x[1], x[2]>> /\ x[1] \in Nat /\ x[2] \in Nat
          BY <1>2 DEF Addr
    <2>2. CASE x[1] \in DOMAIN disk /\ x[2] \in DOMAIN disk[x[1]] /\ disk[x[1]][x[2]] = Rec(c)
      <3>1. disk[x[1]] \in Seq(Recs) /\ Len(disk[x[1]]) <= ContainerMax
            BY <1>1, <2>2 DEF IsDisk, Bodies
      <3>2. x[2] \in 1..ContainerMax
            BY <2>1, <2>2, <3>1, TopKAssumption
      <3>3. x \in (DOMAIN disk) \X (1..ContainerMax)
            BY <2>1, <2>2, <3>2
      <3> QED BY <2>2, <3>3 DEF Copies, Rec
    <2>3. CASE cur.name = x[1] /\ x[2] \in DOMAIN cur.body /\ cur.body[x[2]] = Rec(c)
      <3>1. x \in {<<cur.name, i>> : i \in {j \in DOMAIN cur.body : cur.body[j] = Rec(c)}}
            BY <2>1, <2>3
      <3> QED BY <3>1 DEF Copies, Rec
    <2> QED BY <1>4, <2>2, <2>3 DEF At
  <1>8. Copies(c) = {x}
        BY <1>6, <1>7
  <1> QED BY <1>5, <1>8, FS_Singleton

-----------------------------------------------------------------------------
(* The theorems.                                                           *)

\* Whatever additions, evictions, updates and reloads made it, the heap of
\* EcallEntryHeap keeps vector and map on the same keys, every item at the
\* position it remembers, no parent above its child, and the limit.
THEOREM HeapStaysSound == Spec => []HeapSound
  <1>1. TopKInv => HeapSound
        BY WithinSound DEF TopKInv, HeapInv
  <1> QED BY <1>1, TopKInduction, PTL

\* Unless a kill tore the sketch file from the heap file, no frequency in
\* the heap is above the estimate of its chunk, which is what lets
\* ProcessOneBatch skip the heap for a chunk below its least frequency.
THEOREM HeapStaysBelowSketch == Spec => []HeapBelowSketch
  <1>1. TopKInv => HeapBelowSketch
    <2> SUFFICES ASSUME TopKInv, ~torn, NEW c \in DOMAIN heap.index
                 PROVE  heap.index[c].freq <= Estimate(sketch, c)
        BY DEF HeapBelowSketch
    <2>1. Within(heap, Under(sketch), AnyAddr)
          BY DEF TopKInv, SketchInv
    <2>2. <<c, heap.index[c].freq>> \in Under(sketch)
          BY <2>1, WithinSound
    <2> QED BY <2>2 DEF Under
  <1> QED BY <1>1, TopKInduction, PTL

\* A process that did not start with an earlier heap stores every chunk it
\* takes in exactly once, where the outside index says, and its heap agrees
\* with that index (ProcessOneBatch, SaveChunk, Ocall_UpdateOutIndex).
THEOREM TakenInOnce == Spec => []FoundOnce
  <1>1. TopKInv => FoundOnce
    <2> SUFFICES ASSUME HeapInv, StoreInv, Running, ~warm
                 PROVE  /\ \A r \in recipes : r.start = starts =>
                             \A i \in DOMAIN r.chunks : Found(r.chunks[i]) /\ Cardinality(Copies(r.chunks[i])) = 1
                        /\ \A i \in DOMAIN recipe : Found(recipe[i]) /\ Cardinality(Copies(recipe[i])) = 1
                        /\ \A c \in DOMAIN heap.index : Found(c) /\ heap.index[c].addr = outIndex[<<c, key>>]
        BY DEF TopKInv, FoundOnce
    <2>1. StoreTypes /\ ColdInv
          BY DEF StoreInv
    <2>2. ASSUME NEW r \in recipes, r.start = starts, NEW i \in DOMAIN r.chunks
          PROVE  Found(r.chunks[i]) /\ Cardinality(Copies(r.chunks[i])) = 1
      <3> DEFINE x == r.chunks[i]
      <3>1. r.chunks \in Seq(Chunks)
            BY <2>1 DEF StoreTypes
      <3>2. x \in Chunks
            BY <2>2, <3>1
      <3>3. <<x, key>> \in DOMAIN outIndex
            BY <2>1, <2>2 DEF ColdInv
      <3> HIDE DEF x
      <3>4. Found(x) /\ Cardinality(Copies(x)) = 1
            BY <3>2, <3>3, KnownOnce
      <3> QED BY <3>4 DEF x
    <2>3. ASSUME NEW i \in DOMAIN recipe PROVE Found(recipe[i]) /\ Cardinality(Copies(recipe[i])) = 1
      <3> DEFINE x == recipe[i]
      <3>1. recipe \in Seq(Chunks)
            BY <2>1 DEF StoreTypes
      <3>2. x \in Chunks /\ <<x, key>> \in DOMAIN outIndex
            BY <2>1, <2>3, <3>1 DEF ColdInv
      <3> HIDE DEF x
      <3>3. Found(x) /\ Cardinality(Copies(x)) = 1
            BY <3>2, KnownOnce
      <3> QED BY <3>3 DEF x
    <2>4. ASSUME NEW c \in DOMAIN heap.index PROVE Found(c) /\ heap.index[c].addr = outIndex[<<c, key>>]
      <3>1. c \in Chunks /\ <<c, heap.index[c].addr>> \in Known(outIndex, key)
            BY <2>1, WithinSound DEF ColdInv
      <3>2. <<c, key>> \in DOMAIN outIndex /\ heap.index[c].addr = outIndex[<<c, key>>]
            BY <3>1 DEF Known
      <3> QED BY <3>1, <3>2, KnownOnce
    <2> QED BY <2>2, <2>3, <2>4
  <1> QED BY <1>1, TopKInduction, PTL
=============================================================================
