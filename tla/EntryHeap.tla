------------------------------ MODULE EntryHeap ------------------------------
(* EcallEntryHeap: a min-heap by frequency with a map from each key to its *)
(* item; an item remembers its position in the heap.  A heap is a record:  *)
(* at is the vector _heap (positions from 1, where the code counts from 0) *)
(* and index the map _index.  TopK >= 2 keeps Pop away from a heap of one, *)
(* which the code does not handle.                                         *)
EXTENDS Naturals, Sequences

EmptyHeap == [at |-> <<>>, index |-> <<>>]

ParentIdx(i) == i \div 2

ChildIdx(i) == 2 * i

Size(h) == Len(h.at)

Contains(h, c) == c \in DOMAIN h.index

Freq(h, i) == h.index[h.at[i]].freq

TopEntry(h) == Freq(h, 1)

\* std::swap(_heap[i], _heap[j]); _heap[i]->second.idx = i
Swapped(h, i, j) ==
  [at |-> [h.at EXCEPT ![i] = h.at[j], ![j] = h.at[i]],
   index |-> [h.index EXCEPT ![h.at[j]].idx = i]]

\* One round of a sift leaves its argument alone once the loop's condition
\* fails, and no sift takes more rounds than there are positions.
UpRound(s) ==
  IF s.idx > 1 /\ Freq(s.h, s.idx) < Freq(s.h, ParentIdx(s.idx))
  THEN [h |-> Swapped(s.h, s.idx, ParentIdx(s.idx)), idx |-> ParentIdx(s.idx)]
  ELSE s

SwapUp(h, i) ==
  LET s[k \in 0..Size(h)] == IF k = 0 THEN [h |-> h, idx |-> i] ELSE UpRound(s[k - 1])
  IN  s[Size(h)]

\* The child with the smaller frequency, the left one if they are equal.
SmallChild(h, i) ==
  LET left == ChildIdx(i)
  IN  IF left < Size(h) /\ Freq(h, left + 1) < Freq(h, left) THEN left + 1 ELSE left

DownRound(s) ==
  IF /\ ChildIdx(s.idx) <= Size(s.h)
     /\ Freq(s.h, SmallChild(s.h, s.idx)) < Freq(s.h, s.idx)
  THEN [h |-> Swapped(s.h, s.idx, SmallChild(s.h, s.idx)), idx |-> SmallChild(s.h, s.idx)]
  ELSE s

SwapDown(h, i) ==
  LET s[k \in 0..Size(h)] == IF k = 0 THEN [h |-> h, idx |-> i] ELSE DownRound(s[k - 1])
  IN  s[Size(h)]

\* The element that moved is told its position when the sift is over.
Placed(s) == [s.h EXCEPT !.index[s.h.at[s.idx]].idx = s.idx]

Pop(h) ==
  LET n == Size(h)
  IN  Placed(SwapDown([at |-> SubSeq([h.at EXCEPT ![1] = h.at[n]], 1, n - 1),
                       index |-> [c \in DOMAIN h.index \ {h.at[1]} |-> h.index[c]]], 1))

Add(h, c, item) ==
  Placed(SwapUp([at |-> Append(h.at, c),
                 index |-> [d \in DOMAIN h.index \cup {c} |->
                              IF Contains(h, d) THEN h.index[d] ELSE item]], Size(h) + 1))

\* Mutant: a frequency is taken to go down only.
UpdateUpOnly(h, c, freq) ==
  Placed(SwapUp([h EXCEPT !.index[h.at[h.index[c].idx]].freq = freq], h.index[c].idx))

Update(h, c, freq) ==
  LET up == SwapUp([h EXCEPT !.index[h.at[h.index[c].idx]].freq = freq], h.index[c].idx)
  IN  Placed(SwapDown(up.h, up.idx))

=============================================================================
