--------------------------- MODULE PlacementProofs ---------------------------
(***************************************************************************)
(* Index, headers and files agree: the theorems behind HeadersCurrent,     *)
(* EntriesFound, Tiled and ColdMarksExact.  The four need each other: the  *)
(* offline pass squeezes and merges containers by the headers it finds,    *)
(* and the records it moves are found through the index.                   *)
(***************************************************************************)
EXTENDS NameProofs, FiniteSetTheorems

-----------------------------------------------------------------------------
(* The invariant.                                                          *)

\* Records that cover a container of this name, each with its own place in
\* its header.
Proper(k, recs, size) ==
    /\ Tiles(recs, size)
    /\ \A r \in recs : r.pos >= 0 /\ r.addr.cid = k /\ r.addr.off = r.pos

\* The containers that are on their way to disk.
Way(b, d, h, q, w) ==
    {b, d, h} \cup {AsContainer(q[i]) : i \in 1 .. Len(q)} \cup {AsContainer(w[i]) : i \in 1 .. Len(w)}
OnTheWay == Way(inBase, inDelta, hot, queue, writing)

HoldersProper ==
    /\ \A g \in OnTheWay : /\ g.cid <= MaxCid /\ (g.cid = 0 => g.recs = {})
                           /\ Proper(g.cid, g.recs, g.size)
    /\ \A k \in Cids : /\ Proper(k, file[k].recs, file[k].size)
                       /\ file[k].kind = "none" => file[k].recs = {}
    /\ \A i \in 1 .. Len(writing) : file[writing[i].cid].recs = {}

\* What is idle in which phase.
PhaseFacts ==
    /\ phase \notin {"recv", "batch", "ended"} =>
          inBase = EmptyContainer(0) /\ inDelta = EmptyContainer(0)
    /\ phase # "batch" => batch.done = <<>>
    /\ phase \in {"pairs", "deltas", "cold", "walk", "merge", "stale"} => queue = <<>> /\ writing = <<>>
    /\ phase \in {"pairs", "deltas"} => hot.cid # 0
    /\ phase \notin {"pairs", "deltas", "stale"} => hot = EmptyContainer(0)
    /\ phase # "walk" => walk = NoWalk
    /\ phase \notin {"pairs", "deltas", "cold", "walk", "stale"} => \A k \in Cids : cold[k] = {}
    /\ phase = "deltas" => HasBaseFile(work.old)

\* The records of all containers, the one being squeezed as far as it goes.
WayRecs == UNION {g.recs : g \in OnTheWay}
DiskRecs == UNION {Disk(k) : k \in Cids}
Live == WayRecs \cup DiskRecs

\* HeadersCurrent, record by record.
Marked(r) == r.pos \in ColdOffsets(r.addr.cid)
LiveCurrent ==
    \A r \in Live : \/ fpIndex[r.fp] = r.addr
                    \/ InBatch(r)
                    \/ Marked(r) /\ r \notin walk.recs

\* A name that was given out and that nothing carries any more.
Unused(k) ==
    /\ 0 < k /\ k < nextCid
    /\ \A g \in OnTheWay : g.cid # k
    /\ k \in Cids => file[k].kind = "none"

\* EntriesFound; a container that a disconnect took along never comes back.
Stored(c, a) == \E r \in Live : r.fp = c /\ r.addr = a
LiveFound ==
    \A c \in Chunks : Indexed(c) => Stored(c, fpIndex[c]) \/ (broken > 0 /\ Unused(fpIndex[c].cid))

\* The chunks of a batch are stored once each.
BatchLive ==
    /\ \A i \in 1 .. Len(batch.done) : Stored(batch.done[i].fp, batch.done[i].addr)
    /\ \A i, j \in 1 .. Len(batch.done) : batch.done[i].fp = batch.done[j].fp => i = j
    /\ \A i \in 1 .. Len(batch.todo) : batch.todo[i].new =>
          /\ \A j \in 1 .. Len(batch.done) : batch.todo[i].fp # batch.done[j].fp
          /\ \A j \in 1 .. Len(batch.todo) :
                batch.todo[j].new /\ batch.todo[i].fp = batch.todo[j].fp => i = j

\* The loop over a container stands at a record, what it has copied is a
\* container of its own, and what it still has to remove lies ahead.
Boundary(recs, size, p) == p = size \/ \E r \in recs : r.pos = p
WalkInv ==
    phase = "walk" =>
      /\ walk.cid \in Cids /\ file[walk.cid].kind # "none" /\ cold[walk.cid] = {}
      /\ walk.size = file[walk.cid].size
      /\ {r \in walk.buf : r.pos < walk.size} = file[walk.cid].recs
      /\ Boundary(file[walk.cid].recs, walk.size, walk.saveset)
      /\ walk.saveset = walk.newset + walk.coldset /\ walk.coldset >= 0
      /\ Proper(walk.cid, walk.recs, walk.newset)
      /\ \A r \in walk.recs : fpIndex[r.fp] = r.addr
      /\ \A q \in walk.rest : walk.saveset <= q[1]

\* The pairs of MergeContainer are small base containers, each in one pair.
MergeInv ==
    phase = "merge" => \A q \in merges :
      /\ q[1] # q[2] /\ file[q[1]].kind = "base" /\ file[q[2]].kind = "base"
      /\ file[q[1]].size + file[q[2]].size < MaxContainer
      /\ \A s \in merges : s # q => /\ s[1] # q[1] /\ s[1] # q[2]
                                    /\ s[2] # q[1] /\ s[2] # q[2]

PlaceInv ==
    /\ HoldersProper /\ PhaseFacts /\ LiveCurrent /\ LiveFound /\ BatchLive
    /\ ColdMarksExact /\ WalkInv /\ MergeInv

-----------------------------------------------------------------------------
(* Containers: what Proper says, and how it survives growing and joining.  *)

LEMMA RecFields ==
  ASSUME NEW r \in Rec
  PROVE  /\ r.pos \in Int /\ r.fp \in Chunks /\ r.addr \in Addr
         /\ r.addr.cid \in Nat /\ r.addr.off \in Int /\ r.addr.len \in Nat
  BY DEF Rec, Addr

LEMMA HdrPositive == Hdr \in Nat /\ Hdr > 0 /\ MaxContainer \in Nat /\ MaxContainer > 0
  BY ContainerAssumption

LEMMA ProperEmpty ==
  ASSUME NEW k
  PROVE  Proper(k, {}, 0)
  BY HdrPositive DEF Proper, Tiles

LEMMA ProperFacts ==
  ASSUME NEW k, NEW recs \in SUBSET Rec, NEW size \in Int, Proper(k, recs, size)
  PROVE  /\ size >= 0 /\ size < MaxContainer
         /\ size = 0 <=> recs = {}
         /\ \A r \in recs : /\ r.pos \in Int /\ r.pos >= 0 /\ r.addr.len \in Nat
                            /\ r.pos < size /\ r.pos + Hdr + r.addr.len <= size
                            /\ r.addr.cid = k /\ r.addr.off = r.pos
         /\ \A r, t \in recs : r # t => t.pos < r.pos \/ t.pos >= r.pos + Hdr + r.addr.len
         /\ \A r, t \in recs : r.pos = t.pos => r = t
         /\ \A r \in recs : Boundary(recs, size, r.pos + Hdr + r.addr.len)
         /\ Boundary(recs, size, 0)
  <1>1. \A r \in recs : r.pos \in Int /\ r.addr.len \in Nat
        BY RecFields
  <1>2. /\ size < MaxContainer
        /\ recs = {} => size = 0
        /\ recs # {} => \E r \in recs : r.pos = 0
        /\ \A r \in recs : r.pos >= 0 /\ r.addr.cid = k /\ r.addr.off = r.pos
        BY DEF Proper, Tiles
  <1>3. \A r \in recs :
          /\ r.pos + Hdr + r.addr.len = size \/ \E t \in recs : t.pos = r.pos + Hdr + r.addr.len
          /\ r.pos + Hdr + r.addr.len <= size
          /\ \A t \in recs : t # r => t.pos < r.pos \/ t.pos >= r.pos + Hdr + r.addr.len
        BY DEF Proper, Tiles
  <1>4. \A r \in recs : r.pos < size
        BY <1>1, <1>3, HdrPositive
  <1>5. \A r, t \in recs : r.pos = t.pos => r = t
        BY <1>1, <1>3, HdrPositive
  <1>6. size >= 0 /\ (size = 0 <=> recs = {})
        BY <1>1, <1>2, <1>4
  <1>7. /\ \A r \in recs : Boundary(recs, size, r.pos + Hdr + r.addr.len)
        /\ Boundary(recs, size, 0)
        BY <1>2, <1>3 DEF Boundary
  <1> QED BY <1>1, <1>2, <1>3, <1>4, <1>5, <1>6, <1>7

\* A record is appended where the container ends.
LEMMA ProperAppend ==
  ASSUME NEW k, NEW recs \in SUBSET Rec, NEW size \in Int, Proper(k, recs, size),
         NEW r \in Rec, r.pos = size, r.addr.cid = k, r.addr.off = size,
         size + Hdr + r.addr.len < MaxContainer
  PROVE  Proper(k, recs \cup {r}, size + Hdr + r.addr.len)
  <1> DEFINE n == size + Hdr + r.addr.len
             R == recs \cup {r}
  <1>1. r.addr.len \in Nat /\ n \in Int /\ n > size
        BY RecFields, HdrPositive
  <1>2. /\ size >= 0 /\ (size = 0 <=> recs = {})
        /\ \A t \in recs : t.pos \in Int /\ t.addr.len \in Nat /\ t.pos < size /\ t.pos + Hdr + t.addr.len <= size
        BY ProperFacts
  <1>3. /\ recs # {} => \E t \in recs : t.pos = 0
        /\ \A t \in recs : t.pos >= 0 /\ t.addr.cid = k /\ t.addr.off = t.pos
        /\ \A t \in recs :
            /\ t.pos + Hdr + t.addr.len = size \/ \E u \in recs : u.pos = t.pos + Hdr + t.addr.len
            /\ \A u \in recs : u # t => u.pos < t.pos \/ u.pos >= t.pos + Hdr + t.addr.len
        BY DEF Proper, Tiles
  <1>4. \E t \in R : t.pos = 0
        BY <1>2, <1>3
  <1>5. \A t \in R : t.pos >= 0 /\ t.addr.cid = k /\ t.addr.off = t.pos
        BY <1>2, <1>3
  <1>6. ASSUME NEW t \in R
        PROVE  /\ t.pos + Hdr + t.addr.len = n \/ \E u \in R : u.pos = t.pos + Hdr + t.addr.len
               /\ t.pos + Hdr + t.addr.len <= n
               /\ \A u \in R : u # t => u.pos < t.pos \/ u.pos >= t.pos + Hdr + t.addr.len
    <2>1. CASE t = r
          BY <2>1, <1>1, <1>2
    <2>2. CASE t \in recs
      <3>1. t.pos + Hdr + t.addr.len = r.pos \/ \E u \in recs : u.pos = t.pos + Hdr + t.addr.len
            BY <2>2, <1>3
      <3>2. t.pos + Hdr + t.addr.len <= r.pos /\ t.pos + Hdr + t.addr.len \in Int
            BY <2>2, <1>2, HdrPositive
      <3>3. \A u \in recs : u # t => u.pos < t.pos \/ u.pos >= t.pos + Hdr + t.addr.len
            BY <2>2, <1>3
      <3>4. t.pos + Hdr + t.addr.len <= n
            BY <3>2, <1>1
      <3> QED BY <3>1, <3>2, <3>3, <3>4
    <2> QED BY <2>1, <2>2
  <1> QED BY <1>4, <1>5, <1>6 DEF Proper, Tiles

\* The records of a second container are put behind those of the first.
LEMMA ShiftedFields ==
  ASSUME NEW r \in Rec, NEW k \in Nat, NEW by \in Int
  PROVE  /\ Shifted(r, k, by) \in Rec /\ Shifted(r, k, by).pos = r.pos + by
         /\ Shifted(r, k, by).fp = r.fp /\ Shifted(r, k, by).addr.cid = k
         /\ Shifted(r, k, by).addr.off = r.addr.off + by
         /\ Shifted(r, k, by).addr.len = r.addr.len /\ Shifted(r, k, by).addr.base = r.addr.base
         /\ Shifted(r, k, by).src = r.src
  <1>1. r.addr \in Addr /\ r.pos \in Int /\ r.addr.off \in Int
        BY RecFields
  <1> DEFINE n == r.addr.off + by
             p == r.pos + by
             a == [r.addr EXCEPT !.cid = k, !.off = n]
  <1>2. n \in Int /\ p \in Int
        BY <1>1
  <1> HIDE DEF n, p
  <1>3. a \in Addr /\ a.cid = k /\ a.off = n /\ a.len = r.addr.len /\ a.base = r.addr.base
        BY <1>1, <1>2 DEF Addr
  <1>4. Shifted(r, k, by) = [r EXCEPT !.pos = p, !.addr = a]
        BY DEF Shifted, n, p
  <1> HIDE DEF a
  <1>5. DOMAIN r = {"pos", "fp", "addr", "src"}
        BY DEF Rec
  <1>6. [r EXCEPT !.pos = p, !.addr = a] \in Rec
        BY <1>2, <1>3 DEF Rec
  <1>7. /\ Shifted(r, k, by).pos = p /\ Shifted(r, k, by).addr = a
        /\ Shifted(r, k, by).fp = r.fp /\ Shifted(r, k, by).src = r.src
        BY <1>4, <1>5
  <1> QED BY <1>3, <1>4, <1>6, <1>7 DEF n, p

LEMMA ProperMerge ==
  ASSUME NEW k \in Nat, NEW j, NEW R \in SUBSET Rec, NEW S \in SUBSET Rec, NEW m \in Int, NEW n \in Int,
         Proper(k, R, m), Proper(j, S, n), m + n < MaxContainer
  PROVE  Proper(k, R \cup {Shifted(r, k, m) : r \in S}, m + n)
  <1> DEFINE T == {Shifted(r, k, m) : r \in S}
             U == R \cup T
  <1>1. /\ m >= 0 /\ (m = 0 <=> R = {})
        /\ \A r \in R : /\ r.pos \in Int /\ r.pos >= 0 /\ r.addr.len \in Nat
                        /\ r.pos < m /\ r.pos + Hdr + r.addr.len <= m
                        /\ r.addr.cid = k /\ r.addr.off = r.pos
        BY ProperFacts
  <1>2. /\ n >= 0 /\ (n = 0 <=> S = {})
        /\ \A r \in S : /\ r.pos \in Int /\ r.pos >= 0 /\ r.addr.len \in Nat
                        /\ r.pos < n /\ r.pos + Hdr + r.addr.len <= n
                        /\ r.addr.off = r.pos
        BY ProperFacts
  <1>a. /\ \A r, t \in R : r # t => t.pos < r.pos \/ t.pos >= r.pos + Hdr + r.addr.len
        /\ \A r, t \in S : r # t => t.pos < r.pos \/ t.pos >= r.pos + Hdr + r.addr.len
        BY ProperFacts
  <1>b. /\ \A r \in R : r.pos + Hdr + r.addr.len = m \/ \E t \in R : t.pos = r.pos + Hdr + r.addr.len
        /\ \A r \in S : r.pos + Hdr + r.addr.len = n \/ \E t \in S : t.pos = r.pos + Hdr + r.addr.len
        /\ m = 0 \/ \E r \in R : r.pos = 0
        /\ n = 0 \/ \E r \in S : r.pos = 0
        BY ProperFacts DEF Boundary
  <1>3. \A r \in S : /\ Shifted(r, k, m) \in T /\ Shifted(r, k, m).pos = r.pos + m
                     /\ Shifted(r, k, m).addr.cid = k
                     /\ Shifted(r, k, m).addr.off = r.addr.off + m
                     /\ Shifted(r, k, m).addr.len = r.addr.len
        BY ShiftedFields
  \* The second half, from m to m + n.
  <1>4. ASSUME NEW t \in T
        PROVE  /\ t.pos \in Int /\ t.pos >= m /\ t.addr.len \in Nat /\ t.addr.cid = k /\ t.addr.off = t.pos
               /\ t.pos + Hdr + t.addr.len <= m + n
               /\ t.pos + Hdr + t.addr.len = m + n \/ \E u \in T : u.pos = t.pos + Hdr + t.addr.len
    <2>1. PICK r \in S : t = Shifted(r, k, m)
          OBVIOUS
    <2>2. /\ t.pos = r.pos + m /\ t.addr.cid = k /\ t.addr.off = r.pos + m /\ t.addr.len = r.addr.len
          /\ r.pos \in Int /\ r.pos >= 0 /\ r.addr.len \in Nat /\ r.pos + Hdr + r.addr.len <= n
          BY <2>1, <1>2, <1>3
    <2>3. /\ t.pos \in Int /\ t.pos >= m /\ t.addr.len \in Nat /\ t.addr.cid = k /\ t.addr.off = t.pos
          /\ t.pos + Hdr + t.addr.len <= m + n
          BY <2>2, HdrPositive
    <2>4. CASE r.pos + Hdr + r.addr.len = n
      <3>1. t.pos + Hdr + t.addr.len = m + n
            BY <2>2, <2>4, HdrPositive
      <3> QED BY <2>3, <3>1
    <2>5. CASE \E v \in S : v.pos = r.pos + Hdr + r.addr.len
      <3>1. PICK v \in S : v.pos = r.pos + Hdr + r.addr.len
            BY <2>5
      <3>2. Shifted(v, k, m) \in T /\ Shifted(v, k, m).pos = v.pos + m
            BY <1>3
      <3>3. v.pos + m = t.pos + Hdr + t.addr.len
            BY <2>2, <3>1, HdrPositive
      <3> QED BY <2>3, <3>2, <3>3
    <2> QED BY <1>b, <2>4, <2>5
  <1>5. ASSUME NEW t \in T, NEW u \in T, u # t
        PROVE  u.pos < t.pos \/ u.pos >= t.pos + Hdr + t.addr.len
    <2>1. PICK r \in S : t = Shifted(r, k, m)
          OBVIOUS
    <2>2. PICK v \in S : u = Shifted(v, k, m)
          OBVIOUS
    <2>3. r # v
          BY <1>5, <2>1, <2>2
    <2>4. v.pos < r.pos \/ v.pos >= r.pos + Hdr + r.addr.len
          BY <1>a, <2>3
    <2>5. t.pos = r.pos + m /\ u.pos = v.pos + m /\ t.addr.len = r.addr.len /\ r.pos \in Int /\ v.pos \in Int
          /\ r.addr.len \in Nat
          BY <2>1, <2>2, <1>2, <1>3
    <2> QED BY <2>4, <2>5, HdrPositive
  <1>6. n = 0 \/ \E t \in T : t.pos = m
    <2>1. CASE n = 0
          BY <2>1
    <2>2. CASE \E r \in S : r.pos = 0
          BY <2>2, <1>3
    <2> QED BY <1>b, <2>1, <2>2
  <1>7. U = {} => m + n = 0
    <2>1. U = {} => R = {} /\ S = {}
          BY <1>3
    <2> QED BY <2>1, <1>1, <1>2
  <1>8. U # {} => \E r \in U : r.pos = 0
    <2>1. CASE m = 0
      <3>1. T = {} => R \cup T = {}
            BY <2>1, <1>1
      <3>2. n = 0 => T = {}
            BY <1>2
      <3> QED BY <2>1, <3>1, <3>2, <1>6
    <2>2. CASE \E r \in R : r.pos = 0
          BY <2>2
    <2> QED BY <1>b, <2>1, <2>2
  <1> HIDE DEF T
  <1>9. \A r \in U : r.pos >= 0 /\ r.addr.cid = k /\ r.addr.off = r.pos
        BY <1>1, <1>4
  <1>10. ASSUME NEW r \in U
        PROVE  /\ r.pos + Hdr + r.addr.len = m + n \/ \E u \in U : u.pos = r.pos + Hdr + r.addr.len
               /\ r.pos + Hdr + r.addr.len <= m + n
               /\ \A u \in U : u # r => u.pos < r.pos \/ u.pos >= r.pos + Hdr + r.addr.len
    <2>1. CASE r \in R
      <3>1. r.pos + Hdr + r.addr.len <= m /\ r.pos + Hdr + r.addr.len \in Int
            BY <2>1, <1>1, HdrPositive
      <3>4. r.pos + Hdr + r.addr.len = m + n \/ \E u \in U : u.pos = r.pos + Hdr + r.addr.len
        <4>1. CASE r.pos + Hdr + r.addr.len = m /\ n = 0
              BY <4>1
        <4>2. CASE r.pos + Hdr + r.addr.len = m /\ \E t \in T : t.pos = m
              BY <4>2
        <4>3. CASE \E t \in R : t.pos = r.pos + Hdr + r.addr.len
              BY <4>3
        <4> QED BY <2>1, <4>1, <4>2, <4>3, <1>b, <1>6
      <3>5. \A u \in T : u.pos >= r.pos + Hdr + r.addr.len
            BY <3>1, <1>4
      <3>6. \A u \in R : u # r => u.pos < r.pos \/ u.pos >= r.pos + Hdr + r.addr.len
            BY <2>1, <1>a
      <3>7. r.pos + Hdr + r.addr.len <= m + n
            BY <3>1, <1>2
      <3> QED BY <3>4, <3>5, <3>6, <3>7
    <2>2. CASE r \in T
      <3>1. \A u \in R : u.pos < r.pos
            BY <2>2, <1>1, <1>4
      <3>2. \A u \in T : u # r => u.pos < r.pos \/ u.pos >= r.pos + Hdr + r.addr.len
            BY <2>2, <1>5
      <3> QED BY <2>2, <3>1, <3>2, <1>4
    <2> QED BY <2>1, <2>2
  <1> HIDE DEF U
  <1> QED BY <1>7, <1>8, <1>9, <1>10 DEF Proper, Tiles, U, T

-----------------------------------------------------------------------------
(* The containers on their way, and the records that are stored.           *)

LEMMA ContainerFields ==
  ASSUME NEW g \in Container
  PROVE  g.cid \in Nat /\ g.recs \in SUBSET Rec /\ g.size \in Int
  BY DEF Container

LEMMA AsContainerType ==
  ASSUME NEW e \in QueuedContainer
  PROVE  /\ AsContainer(e) \in Container
         /\ AsContainer(e).cid = e.cid /\ AsContainer(e).recs = e.recs /\ AsContainer(e).size = e.size
  BY DEF AsContainer, QueuedContainer, Container

LEMMA WayType ==
  ASSUME NEW b \in Container, NEW d \in Container, NEW h \in Container,
         NEW q \in Seq(QueuedContainer), NEW w \in Seq(QueuedContainer)
  PROVE  Way(b, d, h, q, w) \subseteq Container
  <1>1. \A i \in 1 .. Len(q) : q[i] \in QueuedContainer
        BY ElementOfSeq
  <1>2. \A i \in 1 .. Len(w) : w[i] \in QueuedContainer
        BY ElementOfSeq
  <1> QED BY <1>1, <1>2, AsContainerType DEF Way

LEMMA WayAppend ==
  ASSUME NEW b, NEW d, NEW h, NEW q \in Seq(QueuedContainer), NEW w, NEW e \in QueuedContainer
  PROVE  Way(b, d, h, Append(q, e), w) = Way(b, d, h, q, w) \cup {AsContainer(e)}
  <1>1. /\ Len(Append(q, e)) = Len(q) + 1 /\ Len(q) \in Nat
        /\ \A i \in 1 .. Len(q) : Append(q, e)[i] = q[i]
        /\ Append(q, e)[Len(q) + 1] = e
        BY AppendProperties, LenProperties
  <1> DEFINE S(t) == {AsContainer(t[i]) : i \in 1 .. Len(t)}
  <1>2. S(Append(q, e)) = S(q) \cup {AsContainer(e)}
    <2>1. ASSUME NEW x \in S(Append(q, e)) PROVE x \in S(q) \cup {AsContainer(e)}
      <3>1. PICK i \in 1 .. Len(Append(q, e)) : x = AsContainer(Append(q, e)[i])
            OBVIOUS
      <3>2. CASE i = Len(q) + 1
            BY <3>1, <3>2, <1>1
      <3>3. CASE i \in 1 .. Len(q)
            BY <3>1, <3>3, <1>1
      <3> QED BY <3>2, <3>3, <1>1
    <2>2. ASSUME NEW x \in S(q) PROVE x \in S(Append(q, e))
      <3>1. PICK i \in 1 .. Len(q) : x = AsContainer(q[i])
            OBVIOUS
      <3>2. i \in 1 .. Len(Append(q, e)) /\ Append(q, e)[i] = q[i]
            BY <1>1
      <3> QED BY <3>1, <3>2
    <2>3. AsContainer(e) \in S(Append(q, e))
      <3>1. Len(q) + 1 \in 1 .. Len(Append(q, e))
            BY <1>1
      <3> QED BY <3>1, <1>1
    <2> QED BY <2>1, <2>2, <2>3
  <1>3. /\ Way(b, d, h, Append(q, e), w) = {b, d, h} \cup S(Append(q, e)) \cup S(w)
        /\ Way(b, d, h, q, w) = {b, d, h} \cup S(q) \cup S(w)
        BY DEF Way
  <1> HIDE DEF S
  <1> QED BY <1>2, <1>3

LEMMA WayPop ==
  ASSUME NEW b, NEW d, NEW h, NEW q \in Seq(QueuedContainer), q # <<>>
  PROVE  Way(b, d, h, Tail(q), <<Head(q)>>) = Way(b, d, h, q, <<>>)
  <1>1. /\ Len(q) \in Nat /\ Len(q) # 0 /\ Len(Tail(q)) = Len(q) - 1 /\ Head(q) = q[1]
        /\ \A i \in 1 .. Len(Tail(q)) : Tail(q)[i] = q[i + 1]
        BY LenProperties, EmptySeq, HeadTailProperties
  <1>2. Len(<<Head(q)>>) = 1 /\ <<Head(q)>>[1] = Head(q) /\ Len(<<>>) = 0
        BY EmptySeq
  <1> DEFINE S(t) == {AsContainer(t[i]) : i \in 1 .. Len(t)}
  <1>3. S(<<Head(q)>>) = {AsContainer(Head(q))} /\ S(<<>>) = {}
        BY <1>2
  <1>4. ASSUME NEW x \in S(q) PROVE x \in S(Tail(q)) \cup {AsContainer(Head(q))}
    <2>1. PICK i \in 1 .. Len(q) : x = AsContainer(q[i])
          OBVIOUS
    <2>2. CASE i = 1
          BY <2>1, <2>2, <1>1
    <2>3. CASE i # 1
      <3>1. i - 1 \in 1 .. Len(Tail(q)) /\ i - 1 + 1 = i
            BY <2>3, <1>1
      <3>2. Tail(q)[i - 1] = q[i]
            BY <3>1, <1>1
      <3> QED BY <2>1, <3>1, <3>2
    <2> QED BY <2>2, <2>3
  <1>5. ASSUME NEW x \in S(Tail(q)) PROVE x \in S(q)
    <2>1. PICK i \in 1 .. Len(Tail(q)) : x = AsContainer(Tail(q)[i])
          OBVIOUS
    <2>2. i + 1 \in 1 .. Len(q) /\ Tail(q)[i] = q[i + 1]
          BY <1>1
    <2> QED BY <2>1, <2>2
  <1>6. AsContainer(Head(q)) \in S(q)
    <2>1. 1 \in 1 .. Len(q)
          BY <1>1
    <2> QED BY <2>1, <1>1
  <1>7. /\ Way(b, d, h, Tail(q), <<Head(q)>>) = {b, d, h} \cup S(Tail(q)) \cup S(<<Head(q)>>)
        /\ Way(b, d, h, q, <<>>) = {b, d, h} \cup S(q) \cup S(<<>>)
        BY DEF Way
  <1> HIDE DEF S
  <1> QED BY <1>3, <1>4, <1>5, <1>6, <1>7

LEMMA WaySave ==
  ASSUME NEW b, NEW d, NEW h, NEW q, NEW w \in Seq(QueuedContainer), Len(w) = 1
  PROVE  Way(b, d, h, q, w) = Way(b, d, h, q, <<>>) \cup {AsContainer(w[1])}
  <1> DEFINE S(t) == {AsContainer(t[i]) : i \in 1 .. Len(t)}
  <1>1. Len(<<>>) = 0
        BY EmptySeq
  <1>2. S(w) = {AsContainer(w[1])} /\ S(<<>>) = {}
    <2>1. 1 .. Len(w) = {1}
          OBVIOUS
    <2> QED BY <1>1, <2>1
  <1>3. /\ Way(b, d, h, q, w) = {b, d, h} \cup S(q) \cup S(w)
        /\ Way(b, d, h, q, <<>>) = {b, d, h} \cup S(q) \cup S(<<>>)
        BY DEF Way
  <1> HIDE DEF S
  <1> QED BY <1>2, <1>3

LEMMA WayEmpty ==
  ASSUME NEW b, NEW d, NEW h
  PROVE  Way(b, d, h, <<>>, <<>>) = {b, d, h}
  BY EmptySeq DEF Way

LEMMA PlaceTypes ==
  ASSUME TypeOK
  PROVE  /\ OnTheWay \subseteq Container
         /\ \A k \in Cids : /\ file[k] \in File /\ file[k].recs \in SUBSET Rec /\ file[k].size \in Int
                            /\ k \in Nat /\ k # 0 /\ k <= MaxCid
         /\ walk \in Walk /\ walk.recs \in SUBSET Rec /\ walk.buf \in SUBSET Rec /\ walk.cid \in Nat
         /\ walk.size \in Int /\ walk.saveset \in Int /\ walk.newset \in Int /\ walk.coldset \in Int
         /\ walk.rest \in SUBSET (Int \X Int)
         /\ \A k \in Cids : cold[k] \in SUBSET (Int \X Int)
         /\ \A c \in Chunks : /\ fpIndex[c] \in Addr /\ fpIndex[c].cid \in Nat /\ fpIndex[c].off \in Int
                              /\ fpIndex[c].len \in Nat
  <1>1. OnTheWay \subseteq Container
        BY WayType DEF TypeOK, ContainerTypes, OnTheWay
  <1>2. \A k \in Cids : /\ file[k] \in File /\ file[k].recs \in SUBSET Rec /\ file[k].size \in Int
                        /\ k \in Nat /\ k # 0 /\ k <= MaxCid
        BY ContainerAssumption DEF TypeOK, ContainerTypes, File, Cids
  <1>3. /\ walk \in Walk /\ walk.recs \in SUBSET Rec /\ walk.buf \in SUBSET Rec /\ walk.cid \in Nat
        /\ walk.size \in Int /\ walk.saveset \in Int /\ walk.newset \in Int /\ walk.coldset \in Int
        /\ walk.rest \in SUBSET (Int \X Int)
        BY DEF TypeOK, OfflineTypes, Walk
  <1>4. \A k \in Cids : cold[k] \in SUBSET (Int \X Int)
        BY DEF TypeOK, OfflineTypes
  <1>5. \A c \in Chunks : /\ fpIndex[c] \in Addr /\ fpIndex[c].cid \in Nat /\ fpIndex[c].off \in Int
                          /\ fpIndex[c].len \in Nat
        BY DEF TypeOK, IndexTypes, Addr
  <1> QED BY <1>1, <1>2, <1>3, <1>4, <1>5

\* While nothing is squeezed, a container on disk is its file.
LEMMA DiskIsFile ==
  ASSUME PhaseFacts, phase # "walk", NEW k \in Cids
  PROVE  Disk(k) = file[k].recs
  <1>1. walk.cid = 0 /\ k # 0
        BY ContainerAssumption DEF PhaseFacts, NoWalk, Cids
  <1> QED BY <1>1 DEF Disk

LEMMA DiskFacts ==
  ASSUME TypeOK, HoldersProper, PhaseFacts, WalkInv, NEW k \in Cids
  PROVE  /\ Disk(k) \subseteq Rec
         /\ \A r \in Disk(k) : r.pos \in Int /\ r.pos >= 0 /\ r.addr.cid = k /\ r.addr.off = r.pos
         /\ \A r, t \in Disk(k) : r.pos = t.pos => r = t
         /\ Disk(k) # {} => file[k].kind # "none"
  <1>1. /\ Proper(k, file[k].recs, file[k].size) /\ file[k].recs \in SUBSET Rec /\ file[k].size \in Int
        /\ file[k].kind = "none" => file[k].recs = {}
    <2>1. file[k].recs \in SUBSET Rec /\ file[k].size \in Int
          BY PlaceTypes
    <2> QED BY <2>1 DEF HoldersProper
  <1>2. /\ \A r \in file[k].recs : r.pos \in Int /\ r.pos >= 0 /\ r.addr.cid = k /\ r.addr.off = r.pos
        /\ \A r, t \in file[k].recs : r.pos = t.pos => r = t
        BY <1>1, ProperFacts
  <1>3. CASE phase # "walk" \/ walk.cid # k
    <2>1. Disk(k) = file[k].recs
          BY <1>3, DiskIsFile DEF Disk
    <2> QED BY <2>1, <1>1, <1>2
  <1>4. CASE phase = "walk" /\ walk.cid = k
    <2>1. /\ Disk(k) = walk.recs \cup {r \in file[k].recs : r.pos >= walk.saveset}
          /\ Proper(k, walk.recs, walk.newset) /\ walk.newset <= walk.saveset
          /\ walk.newset \in Int /\ walk.saveset \in Int /\ walk.recs \in SUBSET Rec
          /\ file[k].kind # "none"
          BY <1>4, PlaceTypes DEF WalkInv, Disk
    <2>2. /\ \A r \in walk.recs : /\ r.pos \in Int /\ r.pos >= 0 /\ r.addr.cid = k /\ r.addr.off = r.pos
                                  /\ r.pos < walk.newset
          /\ \A r, t \in walk.recs : r.pos = t.pos => r = t
          BY <2>1, ProperFacts
    <2>3. \A r \in walk.recs : r.pos < walk.saveset
          BY <2>1, <2>2
    <2> QED BY <2>1, <2>2, <2>3, <1>1, <1>2
  <1> QED BY <1>3, <1>4

LEMMA WayFacts ==
  ASSUME TypeOK, HoldersProper, NEW g \in OnTheWay
  PROVE  /\ g \in Container /\ g.cid \in Nat /\ g.recs \in SUBSET Rec /\ g.size \in Int
         /\ Proper(g.cid, g.recs, g.size) /\ g.cid <= MaxCid
         /\ g.recs # {} => g.cid \in Cids
         /\ \A r \in g.recs : r.pos \in Int /\ r.pos >= 0 /\ r.addr.cid = g.cid /\ r.addr.off = r.pos
         /\ \A r, t \in g.recs : r.pos = t.pos => r = t
  <1>1. g \in Container /\ g.cid \in Nat /\ g.recs \in SUBSET Rec /\ g.size \in Int
        BY PlaceTypes, ContainerFields
  <1>2. Proper(g.cid, g.recs, g.size) /\ g.cid <= MaxCid /\ (g.cid = 0 => g.recs = {})
        BY DEF HoldersProper
  <1>3. g.recs # {} => g.cid \in Cids
        BY <1>1, <1>2, ContainerAssumption DEF Cids
  <1> QED BY <1>1, <1>2, <1>3, ProperFacts

\* A container on disk with records has a name that nothing else carries.
LEMMA DiskNotOnTheWay ==
  ASSUME TypeOK, NameInv, HoldersProper, PhaseFacts, WalkInv, NEW k \in Cids, Disk(k) # {},
         NEW g \in OnTheWay
  PROVE  g.cid # k
  <1>1. file[k].kind # "none"
        BY DiskFacts
  <1>2. CASE g \in {inBase, inDelta, hot}
        BY <1>1, <1>2 DEF NameInv, NoFileYet, Unwritten
  <1>3. CASE \E i \in 1 .. Len(queue) : g = AsContainer(queue[i])
    <2>1. PICK i \in 1 .. Len(queue) : g = AsContainer(queue[i])
          BY <1>3
    <2>2. g.cid = queue[i].cid
          BY <2>1, QueueDomain, AsContainerType
    <2> QED BY <1>1, <2>2 DEF NameInv, NoFileYet, Unwritten
  <1>4. CASE \E i \in 1 .. Len(writing) : g = AsContainer(writing[i])
    <2>1. PICK i \in 1 .. Len(writing) : g = AsContainer(writing[i])
          BY <1>4
    <2>2. g.cid = writing[i].cid
          BY <2>1, QueueDomain, AsContainerType
    <2>3. phase # "walk"
      <3>1. writing # <<>>
            BY <2>1, EmptySeq
      <3> QED BY <3>1 DEF PhaseFacts
    <2>4. Disk(k) = file[k].recs
          BY <2>3, DiskIsFile
    <2> QED BY <2>2, <2>4 DEF HoldersProper
  <1> QED BY <1>2, <1>3, <1>4 DEF OnTheWay, Way

\* No two containers on their way share a name.
LEMMA WayDistinct ==
  ASSUME TypeOK, NameInv, NEW g \in OnTheWay, NEW h \in OnTheWay, g.cid = h.cid, g.cid # 0
  PROVE  g = h
  <1>1. OneHolder
        BY NameInvOneHolder
  <1>2. {queue[i] : i \in DOMAIN queue} = {queue[i] : i \in 1 .. Len(queue)}
        BY QueueDomain
  <1>3. {writing[i] : i \in DOMAIN writing} = {writing[i] : i \in 1 .. Len(writing)}
        BY QueueDomain
  <1>4. \A i \in 1 .. Len(queue) : queue[i] \in Queued
        BY <1>2 DEF Queued
  <1>5. \A i \in 1 .. Len(writing) : writing[i] \in Queued
        BY <1>3 DEF Queued
  <1>6. OnTheWay \subseteq {inBase, inDelta, hot} \cup {AsContainer(q) : q \in Queued}
        BY <1>4, <1>5 DEF OnTheWay, Way
  <1> QED BY <1>1, <1>6 DEF OneHolder

LEMMA LiveFacts ==
  ASSUME TypeOK, HoldersProper, PhaseFacts, WalkInv, NEW r \in Live
  PROVE  /\ r \in Rec /\ r.pos \in Int /\ r.pos >= 0 /\ r.addr.cid \in Cids /\ r.addr.off = r.pos
         /\ r.fp \in Chunks /\ r.addr \in Addr /\ r.addr # NoAddr
  <1>1. r \in Rec /\ r.pos \in Int /\ r.pos >= 0 /\ r.addr.cid \in Cids /\ r.addr.off = r.pos
    <2>1. CASE r \in WayRecs
      <3>1. PICK g \in OnTheWay : r \in g.recs
            BY <2>1 DEF WayRecs
      <3> QED BY <3>1, WayFacts
    <2>2. CASE r \in DiskRecs
      <3>1. PICK k \in Cids : r \in Disk(k)
            BY <2>2 DEF DiskRecs
      <3> QED BY <3>1, DiskFacts
    <2> QED BY <2>1, <2>2 DEF Live
  <1>2. NoAddr.cid \notin Cids
        BY ContainerAssumption DEF NoAddr, Cids
  <1> QED BY <1>1, <1>2, RecFields

\* The records of container k are those whose header names it.
LEMMA HeldIsLive ==
  ASSUME TypeOK, HoldersProper, PhaseFacts, WalkInv, NEW k
  PROVE  Held(k) = {r \in Live : r.addr.cid = k}
  <1> DEFINE W == {h \in {inBase, inDelta, hot} \cup Queued : h.cid = k}
  <1>1. Held(k) = (IF k \in Cids THEN Disk(k) ELSE {}) \cup UNION {h.recs : h \in W}
        BY DEF Held
  <1>2. ASSUME NEW h \in {inBase, inDelta, hot} \cup Queued
        PROVE  \E g \in OnTheWay : g.cid = h.cid /\ g.recs = h.recs
    <2>1. CASE h \in {inBase, inDelta, hot}
          BY <2>1 DEF OnTheWay, Way
    <2>2. CASE h \in Queued
      <3>1. h \in QueuedContainer /\ AsContainer(h) \in OnTheWay
        <4>1. CASE \E i \in DOMAIN queue : h = queue[i]
              BY <4>1, QueueDomain DEF OnTheWay, Way
        <4>2. CASE \E i \in DOMAIN writing : h = writing[i]
              BY <4>2, QueueDomain DEF OnTheWay, Way
        <4> QED BY <2>2, <4>1, <4>2 DEF Queued
      <3> QED BY <3>1, AsContainerType
    <2> QED BY <2>1, <2>2
  <1>3. ASSUME NEW g \in OnTheWay
        PROVE  \E h \in {inBase, inDelta, hot} \cup Queued : g.cid = h.cid /\ g.recs = h.recs
    <2>1. CASE g \in {inBase, inDelta, hot}
          BY <2>1
    <2>2. CASE \E i \in 1 .. Len(queue) : g = AsContainer(queue[i])
      <3>1. PICK i \in 1 .. Len(queue) : g = AsContainer(queue[i])
            BY <2>2
      <3>2. queue[i] \in Queued /\ queue[i] \in QueuedContainer
            BY QueueDomain DEF Queued
      <3> QED BY <3>1, <3>2, AsContainerType
    <2>3. CASE \E i \in 1 .. Len(writing) : g = AsContainer(writing[i])
      <3>1. PICK i \in 1 .. Len(writing) : g = AsContainer(writing[i])
            BY <2>3
      <3>2. writing[i] \in Queued /\ writing[i] \in QueuedContainer
            BY QueueDomain DEF Queued
      <3> QED BY <3>1, <3>2, AsContainerType
    <2> QED BY <2>1, <2>2, <2>3 DEF OnTheWay, Way
  <1>4. ASSUME NEW r \in Held(k) PROVE r \in Live /\ r.addr.cid = k
    <2>1. CASE k \in Cids /\ r \in Disk(k)
          BY <2>1, DiskFacts DEF Live, DiskRecs
    <2>2. CASE \E h \in W : r \in h.recs
      <3>1. PICK h \in W : r \in h.recs
            BY <2>2
      <3>2. PICK g \in OnTheWay : g.cid = h.cid /\ g.recs = h.recs
            BY <1>2
      <3> QED BY <3>1, <3>2, WayFacts DEF Live, WayRecs
    <2> QED BY <1>1, <2>1, <2>2
  <1>5. ASSUME NEW r \in Live, r.addr.cid = k PROVE r \in Held(k)
    <2>1. CASE r \in WayRecs
      <3>1. PICK g \in OnTheWay : r \in g.recs
            BY <2>1 DEF WayRecs
      <3>2. g.cid = k
            BY <3>1, <1>5, WayFacts
      <3>3. PICK h \in {inBase, inDelta, hot} \cup Queued : g.cid = h.cid /\ g.recs = h.recs
            BY <1>3
      <3>4. h \in W /\ r \in h.recs
            BY <3>1, <3>2, <3>3
      <3> HIDE DEF W
      <3> QED BY <3>4, <1>1
    <2>2. CASE r \in DiskRecs
      <3>1. PICK j \in Cids : r \in Disk(j)
            BY <2>2 DEF DiskRecs
      <3>2. j = k
            BY <3>1, <1>5, DiskFacts
      <3> QED BY <3>1, <3>2, <1>1
    <2> QED BY <2>1, <2>2 DEF Live
  <1> QED BY <1>4, <1>5

\* A header names one place, and one record is there.
LEMMA LiveUnique ==
  ASSUME TypeOK, NameInv, HoldersProper, PhaseFacts, WalkInv, NEW r \in Live, NEW t \in Live,
         r.addr.cid = t.addr.cid, r.pos = t.pos
  PROVE  r = t
  <1>1. ASSUME NEW u \in Live
        PROVE  \/ \E g \in OnTheWay : u \in g.recs /\ g.cid = u.addr.cid
               \/ u.addr.cid \in Cids /\ u \in Disk(u.addr.cid)
    <2>1. CASE u \in WayRecs
          BY <2>1, WayFacts DEF WayRecs
    <2>2. CASE u \in DiskRecs
          BY <2>2, DiskFacts DEF DiskRecs
    <2> QED BY <2>1, <2>2 DEF Live
  <1>2. CASE (\E g \in OnTheWay : r \in g.recs /\ g.cid = r.addr.cid)
             /\ (\E g \in OnTheWay : t \in g.recs /\ g.cid = t.addr.cid)
    <2>1. PICK g \in OnTheWay : r \in g.recs /\ g.cid = r.addr.cid
          BY <1>2
    <2>2. PICK h \in OnTheWay : t \in h.recs /\ h.cid = t.addr.cid
          BY <1>2
    <2>3. g.cid \in Cids
          BY <2>1, WayFacts
    <2>4. g.cid # 0
          BY <2>3, ContainerAssumption DEF Cids
    <2>5. g = h
          BY <2>1, <2>2, <2>4, WayDistinct
    <2> QED BY <2>1, <2>2, <2>5, WayFacts
  <1>3. CASE (\E g \in OnTheWay : r \in g.recs /\ g.cid = r.addr.cid)
             /\ t.addr.cid \in Cids /\ t \in Disk(t.addr.cid)
        BY <1>3, DiskNotOnTheWay
  <1>4. CASE (\E g \in OnTheWay : t \in g.recs /\ g.cid = t.addr.cid)
             /\ r.addr.cid \in Cids /\ r \in Disk(r.addr.cid)
        BY <1>4, DiskNotOnTheWay
  <1>5. CASE /\ t.addr.cid \in Cids /\ t \in Disk(t.addr.cid)
             /\ r.addr.cid \in Cids /\ r \in Disk(r.addr.cid)
        BY <1>5, DiskFacts
  <1> QED BY <1>1, <1>2, <1>3, <1>4, <1>5

-----------------------------------------------------------------------------
(* What the invariant implies.                                             *)

LEMMA PlaceHeaders ==
  ASSUME TypeOK, PlaceInv
  PROVE  HeadersCurrent
  <1> USE DEF PlaceInv
  <1>1. ASSUME NEW k \in Cids, NEW r \in Held(k)
        PROVE  /\ r.addr.cid = k /\ r.addr.off = r.pos
               /\ \/ r.pos \in ColdOffsets(k) /\ r \notin walk.recs
                  \/ fpIndex[r.fp] = r.addr
                  \/ InBatch(r)
    <2>1. r \in Live /\ r.addr.cid = k
          BY <1>1, HeldIsLive
    <2>2. r.addr.off = r.pos
          BY <2>1, LiveFacts
    <2> QED BY <2>1, <2>2 DEF LiveCurrent, Marked
  <1> QED BY <1>1 DEF HeadersCurrent

LEMMA UnusedEmpty ==
  ASSUME TypeOK, HoldersProper, PhaseFacts, WalkInv, NEW k, Unused(k), NEW r \in Live
  PROVE  r.addr.cid # k
  <1>1. CASE r \in WayRecs
        BY <1>1, WayFacts DEF WayRecs, Unused
  <1>2. CASE r \in DiskRecs
    <2>1. PICK j \in Cids : r \in Disk(j)
          BY <1>2 DEF DiskRecs
    <2> QED BY <2>1, DiskFacts DEF Unused
  <1> QED BY <1>1, <1>2 DEF Live

LEMMA PlaceEntries ==
  ASSUME TypeOK, PlaceInv
  PROVE  EntriesFound
  <1> USE DEF PlaceInv
  <1>1. ASSUME NEW c \in Chunks, Indexed(c)
        PROVE  \/ \E r \in Held(fpIndex[c].cid) : r.pos = fpIndex[c].off /\ r.fp = c /\ r.addr = fpIndex[c]
               \/ broken > 0 /\ Held(fpIndex[c].cid) = {}
    <2>1. CASE Stored(c, fpIndex[c])
      <3>1. PICK r \in Live : r.fp = c /\ r.addr = fpIndex[c]
            BY <2>1 DEF Stored
      <3>2. r.pos = fpIndex[c].off
            BY <3>1, LiveFacts
      <3>3. r \in Held(fpIndex[c].cid)
            BY <3>1, HeldIsLive
      <3> QED BY <3>1, <3>2, <3>3
    <2>2. CASE broken > 0 /\ Unused(fpIndex[c].cid)
      <3>1. \A r \in Live : r.addr.cid # fpIndex[c].cid
            BY <2>2, UnusedEmpty
      <3>2. Held(fpIndex[c].cid) = {}
            BY <3>1, HeldIsLive
      <3> QED BY <2>2, <3>2
    <2> QED BY <1>1, <2>1, <2>2 DEF LiveFound
  <1> QED BY <1>1 DEF EntriesFound

LEMMA PlaceTiled ==
  ASSUME TypeOK, PlaceInv
  PROVE  Tiled
  <1> USE DEF PlaceInv
  <1>1. \A k \in Cids : Tiles(file[k].recs, file[k].size)
        BY DEF HoldersProper, Proper
  <1>2. ASSUME NEW g \in OnTheWay PROVE Tiles(g.recs, g.size)
        BY <1>2 DEF HoldersProper, Proper
  <1>3. ASSUME NEW h \in {inBase, inDelta, hot} \cup Queued
        PROVE  Tiles(h.recs, h.size)
    <2>1. CASE h \in {inBase, inDelta, hot}
          BY <2>1, <1>2 DEF OnTheWay, Way
    <2>2. CASE h \in Queued
      <3>1. h \in QueuedContainer /\ AsContainer(h) \in OnTheWay
        <4>1. CASE \E i \in DOMAIN queue : h = queue[i]
              BY <4>1, QueueDomain DEF OnTheWay, Way
        <4>2. CASE \E i \in DOMAIN writing : h = writing[i]
              BY <4>2, QueueDomain DEF OnTheWay, Way
        <4> QED BY <2>2, <4>1, <4>2 DEF Queued
      <3>2. Tiles(AsContainer(h).recs, AsContainer(h).size)
            BY <3>1, <1>2
      <3> QED BY <3>1, <3>2, AsContainerType
    <2> QED BY <2>1, <2>2
  <1> QED BY <1>1, <1>3 DEF Tiled

-----------------------------------------------------------------------------
(* The initial state.                                                      *)

LEMMA PlaceInit == Init => PlaceInv
  <1> SUFFICES ASSUME Init PROVE PlaceInv
      OBVIOUS
  <1>1. /\ phase = "idle" /\ walk = NoWalk /\ queue = <<>> /\ writing = <<>> /\ Len(writing) = 0
        /\ inBase = EmptyContainer(0) /\ inDelta = EmptyContainer(0) /\ hot = EmptyContainer(0)
        /\ batch = NoBatch /\ batch.done = <<>> /\ batch.todo = <<>> /\ Len(<<>>) = 0
        BY EmptySeq DEF Init, NoBatch
  <1>2. OnTheWay = {EmptyContainer(0)}
        BY <1>1, WayEmpty DEF OnTheWay
  <1>3. /\ EmptyContainer(0).cid = 0 /\ EmptyContainer(0).recs = {} /\ EmptyContainer(0).size = 0
        BY DEF EmptyContainer
  <1>4. \A k \in Cids : file[k].recs = {} /\ file[k].size = 0 /\ cold[k] = {}
        BY DEF Init, NoFile
  <1>5. HoldersProper
    <2>1. ASSUME NEW g \in OnTheWay
          PROVE  g.cid <= MaxCid /\ (g.cid = 0 => g.recs = {}) /\ Proper(g.cid, g.recs, g.size)
      <3>1. g.cid = 0 /\ g.recs = {} /\ g.size = 0
            BY <1>2, <1>3
      <3> QED BY <3>1, ProperEmpty, ContainerAssumption
    <2>2. ASSUME NEW k \in Cids
          PROVE  Proper(k, file[k].recs, file[k].size) /\ (file[k].kind = "none" => file[k].recs = {})
          BY <1>4, ProperEmpty
    <2>3. \A i \in 1 .. Len(writing) : file[writing[i].cid].recs = {}
          BY <1>1
    <2> QED BY <2>1, <2>2, <2>3 DEF HoldersProper
  <1>6. PhaseFacts
        BY <1>1, <1>4 DEF PhaseFacts
  <1>7. Live = {}
    <2>1. WayRecs = {}
          BY <1>2, <1>3 DEF WayRecs
    <2>2. \A k \in Cids : Disk(k) = {}
          BY <1>1, <1>4, <1>6, DiskIsFile
    <2> QED BY <2>1, <2>2 DEF Live, DiskRecs
  <1>8. LiveCurrent /\ LiveFound
        BY <1>7 DEF LiveCurrent, LiveFound, Indexed, Init
  <1>9. BatchLive
        BY <1>1 DEF BatchLive
  <1>10. ColdMarksExact
    <2>1. walk.rest = {}
          BY <1>1 DEF NoWalk
    <2> QED BY <1>4, <2>1 DEF ColdMarksExact
  <1>11. WalkInv /\ MergeInv
        BY <1>1 DEF WalkInv, MergeInv
  <1> QED BY <1>5, <1>6, <1>8, <1>9, <1>10, <1>11 DEF PlaceInv

-----------------------------------------------------------------------------
(* Steps that move no record.                                              *)

LEMMA LiveFrame ==
  ASSUME TypeOK, LiveCurrent, LiveFound, Live' = Live, batch'.done = batch.done,
         UNCHANGED <<fpIndex, cold, walk>>, broken <= broken', broken' \in Nat,
         \A k \in Nat : Unused(k) => Unused(k)'
  PROVE  LiveCurrent' /\ LiveFound'
  <1>1. \A r : Marked(r)' = Marked(r) /\ InBatch(r)' = InBatch(r)
        BY DEF Marked, ColdOffsets, InBatch
  <1>2. LiveCurrent'
        BY <1>1 DEF LiveCurrent
  <1>3. \A c, a : Stored(c, a)' = Stored(c, a)
        BY DEF Stored
  <1>4. \A c : Indexed(c)' = Indexed(c)
        BY DEF Indexed
  <1>5. broken \in Nat /\ \A c \in Chunks : fpIndex[c].cid \in Nat
        BY PlaceTypes DEF TypeOK, SessionTypes
  <1>6. LiveFound'
        BY <1>3, <1>4, <1>5 DEF LiveFound
  <1> QED BY <1>2, <1>6

\* A name that is given up stays given up: con_times only grows.
LEMMA UnusedKept ==
  ASSUME TypeOK, TypeOK', nextCid <= nextCid',
         \A g \in OnTheWay' : g.cid = 0 \/ g.cid >= nextCid \/ \E h \in OnTheWay : h.cid = g.cid,
         \A k \in Cids : file'[k].kind # "none" =>
            file[k].kind # "none" \/ k >= nextCid \/ \E h \in OnTheWay : h.cid = k,
         NEW k \in Nat, Unused(k)
  PROVE  Unused(k)'
  <1>1. nextCid \in Nat /\ nextCid' \in Nat
        BY DEF TypeOK, ContainerTypes
  <1>2. /\ 0 < k /\ k < nextCid /\ (\A g \in OnTheWay : g.cid # k)
        /\ k \in Cids => file[k].kind = "none"
        BY DEF Unused
  <1>3. ASSUME NEW g \in OnTheWay' PROVE g.cid # k
    <2>1. CASE g.cid = 0
          BY <2>1, <1>2
    <2>2. CASE g.cid >= nextCid
      <3>1. ~(k >= nextCid)
            BY <1>1, <1>2
      <3> QED BY <3>1, <2>2
    <2>3. CASE \E h \in OnTheWay : h.cid = g.cid
          BY <2>3, <1>2
    <2> QED BY <2>1, <2>2, <2>3
  <1>4. k \in Cids => file'[k].kind = "none"
    <2>1. ~(k >= nextCid)
          BY <1>1, <1>2
    <2> QED BY <2>1, <1>2
  <1>5. k < nextCid'
        BY <1>1, <1>2
  <1> QED BY <1>2, <1>3, <1>4, <1>5 DEF Unused

\* What a step that moves no record must look like: only empty containers
\* appear or disappear on the way.
Quiet ==
    /\ UNCHANGED <<fpIndex, file, cold, walk, writing>> /\ batch'.done = batch.done
    /\ broken <= broken' /\ nextCid <= nextCid'
    /\ \A g \in OnTheWay' : \/ g \in OnTheWay
                            \/ g.recs = {} /\ g.size = 0 /\ g.cid <= MaxCid /\ (g.cid = 0 \/ g.cid >= nextCid)
    /\ \A g \in OnTheWay : g \in OnTheWay' \/ g.recs = {}
    /\ phase' = "walk" => phase = "walk"

LEMMA QuietStep ==
  ASSUME TypeOK, TypeOK', PlaceInv, Quiet
  PROVE  /\ HoldersProper' /\ LiveCurrent' /\ LiveFound' /\ ColdMarksExact' /\ WalkInv'
         /\ Live' = Live
  <1> USE DEF PlaceInv
  <1>1. UNCHANGED <<fpIndex, file, cold, walk, writing>>
        BY DEF Quiet
  <1>2. HoldersProper'
    <2>1. ASSUME NEW g \in OnTheWay'
          PROVE  g.cid <= MaxCid /\ (g.cid = 0 => g.recs = {}) /\ Proper(g.cid, g.recs, g.size)
      <3>1. CASE g \in OnTheWay
            BY <3>1 DEF HoldersProper
      <3>2. CASE g.recs = {} /\ g.size = 0 /\ g.cid <= MaxCid
            BY <3>2, ProperEmpty
      <3> QED BY <3>1, <3>2 DEF Quiet
    <2>2. \A k \in Cids : /\ Proper(k, file[k].recs, file[k].size)
                          /\ file[k].kind = "none" => file[k].recs = {}
          BY DEF HoldersProper
    <2>3. \A i \in 1 .. Len(writing) : file[writing[i].cid].recs = {}
          BY DEF HoldersProper
    <2> QED BY <1>1, <2>1, <2>2, <2>3 DEF HoldersProper
  <1>3. Live' = Live
    <2>1. DiskRecs' = DiskRecs
          BY <1>1 DEF DiskRecs, Disk
    <2>2. ASSUME NEW r \in WayRecs' PROVE r \in WayRecs
      <3>1. PICK g \in OnTheWay' : r \in g.recs
            BY <2>2 DEF WayRecs
      <3>2. g \in OnTheWay
            BY <3>1 DEF Quiet
      <3> QED BY <3>1, <3>2 DEF WayRecs
    <2>3. ASSUME NEW r \in WayRecs PROVE r \in WayRecs'
      <3>1. PICK g \in OnTheWay : r \in g.recs
            BY <2>3 DEF WayRecs
      <3>2. g \in OnTheWay'
            BY <3>1 DEF Quiet
      <3> QED BY <3>1, <3>2 DEF WayRecs
    <2>4. WayRecs' = WayRecs
          BY <2>2, <2>3
    <2> QED BY <2>1, <2>4 DEF Live
  <1>4. \A g \in OnTheWay' : g.cid = 0 \/ g.cid >= nextCid \/ \E h \in OnTheWay : h.cid = g.cid
        BY DEF Quiet
  <1>5. nextCid <= nextCid' /\ broken <= broken' /\ batch'.done = batch.done
        BY DEF Quiet
  <1>6. \A k \in Nat : Unused(k) => Unused(k)'
        BY <1>1, <1>4, <1>5, UnusedKept
  <1>7. broken' \in Nat
        BY DEF TypeOK, SessionTypes
  <1>8. LiveCurrent' /\ LiveFound'
        BY <1>1, <1>3, <1>5, <1>6, <1>7, LiveFrame
  <1>9. ColdMarksExact'
        BY <1>1 DEF ColdMarksExact
  <1>10. WalkInv'
        BY <1>1 DEF Quiet, WalkInv
  <1> QED BY <1>2, <1>3, <1>8, <1>9, <1>10

\* The same step when the containers are not touched at all.
LEMMA QuietAll ==
  ASSUME UNCHANGED <<fpIndex, file, cold, walk, writing, queue, inBase, inDelta, hot, broken>>,
         nextCid <= nextCid', TypeOK, batch'.done = batch.done, phase' = "walk" => phase = "walk"
  PROVE  Quiet
  <1>1. OnTheWay' = OnTheWay
        BY DEF OnTheWay
  <1>2. broken \in Nat
        BY DEF TypeOK, SessionTypes
  <1>3. broken <= broken'
        BY <1>2
  <1> QED BY <1>1, <1>3 DEF Quiet

\* A batch that is not touched stays all right.
LEMMA BatchFrame ==
  ASSUME BatchLive, batch' = batch, Live \subseteq Live'
  PROVE  BatchLive'
  <1>1. ASSUME NEW i \in 1 .. Len(batch.done)
        PROVE  \E r \in Live' : r.fp = batch.done[i].fp /\ r.addr = batch.done[i].addr
        BY DEF BatchLive, Stored
  <1>2. \A i \in 1 .. Len(batch'.done) :
          \E r \in Live' : r.fp = batch'.done[i].fp /\ r.addr = batch'.done[i].addr
        BY <1>1
  <1> QED BY <1>2 DEF BatchLive, Stored

LEMMA QuietPlace ==
  ASSUME TypeOK, TypeOK', PlaceInv, Quiet, batch' = batch, PhaseFacts', MergeInv'
  PROVE  PlaceInv'
  <1>1. HoldersProper' /\ LiveCurrent' /\ LiveFound' /\ ColdMarksExact' /\ WalkInv' /\ Live' = Live
        BY QuietStep
  <1>2. BatchLive'
        BY <1>1, BatchFrame DEF PlaceInv
  <1> QED BY <1>1, <1>2 DEF PlaceInv

LEMMA EmptyFields ==
  ASSUME NEW k
  PROVE  EmptyContainer(k).cid = k /\ EmptyContainer(k).recs = {} /\ EmptyContainer(k).size = 0
  BY DEF EmptyContainer

LEMMA StartSessionPlace ==
  ASSUME TypeOK, TypeOK', PlaceInv, NEW op \in {"upload", "offline"}, StartSession(op)
  PROVE  PlaceInv'
  <1>1. /\ phase = "idle" /\ phase' = "recv" /\ nextCid' = nextCid + 2 /\ nextCid + 1 <= MaxCid
        /\ inBase' = EmptyContainer(nextCid) /\ inDelta' = EmptyContainer(nextCid + 1)
        /\ UNCHANGED <<fpIndex, file, cold, walk, writing, queue, hot, batch, broken, work>>
        BY DEF StartSession, indexVars, writerVars, offlineVars
  <1>2. nextCid \in Nat /\ MaxCid \in Nat /\ broken \in Nat
        BY ContainerAssumption DEF TypeOK, ContainerTypes, SessionTypes
  <1>3. inBase = EmptyContainer(0) /\ inDelta = EmptyContainer(0)
        BY <1>1 DEF PlaceInv, PhaseFacts
  <1>4. PhaseFacts'
        BY <1>1 DEF PlaceInv, PhaseFacts
  <1>5. nextCid <= nextCid' /\ broken <= broken' /\ nextCid <= MaxCid /\ nextCid + 1 >= nextCid
        BY <1>1, <1>2
  <1>6. ASSUME NEW g \in OnTheWay'
        PROVE  \/ g \in OnTheWay
               \/ g.recs = {} /\ g.size = 0 /\ g.cid <= MaxCid /\ (g.cid = 0 \/ g.cid >= nextCid)
    <2>1. CASE g = EmptyContainer(nextCid)
          BY <2>1, <1>2, <1>5, EmptyFields
    <2>2. CASE g = EmptyContainer(nextCid + 1)
          BY <2>2, <1>1, <1>5, EmptyFields
    <2>3. g \in OnTheWay \/ g = EmptyContainer(nextCid) \/ g = EmptyContainer(nextCid + 1)
          BY <1>1 DEF OnTheWay, Way
    <2> QED BY <2>1, <2>2, <2>3
  <1>7. \A g \in OnTheWay : g \in OnTheWay' \/ g.recs = {}
        BY <1>1, <1>3, EmptyFields DEF OnTheWay, Way
  <1>8. Quiet
        BY <1>1, <1>5, <1>6, <1>7 DEF Quiet
  <1> QED BY <1>1, <1>4, <1>8, QuietPlace DEF MergeInv

LEMMA StartOfflinePlace ==
  ASSUME TypeOK, TypeOK', NameInv, PlaceInv, StartOffline
  PROVE  PlaceInv'
  <1>1. /\ phase = "drain" /\ phase' = "pairs" /\ nextCid' = nextCid + 1 /\ nextCid <= MaxCid
        /\ queue = <<>> /\ writing = <<>> /\ hot' = EmptyContainer(nextCid)
        /\ UNCHANGED <<fpIndex, file, cold, walk, writing, queue, inBase, inDelta, batch, broken, work>>
        BY DEF StartOffline, indexVars, writerVars, historyVars
  <1>2. nextCid \in Nat /\ nextCid > 0 /\ MaxCid \in Nat /\ broken \in Nat
        BY ContainerAssumption DEF TypeOK, ContainerTypes, SessionTypes, NameInv, NamesTaken
  <1>3. hot = EmptyContainer(0) /\ hot'.cid # 0
        BY <1>1, <1>2, EmptyFields DEF PlaceInv, PhaseFacts
  <1>4. PhaseFacts'
        BY <1>1, <1>3 DEF PlaceInv, PhaseFacts
  <1>5. nextCid <= nextCid' /\ broken <= broken' /\ nextCid >= nextCid
        BY <1>1, <1>2
  <1>6. ASSUME NEW g \in OnTheWay'
        PROVE  \/ g \in OnTheWay
               \/ g.recs = {} /\ g.size = 0 /\ g.cid <= MaxCid /\ (g.cid = 0 \/ g.cid >= nextCid)
    <2>1. CASE g = EmptyContainer(nextCid)
          BY <2>1, <1>1, <1>5, EmptyFields
    <2>2. g \in OnTheWay \/ g = EmptyContainer(nextCid)
          BY <1>1 DEF OnTheWay, Way
    <2> QED BY <2>1, <2>2
  <1>7. \A g \in OnTheWay : g \in OnTheWay' \/ g.recs = {}
        BY <1>1, <1>3, EmptyFields DEF OnTheWay, Way
  <1>8. Quiet
        BY <1>1, <1>5, <1>6, <1>7 DEF Quiet
  <1> QED BY <1>1, <1>4, <1>8, QuietPlace DEF MergeInv

\* Nothing moves when a pair is passed over, a phase ends or nothing happens.
LEMMA StillPlace ==
  ASSUME TypeOK, TypeOK', PlaceInv, nextCid <= nextCid',
         UNCHANGED <<fpIndex, file, cold, walk, writing, queue, inBase, inDelta, hot, batch, broken>>,
         PhaseFacts', MergeInv', phase' = "walk" => phase = "walk"
  PROVE  PlaceInv'
  BY QuietAll, QuietPlace

LEMMA StillActions ==
  ASSUME TypeOK, TypeOK', PlaceInv,
         \/ RecipeEnd \/ EndUpload \/ CleanLocalIndex \/ EndOffline
         \/ \E p \in localMap : SkipGreedy(p[1], p[2])
         \/ \E p \in localMap : SkipOldMissing(p[1], p[2])
         \/ \E p \in localMap : SkipNewMissing(p[1], p[2])
         \/ \E p \in localMap : BeginPair(p[1], p[2])
         \/ \E d \in work.deltas : ReadStaleDelta(d)
         \/ UNCHANGED vars
  PROVE  PlaceInv'
  <1>1. nextCid \in Nat
        BY DEF TypeOK, ContainerTypes
  <1> USE DEF writerVars, enclaveVars, offlineVars, indexVars, historyVars
  <1>2. CASE RecipeEnd
    <2>1. PhaseFacts' /\ MergeInv'
          BY <1>2 DEF RecipeEnd, PlaceInv, PhaseFacts, MergeInv
    <2> QED BY <1>1, <1>2, <2>1, StillPlace DEF RecipeEnd
  <1>3. CASE EndUpload
    <2>1. PhaseFacts' /\ MergeInv'
          BY <1>3 DEF EndUpload, PlaceInv, PhaseFacts, MergeInv
    <2> QED BY <1>1, <1>3, <2>1, StillPlace DEF EndUpload
  <1>4. CASE CleanLocalIndex
    <2>1. PhaseFacts' /\ MergeInv'
          BY <1>4 DEF CleanLocalIndex, PlaceInv, PhaseFacts, MergeInv
    <2>2. nextCid <= nextCid'
          BY <1>1, <1>4 DEF CleanLocalIndex
    <2> QED BY <1>4, <2>1, <2>2, StillPlace DEF CleanLocalIndex
  <1>5. CASE EndOffline
    <2>1. PhaseFacts' /\ MergeInv'
          BY <1>5 DEF EndOffline, PlaceInv, PhaseFacts, MergeInv
    <2> QED BY <1>1, <1>5, <2>1, StillPlace DEF EndOffline
  <1>6. CASE \E p \in localMap : SkipGreedy(p[1], p[2])
    <2>1. PhaseFacts' /\ MergeInv'
          BY <1>6 DEF SkipGreedy, PlaceInv, PhaseFacts, MergeInv
    <2> QED BY <1>1, <1>6, <2>1, StillPlace DEF SkipGreedy
  <1>7. CASE \E p \in localMap : SkipOldMissing(p[1], p[2])
    <2>1. PhaseFacts' /\ MergeInv'
          BY <1>7 DEF SkipOldMissing, PlaceInv, PhaseFacts, MergeInv
    <2> QED BY <1>1, <1>7, <2>1, StillPlace DEF SkipOldMissing
  <1>8. CASE \E p \in localMap : SkipNewMissing(p[1], p[2])
    <2>1. PhaseFacts' /\ MergeInv'
          BY <1>8 DEF SkipNewMissing, PlaceInv, PhaseFacts, MergeInv
    <2> QED BY <1>1, <1>8, <2>1, StillPlace DEF SkipNewMissing
  <1>9. CASE \E p \in localMap : BeginPair(p[1], p[2])
    <2>1. PICK p \in localMap : BeginPair(p[1], p[2])
          BY <1>9
    <2>2. HasBaseFile(p[1]) /\ work'.old = p[1] /\ phase = "pairs" /\ phase' = "deltas"
          BY <2>1 DEF BeginPair
    <2>3. UNCHANGED <<fpIndex, file, cold, walk, writing, queue, inBase, inDelta, hot, batch, broken, nextCid>>
          BY <2>1 DEF BeginPair
    <2>4. HasBaseFile(work.old)'
          BY <2>2, <2>3 DEF HasBaseFile, HasFile
    <2>5. PhaseFacts' /\ MergeInv'
          BY <2>2, <2>3, <2>4 DEF PlaceInv, PhaseFacts, MergeInv
    <2> QED BY <1>1, <2>2, <2>3, <2>5, StillPlace
  <1>10. CASE \E d \in work.deltas : ReadStaleDelta(d)
    <2>1. PhaseFacts' /\ MergeInv'
          BY <1>10 DEF ReadStaleDelta, PlaceInv, PhaseFacts, MergeInv
    <2> QED BY <1>1, <1>10, <2>1, StillPlace DEF ReadStaleDelta
  <1>11. CASE UNCHANGED vars
    <2>1. UNCHANGED <<fpIndex, file, cold, walk, writing, queue, inBase, inDelta, hot, batch, broken,
                      nextCid, phase, work, merges>>
          BY <1>11 DEF vars
    <2>2. PhaseFacts' /\ MergeInv'
          BY <2>1 DEF PlaceInv, PhaseFacts, MergeInv, HasBaseFile, HasFile
    <2> QED BY <1>1, <2>1, <2>2, StillPlace
  <1> QED BY <1>2, <1>3, <1>4, <1>5, <1>6, <1>7, <1>8, <1>9, <1>10, <1>11

-----------------------------------------------------------------------------
(* A batch is received, and its chunks are taken one by one.               *)

LEMMA RecvBatchPlace ==
  ASSUME TypeOK, TypeOK', PlaceInv, NEW b \in Batches, RecvBatch(b)
  PROVE  PlaceInv'
  <1>1. /\ phase = "recv" /\ phase' = "batch" /\ batch'.todo = Entries(b) /\ batch'.done = <<>>
        /\ UNCHANGED <<fpIndex, file, cold, walk, writing, queue, inBase, inDelta, hot, broken, nextCid, work>>
        BY DEF RecvBatch, indexVars, writerVars, enclaveVars, offlineVars
  <1>2. batch.done = <<>> /\ nextCid \in Nat
        BY <1>1 DEF PlaceInv, PhaseFacts, TypeOK, ContainerTypes
  <1>3. PhaseFacts' /\ MergeInv'
        BY <1>1 DEF PlaceInv, PhaseFacts, MergeInv
  <1>4. Quiet
        BY <1>1, <1>2, QuietAll
  <1>5. b \in Seq(Chunks) /\ Len(b) \in Nat
        BY BoundAssumption, LenProperties
  <1>6. Len(Entries(b)) = Len(b) /\ \A i \in 1 .. Len(b) : Entries(b)[i] = QueryEntry(b, i)
        BY <1>5 DEF Entries
  <1>7. \A i \in 1 .. Len(b) : QueryEntry(b, i).fp = b[i] /\ QueryEntry(b, i).new = IsNew(b, i)
        BY DEF QueryEntry
  <1>8. ASSUME NEW i \in 1 .. Len(b), NEW j \in 1 .. Len(b), IsNew(b, i), IsNew(b, j), b[i] = b[j]
        PROVE  i = j
    <2>1. ~(j < i)
      <3>1. j < i => j \in 1 .. i - 1
            BY <1>5
      <3> QED BY <1>8, <3>1 DEF IsNew
    <2>2. ~(i < j)
      <3>1. i < j => i \in 1 .. j - 1
            BY <1>5
      <3> QED BY <1>8, <3>1 DEF IsNew
    <2> QED BY <1>5, <2>1, <2>2
  <1>9. Len(batch'.done) = 0
        BY <1>1, EmptySeq
  <1>10. BatchLive'
    <2>1. \A i, j \in 1 .. Len(batch'.todo) :
            batch'.todo[i].new /\ batch'.todo[j].new /\ batch'.todo[i].fp = batch'.todo[j].fp => i = j
          BY <1>1, <1>6, <1>7, <1>8
    <2> QED BY <1>9, <2>1 DEF BatchLive
  <1> QED BY <1>3, <1>4, <1>10, QuietStep DEF PlaceInv

\* The rest of a batch, and its first chunk.
LEMMA TodoTail ==
  ASSUME TypeOK, BatchLive, batch.todo # <<>>
  PROVE  /\ \A i \in 1 .. Len(Tail(batch.todo)) : Tail(batch.todo)[i].new =>
              /\ \A j \in 1 .. Len(batch.done) : Tail(batch.todo)[i].fp # batch.done[j].fp
              /\ \A j \in 1 .. Len(Tail(batch.todo)) :
                   Tail(batch.todo)[j].new /\ Tail(batch.todo)[i].fp = Tail(batch.todo)[j].fp => i = j
         /\ Head(batch.todo).new =>
              /\ \A j \in 1 .. Len(batch.done) : Head(batch.todo).fp # batch.done[j].fp
              /\ \A j \in 1 .. Len(Tail(batch.todo)) :
                   Tail(batch.todo)[j].new => Head(batch.todo).fp # Tail(batch.todo)[j].fp
  <1> DEFINE t == batch.todo
             n == Len(batch.todo)
             u == Tail(batch.todo)
  <1>1. t \in Seq(Entry)
        BY BatchSeqs
  <1>2. n \in Nat /\ n # 0 /\ Head(t) = t[1]
        BY <1>1, LenProperties, EmptySeq
  <1>3. Len(u) = n - 1 /\ \A i \in 1 .. Len(u) : u[i] = t[i + 1]
        BY <1>1, HeadTailProperties
  <1>4. \A i \in 1 .. n : t[i].new =>
          /\ \A j \in 1 .. Len(batch.done) : t[i].fp # batch.done[j].fp
          /\ \A j \in 1 .. n : t[j].new /\ t[i].fp = t[j].fp => i = j
        BY DEF BatchLive
  <1> HIDE DEF t, n, u
  <1>5. \A i \in 1 .. Len(u) : i \in Int /\ i + 1 \in 1 .. n /\ u[i] = t[i + 1] /\ i + 1 # 1
        BY <1>2, <1>3
  <1>6. 1 \in 1 .. n
        BY <1>2
  <1>7. ASSUME NEW i \in 1 .. Len(u), u[i].new
        PROVE  /\ \A j \in 1 .. Len(batch.done) : u[i].fp # batch.done[j].fp
               /\ \A j \in 1 .. Len(u) : u[j].new /\ u[i].fp = u[j].fp => i = j
    <2>1. t[i + 1].new /\ i + 1 \in 1 .. n /\ u[i] = t[i + 1]
          BY <1>5, <1>7
    <2>2. \A j \in 1 .. Len(batch.done) : u[i].fp # batch.done[j].fp
          BY <1>4, <2>1
    <2>3. ASSUME NEW j \in 1 .. Len(u), u[j].new, u[i].fp = u[j].fp
          PROVE  i = j
      <3>1. j + 1 \in 1 .. n /\ u[j] = t[j + 1] /\ i \in Int /\ j \in Int
            BY <1>5
      <3>2. t[j + 1].new /\ t[i + 1].fp = t[j + 1].fp
            BY <2>1, <2>3, <3>1
      <3>3. i + 1 = j + 1
            BY <1>4, <2>1, <3>1, <3>2, Zenon
      <3> QED BY <3>1, <3>3
    <2> QED BY <2>2, <2>3
  <1>8. ASSUME t[1].new
        PROVE  /\ \A j \in 1 .. Len(batch.done) : t[1].fp # batch.done[j].fp
               /\ \A j \in 1 .. Len(u) : u[j].new => t[1].fp # u[j].fp
        BY <1>4, <1>5, <1>6, <1>8
  <1> QED BY <1>2, <1>7, <1>8 DEF t, u

LEMMA SkipDuplicatePlace ==
  ASSUME TypeOK, TypeOK', PlaceInv, SkipDuplicate
  PROVE  PlaceInv'
  <1>1. batch.todo # <<>> /\ batch'.todo = Tail(batch.todo) /\ batch'.done = batch.done
        BY BatchSeqs DEF SkipDuplicate, Batch
  <1>2. /\ phase = "batch" /\ phase' = phase
        /\ UNCHANGED <<fpIndex, file, cold, walk, writing, queue, inBase, inDelta, hot, broken, nextCid, work>>
        BY DEF SkipDuplicate, indexVars, writerVars, enclaveVars, offlineVars, historyVars
  <1>3. nextCid \in Nat
        BY DEF TypeOK, ContainerTypes
  <1>4. PhaseFacts' /\ MergeInv'
        BY <1>2 DEF PlaceInv, PhaseFacts, MergeInv
  <1>5. Quiet
        BY <1>1, <1>2, <1>3, QuietAll
  <1>6. HoldersProper' /\ LiveCurrent' /\ LiveFound' /\ ColdMarksExact' /\ WalkInv' /\ Live' = Live
        BY <1>5, QuietStep
  <1>7. ASSUME NEW i \in 1 .. Len(batch'.done)
        PROVE  \E r \in Live' : r.fp = batch'.done[i].fp /\ r.addr = batch'.done[i].addr
        BY <1>1, <1>6 DEF PlaceInv, BatchLive, Stored
  <1>8. \A i, j \in 1 .. Len(batch'.done) : batch'.done[i].fp = batch'.done[j].fp => i = j
        BY <1>1 DEF PlaceInv, BatchLive
  <1>9. \A i \in 1 .. Len(batch'.todo) : batch'.todo[i].new =>
          /\ \A j \in 1 .. Len(batch'.done) : batch'.todo[i].fp # batch'.done[j].fp
          /\ \A j \in 1 .. Len(batch'.todo) :
               batch'.todo[j].new /\ batch'.todo[i].fp = batch'.todo[j].fp => i = j
        BY <1>1, TodoTail DEF PlaceInv
  <1>10. BatchLive'
        BY <1>7, <1>8, <1>9 DEF BatchLive, Stored
  <1> QED BY <1>4, <1>6, <1>10 DEF PlaceInv

-----------------------------------------------------------------------------
(* A record is added to an open container, which may be a new one.         *)

\* d is the container before the record, n after it.
Grows(d, n, r) ==
    /\ d \in Container /\ n \in Container /\ r \in Rec
    /\ n.cid = d.cid /\ n.recs = d.recs \cup {r} /\ n.size = d.size + Hdr + r.addr.len
    /\ r.pos = d.size /\ r.addr.cid = d.cid /\ r.addr.off = d.size
    /\ n.size < MaxContainer /\ d.cid # 0
    /\ d \in OnTheWay \/ (d = EmptyContainer(nextCid) /\ nextCid <= MaxCid)

\* The containers on their way are the same but for n; one that is no longer
\* there has been saved.
LEMMA GrowStep ==
  ASSUME TypeOK, TypeOK', HoldersProper, NEW d, NEW n, NEW r, Grows(d, n, r),
         n \in OnTheWay', \A g \in OnTheWay' : g = n \/ g \in OnTheWay,
         \A g \in OnTheWay : g \in OnTheWay' \/ g = d \/ g.recs \subseteq DiskRecs',
         DiskRecs \subseteq DiskRecs', DiskRecs' \subseteq DiskRecs \cup WayRecs
  PROVE  /\ \A g \in OnTheWay' : /\ g.cid <= MaxCid /\ (g.cid = 0 => g.recs = {})
                                 /\ Proper(g.cid, g.recs, g.size)
         /\ Live' = Live \cup {r}
         /\ \A g \in OnTheWay' : g.cid = 0 \/ g.cid >= nextCid \/ \E h \in OnTheWay : h.cid = g.cid
  <1>1. /\ d \in Container /\ n \in Container /\ r \in Rec
        /\ n.cid = d.cid /\ n.recs = d.recs \cup {r} /\ n.size = d.size + Hdr + r.addr.len
        /\ r.pos = d.size /\ r.addr.cid = d.cid /\ r.addr.off = d.size
        /\ n.size < MaxContainer /\ d.cid # 0
        BY DEF Grows
  <1>2. d.recs \in SUBSET Rec /\ d.size \in Int /\ d.cid \in Nat
        BY <1>1, ContainerFields
  <1>3. Proper(d.cid, d.recs, d.size) /\ d.cid <= MaxCid
    <2>1. CASE d \in OnTheWay
          BY <2>1 DEF HoldersProper
    <2>2. CASE d = EmptyContainer(nextCid) /\ nextCid <= MaxCid
          BY <2>2, EmptyFields, ProperEmpty
    <2> QED BY <2>1, <2>2 DEF Grows
  <1>4. Proper(n.cid, n.recs, n.size)
        BY <1>1, <1>2, <1>3, ProperAppend
  <1>5. ASSUME NEW g \in OnTheWay'
        PROVE  g.cid <= MaxCid /\ (g.cid = 0 => g.recs = {}) /\ Proper(g.cid, g.recs, g.size)
    <2>1. CASE g = n
          BY <2>1, <1>1, <1>3, <1>4
    <2>2. CASE g \in OnTheWay
          BY <2>2 DEF HoldersProper
    <2> QED BY <2>1, <2>2
  <1>6. d.recs \subseteq WayRecs
    <2>1. CASE d \in OnTheWay
          BY <2>1 DEF WayRecs
    <2>2. CASE d = EmptyContainer(nextCid)
          BY <2>2, EmptyFields
    <2> QED BY <2>1, <2>2 DEF Grows
  <1>7. ASSUME NEW t \in Live' PROVE t \in Live \cup {r}
    <2>1. CASE t \in DiskRecs'
          BY <2>1 DEF Live
    <2>2. CASE t \in WayRecs'
      <3>1. PICK g \in OnTheWay' : t \in g.recs
            BY <2>2 DEF WayRecs
      <3>2. CASE g = n
            BY <3>1, <3>2, <1>1, <1>6 DEF Live
      <3>3. CASE g \in OnTheWay
            BY <3>1, <3>3 DEF Live, WayRecs
      <3> QED BY <3>2, <3>3
    <2> QED BY <2>1, <2>2 DEF Live
  <1>8. n.recs \subseteq Live'
        BY DEF Live, WayRecs
  <1>9. ASSUME NEW t \in Live PROVE t \in Live'
    <2>1. CASE t \in DiskRecs
          BY <2>1 DEF Live
    <2>2. CASE t \in WayRecs
      <3>1. PICK g \in OnTheWay : t \in g.recs
            BY <2>2 DEF WayRecs
      <3>2. CASE g \in OnTheWay'
            BY <3>1, <3>2 DEF Live, WayRecs
      <3>3. CASE g = d
            BY <3>1, <3>3, <1>1, <1>8
      <3>4. CASE g.recs \subseteq DiskRecs'
            BY <3>1, <3>4 DEF Live
      <3> QED BY <3>2, <3>3, <3>4
    <2> QED BY <2>1, <2>2 DEF Live
  <1>10. Live' = Live \cup {r}
    <2>1. r \in Live'
          BY <1>1, <1>8
    <2> QED BY <2>1, <1>7, <1>9
  <1>11. ASSUME NEW g \in OnTheWay'
         PROVE  g.cid = 0 \/ g.cid >= nextCid \/ \E h \in OnTheWay : h.cid = g.cid
    <2>1. CASE g = n
      <3>1. CASE d \in OnTheWay
            BY <3>1, <2>1, <1>1
      <3>2. CASE d = EmptyContainer(nextCid)
        <4>1. g.cid = nextCid /\ nextCid \in Nat
              BY <3>2, <2>1, <1>1, EmptyFields DEF TypeOK, ContainerTypes
        <4> QED BY <4>1
      <3> QED BY <3>1, <3>2 DEF Grows
    <2>2. CASE g \in OnTheWay
          BY <2>2
    <2> QED BY <2>1, <2>2
  <1> QED BY <1>5, <1>10, <1>11

\* The container SaveRecord puts the record into.
Target(c, len) == IF Fits(c, len) THEN c ELSE EmptyContainer(nextCid)

\* The record r in it, when d was there before.
Saves(s, d, r, fp, len) ==
    /\ d \in Container /\ s.cont \in Container
    /\ s.cont.cid = d.cid /\ s.cont.recs = d.recs \cup {r} /\ s.cont.size = d.size + Hdr + len
    /\ r.fp = fp /\ r.addr = s.addr /\ r.pos = d.size
    /\ s.addr.cid = d.cid /\ s.addr.off = d.size /\ s.addr.len = len

LEMMA SaveRecordFields ==
  ASSUME NEW c \in Container, NEW fp \in Chunks, NEW len \in Nat, NEW base \in ChunkOrNone,
         NEW src \in Chunks \cup {NoChunk, Garbage}, nextCid \in Nat
  PROVE  \E r \in Rec : Saves(SaveRecord(c, fp, len, base, src), Target(c, len), r, fp, len)
  <1> DEFINE d == Target(c, len)
             a == [cid |-> d.cid, off |-> d.size, len |-> len, base |-> base]
             r == [pos |-> d.size, fp |-> fp, addr |-> a, src |-> src]
             s == SaveRecord(c, fp, len, base, src)
  <1>1. d \in Container
        BY EmptyContainerType DEF Target
  <1>2. d.cid \in Nat /\ d.size \in Int /\ d.recs \in SUBSET Rec
        BY <1>1, ContainerFields
  <1>3. a \in Addr /\ a.cid = d.cid /\ a.off = d.size /\ a.len = len /\ a.base = base
        BY <1>2 DEF Addr
  <1>4. s.cont = [d EXCEPT !.recs = @ \cup {r}, !.size = @ + Hdr + len] /\ s.addr = a
        BY DEF SaveRecord, Target
  <1> HIDE DEF d
  <1> HIDE DEF a
  <1>5. r \in Rec /\ r.pos = d.size /\ r.fp = fp /\ r.addr = a /\ r.src = src
        BY <1>2, <1>3, RecType
  <1> HIDE DEF r
  <1>6. s.cont.cid = d.cid /\ s.cont.recs = d.recs \cup {r} /\ s.cont.size = d.size + Hdr + len
        BY <1>1, <1>4 DEF Container
  <1>7. s.cont \in Container
        BY SaveRecordType
  <1> HIDE DEF s
  <1> QED BY <1>1, <1>3, <1>4, <1>5, <1>6, <1>7 DEF s, d, Saves

\* The batch after a chunk was stored as record r.
LEMMA StoreBatch ==
  ASSUME TypeOK, BatchLive, AtNewChunk, NEW r \in Rec, r \in Live', Live \subseteq Live',
         r.fp = Head(batch.todo).fp, NEW a \in Addr, a = r.addr, NEW old \in ChunkOrNone,
         StoreNext(Head(batch.todo).fp, a, old)
  PROVE  /\ BatchLive'
         /\ \A t : InBatch(t) => InBatch(t)'
         /\ \E i \in DOMAIN batch'.done : batch'.done[i].fp = r.fp /\ batch'.done[i].addr = r.addr
  <1> DEFINE x == [fp |-> Head(batch.todo).fp, addr |-> a, old |-> old]
             n == Len(batch.done)
  <1>1. batch.todo # <<>> /\ Head(batch.todo).new /\ Head(batch.todo).fp \in Chunks
        BY AtNewChunkType DEF AtNewChunk
  <1>2. batch'.todo = Tail(batch.todo) /\ batch'.done = Append(batch.done, x)
        BY BatchSeqs DEF StoreNext, Batch
  <1>3. x \in Done /\ x.fp = Head(batch.todo).fp /\ x.addr = r.addr
        BY <1>1 DEF Done
  <1> HIDE DEF x
  <1>4. batch.done \in Seq(Done)
        BY BatchSeqs
  <1>5. /\ Len(batch'.done) = n + 1 /\ n \in Nat
        /\ \A i \in 1 .. n : batch'.done[i] = batch.done[i]
        /\ batch'.done[n + 1] = x
        /\ DOMAIN batch'.done = 1 .. n + 1 /\ DOMAIN batch.done = 1 .. n
    <2>1. Append(batch.done, x) \in Seq(Done)
          BY <1>3, <1>4, AppendProperties
    <2> QED BY <1>2, <1>3, <1>4, <2>1, AppendProperties, LenProperties
  <1> HIDE DEF n
  <1>6. \A i \in 1 .. n + 1 : i \in 1 .. n \/ i = n + 1
        BY <1>5
  <1>a. \A i \in 1 .. n : i \in 1 .. n + 1 /\ i # n + 1
        BY <1>5
  <1>b. n + 1 \in 1 .. n + 1
        BY <1>5
  <1>7. ASSUME NEW i \in 1 .. n + 1
        PROVE  \E t \in Live' : t.fp = batch'.done[i].fp /\ t.addr = batch'.done[i].addr
    <2>1. CASE i = n + 1
          BY <2>1, <1>3, <1>5
    <2>2. CASE i \in 1 .. n
      <3>1. \E t \in Live : t.fp = batch.done[i].fp /\ t.addr = batch.done[i].addr
            BY <2>2 DEF BatchLive, Stored, n
      <3> QED BY <2>2, <3>1, <1>5
    <2> QED BY <2>1, <2>2, <1>6
  <1>8. \A i \in 1 .. n : batch.done[i].fp # x.fp
        BY <1>1, <1>3, TodoTail DEF n
  <1>9. \A i, j \in 1 .. n : batch.done[i].fp = batch.done[j].fp => i = j
        BY DEF BatchLive, n
  <1>10. ASSUME NEW i \in 1 .. n + 1, NEW j \in 1 .. n + 1, batch'.done[i].fp = batch'.done[j].fp
         PROVE  i = j
    <2>1. CASE i \in 1 .. n /\ j \in 1 .. n
          BY <2>1, <1>5, <1>9, <1>10
    <2>2. CASE i = n + 1 /\ j \in 1 .. n
          BY <2>2, <1>5, <1>8, <1>10
    <2>3. CASE i \in 1 .. n /\ j = n + 1
          BY <2>3, <1>5, <1>8, <1>10
    <2> QED BY <2>1, <2>2, <2>3, <1>6
  <1>11. ASSUME NEW i \in 1 .. Len(batch'.todo), batch'.todo[i].new
         PROVE  /\ \A j \in 1 .. n + 1 : batch'.todo[i].fp # batch'.done[j].fp
                /\ \A j \in 1 .. Len(batch'.todo) :
                     batch'.todo[j].new /\ batch'.todo[i].fp = batch'.todo[j].fp => i = j
    <2>1. /\ \A j \in 1 .. n : batch'.todo[i].fp # batch.done[j].fp
          /\ \A j \in 1 .. Len(batch'.todo) :
               batch'.todo[j].new /\ batch'.todo[i].fp = batch'.todo[j].fp => i = j
          /\ batch'.todo[i].fp # Head(batch.todo).fp
          BY <1>1, <1>2, <1>11, TodoTail DEF n
    <2> QED BY <2>1, <1>3, <1>5, <1>6
  <1>12. BatchLive'
        BY <1>5, <1>7, <1>10, <1>11 DEF BatchLive, Stored
  <1>13. \A t : InBatch(t) => InBatch(t)'
    <2>1. \A i \in DOMAIN batch.done : i \in DOMAIN batch'.done /\ batch'.done[i] = batch.done[i]
          BY <1>5, <1>a
    <2> QED BY <2>1 DEF InBatch
  <1>14. \E i \in DOMAIN batch'.done : batch'.done[i].fp = r.fp /\ batch'.done[i].addr = r.addr
        BY <1>3, <1>5, <1>b
  <1> QED BY <1>12, <1>13, <1>14

\* A chunk of a batch becomes a record of container c.
LEMMA StoreRecord ==
  ASSUME TypeOK, TypeOK', NameInv, PlaceInv, AtNewChunk,
         UNCHANGED <<phase, fpIndex, file, cold, walk, writing, hot, broken>>,
         NEW c \in Container, NEW kind \in Kinds, NEW fp \in Chunks, fp = Head(batch.todo).fp,
         NEW len \in Nat, Hdr + len < MaxContainer, NEW base \in ChunkOrNone,
         NEW src \in Chunks \cup {NoChunk, Garbage}, NEW old \in ChunkOrNone,
         NEW s, s = SaveRecord(c, fp, len, base, src), WriteContainer(c, kind, len),
         \/ c = inBase /\ inBase' = s.cont /\ inDelta' = inDelta
         \/ c = inDelta /\ inDelta' = s.cont /\ inBase' = inBase,
         StoreNext(fp, s.addr, old)
  PROVE  PlaceInv'
  <1> DEFINE d == IF Fits(c, len) THEN c ELSE EmptyContainer(nextCid)
             e == [cid |-> c.cid, recs |-> c.recs, size |-> c.size, kind |-> kind]
  <1>1. phase = "batch" /\ c \in OnTheWay
        BY DEF AtNewChunk, OnTheWay, Way
  <1>2. /\ nextCid \in Nat /\ nextCid > 0 /\ c.cid \in Nat /\ c.cid # 0 /\ c.size \in Int
        /\ queue \in Seq(QueuedContainer)
        BY <1>1, QueueDomain DEF NameInv, NamesTaken, OpenNamed, TypeOK, ContainerTypes, Container
  <1>a. d = Target(c, len)
        BY DEF Target
  <1>b. \E r \in Rec : Saves(s, Target(c, len), r, fp, len)
        BY <1>2, SaveRecordFields
  <1>3. PICK r \in Rec : /\ d \in Container /\ s.cont \in Container
            /\ s.cont.cid = d.cid /\ s.cont.recs = d.recs \cup {r}
            /\ s.cont.size = d.size + Hdr + len
            /\ r.fp = fp /\ r.addr = s.addr /\ r.pos = d.size
            /\ s.addr.cid = d.cid /\ s.addr.off = d.size /\ s.addr.len = len
    <2> HIDE DEF d
    <2> QED BY <1>a, <1>b DEF Saves
  <1>4. e \in QueuedContainer /\ AsContainer(e) = c
    <2>1. c = [cid |-> c.cid, recs |-> c.recs, size |-> c.size]
          BY DEF Container
    <2>2. AsContainer(e) = [cid |-> c.cid, recs |-> c.recs, size |-> c.size]
          BY DEF AsContainer
    <2>3. e \in QueuedContainer
          BY DEF Container, QueuedContainer
    <2> QED BY <2>1, <2>2, <2>3
  <1>5. ~Fits(c, len) => queue' = Append(queue, e) /\ nextCid' = nextCid + 1 /\ nextCid <= MaxCid
        BY DEF WriteContainer
  <1>6. Fits(c, len) => queue' = queue /\ nextCid' = nextCid
        BY DEF WriteContainer
  <1>7. nextCid <= nextCid'
        BY <1>2, <1>5, <1>6
  <1>8. d.cid # 0 /\ (d \in OnTheWay \/ (d = EmptyContainer(nextCid) /\ nextCid <= MaxCid))
        BY <1>1, <1>2, <1>5, EmptyFields
  <1>9. s.cont.size < MaxContainer
    <2>1. CASE Fits(c, len)
      <3>1. d = c /\ Hdr + len + c.size < MaxContainer
            BY <2>1 DEF Fits
      <3> QED BY <3>1, <1>2, <1>3, HdrPositive
    <2>2. CASE ~Fits(c, len)
      <3>1. d.size = 0
            BY <2>2, EmptyFields
      <3> QED BY <3>1, <1>3, HdrPositive
    <2> QED BY <2>1, <2>2
  <1>10. Grows(d, s.cont, r)
        BY <1>3, <1>8, <1>9 DEF Grows
  <1>11. /\ s.cont \in OnTheWay' /\ (\A g \in OnTheWay' : g = s.cont \/ g \in OnTheWay)
         /\ \A g \in OnTheWay : g \in OnTheWay' \/ g = d
    <2>a. OnTheWay' = Way(inBase', inDelta', hot, queue', writing)
          BY DEF OnTheWay
    <2>1. CASE Fits(c, len)
      <3>1. d = c /\ OnTheWay' = Way(inBase', inDelta', hot, queue, writing)
            BY <2>a, <1>6, <2>1
      <3> HIDE DEF d
      <3> QED BY <3>1 DEF OnTheWay, Way
    <2>2. CASE ~Fits(c, len)
      <3> HIDE DEF d, e
      <3>1. OnTheWay' = Way(inBase', inDelta', hot, Append(queue, e), writing)
            BY <2>a, <1>5, <2>2
      <3>2. Way(inBase', inDelta', hot, Append(queue, e), writing)
              = Way(inBase', inDelta', hot, queue, writing) \cup {AsContainer(e)}
            BY <1>2, <1>4, WayAppend
      <3> QED BY <3>1, <3>2, <1>1, <1>4 DEF OnTheWay, Way
    <2> QED BY <2>1, <2>2
  <1> HIDE DEF d, e
  <1>12. DiskRecs' = DiskRecs
        BY DEF DiskRecs, Disk
  <1>13. /\ \A g \in OnTheWay' : /\ g.cid <= MaxCid /\ (g.cid = 0 => g.recs = {})
                                 /\ Proper(g.cid, g.recs, g.size)
         /\ Live' = Live \cup {r}
         /\ \A g \in OnTheWay' : g.cid = 0 \/ g.cid >= nextCid \/ \E h \in OnTheWay : h.cid = g.cid
        BY <1>10, <1>11, <1>12, GrowStep DEF PlaceInv
  <1>14. HoldersProper'
        BY <1>13 DEF PlaceInv, HoldersProper
  <1>15. PhaseFacts'
        BY <1>1 DEF PlaceInv, PhaseFacts
  <1>16. s.addr \in Addr
        BY <1>3, RecFields
  <1>17. /\ BatchLive'
         /\ \A t : InBatch(t) => InBatch(t)'
         /\ \E i \in DOMAIN batch'.done : batch'.done[i].fp = r.fp /\ batch'.done[i].addr = r.addr
        BY <1>3, <1>13, <1>16, StoreBatch DEF PlaceInv
  <1>18. \A t : Marked(t)' = Marked(t)
        BY DEF Marked, ColdOffsets
  <1>19. LiveCurrent'
    <2>1. ASSUME NEW t \in Live'
          PROVE  fpIndex'[t.fp] = t.addr \/ InBatch(t)' \/ (Marked(t)' /\ t \notin walk'.recs)
      <3>1. CASE t = r
            BY <3>1, <1>17 DEF InBatch
      <3>2. CASE t \in Live
            BY <3>2, <1>17, <1>18 DEF PlaceInv, LiveCurrent
      <3> QED BY <3>1, <3>2, <1>13
    <2> QED BY <2>1 DEF LiveCurrent
  <1>20. \A k \in Nat : Unused(k) => Unused(k)'
        BY <1>7, <1>13, UnusedKept
  <1>21. LiveFound'
    <2>1. \A x \in Chunks : fpIndex[x].cid \in Nat
          BY PlaceTypes
    <2>2. \A x, a : Stored(x, a) => Stored(x, a)'
          BY <1>13 DEF Stored
    <2>3. \A x : Indexed(x)' = Indexed(x)
          BY DEF Indexed
    <2> QED BY <1>20, <2>1, <2>2, <2>3 DEF PlaceInv, LiveFound
  <1>22. ColdMarksExact' /\ WalkInv' /\ MergeInv'
        BY <1>1 DEF PlaceInv, ColdMarksExact, WalkInv, MergeInv
  <1> QED BY <1>14, <1>15, <1>17, <1>19, <1>21, <1>22 DEF PlaceInv

LEMMA StorePlace ==
  ASSUME TypeOK, TypeOK', NameInv, PlaceInv, StoreNew
  PROVE  PlaceInv'
  <1> DEFINE f == Head(batch.todo).fp
             b == Head(batch.todo).base
  <1>1. /\ AtNewChunk /\ UNCHANGED <<phase, hot, writing, file, fpIndex>>
        /\ f \in Chunks /\ b \in ChunkOrNone /\ NoChunk \in ChunkOrNone
        BY StoreCases, AtNewChunkType
  <1>2. UNCHANGED <<cold, walk, broken>>
        BY DEF StoreNew, StoreUnique, StoreDeferred, StoreSimilarCached, StoreSimilarLoaded,
               StoreSimilarMissing, offlineVars
  <1>3. inBase \in Container /\ inDelta \in Container /\ "base" \in Kinds /\ "delta" \in Kinds
        BY DEF TypeOK, ContainerTypes, Kinds
  <1>4. ASSUME NEW old \in ChunkOrNone, SavebaseChunk(f, old)
        PROVE  PlaceInv'
    <2>1. CLen[f] \in Nat /\ Hdr + CLen[f] < MaxContainer
      <3>1. CLen[f] \in Nat /\ Size[f] \in Nat /\ CLen[f] <= Size[f] /\ Hdr + Size[f] < MaxContainer
            BY <1>1, SizeAssumption, ContainerAssumption
      <3> QED BY <3>1, HdrPositive
    <2> DEFINE s == SaveRecord(inBase, f, CLen[f], NoChunk, NoChunk)
    <2>2. /\ WriteContainer(inBase, "base", CLen[f]) /\ inBase' = s.cont /\ StoreNext(f, s.addr, old)
          /\ inDelta' = inDelta
          BY <1>4 DEF SavebaseChunk
    <2> HIDE DEF s
    <2> QED BY <1>1, <1>2, <1>3, <2>1, <2>2, StoreRecord DEF s
  <1>5. ASSUME NEW len \in Nat, NEW src \in Chunks \cup {Garbage}, len < Size[f],
               SavedeltaChunk(f, len, b, src)
        PROVE  PlaceInv'
    <2>1. Hdr + len < MaxContainer
      <3>1. Size[f] \in Nat /\ Hdr + Size[f] < MaxContainer
            BY <1>1, SizeAssumption, ContainerAssumption
      <3> QED BY <3>1, <1>5, HdrPositive
    <2> DEFINE s == SaveRecord(inDelta, f, len, b, src)
    <2>2. /\ WriteContainer(inDelta, "delta", len) /\ inDelta' = s.cont /\ StoreNext(f, s.addr, NoChunk)
          /\ inBase' = inBase
          BY <1>5 DEF SavedeltaChunk
    <2>3. src \in Chunks \cup {NoChunk, Garbage}
          OBVIOUS
    <2> HIDE DEF s
    <2> QED BY <1>1, <1>2, <1>3, <2>1, <2>2, <2>3, StoreRecord DEF s
  <1> QED BY <1>4, <1>5, StoreCases

-----------------------------------------------------------------------------
(* The end of a batch, and of a session.                                   *)

\* While chunks are taken nothing is marked.
LEMMA NothingMarked ==
  ASSUME PhaseFacts, phase \notin {"pairs", "deltas", "cold", "walk", "stale"}, UNCHANGED <<cold, walk>>
  PROVE  ColdMarksExact'
  <1>1. walk' = NoWalk /\ \A k \in Cids : cold'[k] = {}
        BY DEF PhaseFacts
  <1>2. walk'.rest = {}
        BY <1>1 DEF NoWalk
  <1> QED BY <1>1, <1>2 DEF ColdMarksExact

LEMMA EndBatchPlace ==
  ASSUME TypeOK, TypeOK', PlaceInv, FreshBatch, EndBatch
  PROVE  PlaceInv'
  <1> DEFINE n == Len(batch.done)
  <1>1. /\ phase = "batch" /\ phase' = "recv" /\ batch' = NoBatch
        /\ UNCHANGED <<file, cold, walk, writing, queue, inBase, inDelta, hot, broken, nextCid, work>>
        BY DEF EndBatch, writerVars, enclaveVars, offlineVars, historyVars
  <1>2. n \in Nat /\ DOMAIN batch.done = 1 .. n
        BY BatchSeqs, LenProperties
  <1>3. \A c \in Chunks : fpIndex'[c] = IF DoneOf(c) = {} THEN fpIndex[c]
                                        ELSE batch.done[Min(DoneOf(c))].addr
        BY DEF EndBatch, UpdateOutIndex
  <1>4. ASSUME NEW c \in Chunks, DoneOf(c) # {}
        PROVE  Min(DoneOf(c)) \in 1 .. n /\ batch.done[Min(DoneOf(c))].fp = c
    <2>1. DoneOf(c) \in SUBSET Nat
          BY <1>2 DEF DoneOf
    <2>2. Min(DoneOf(c)) \in DoneOf(c)
          BY <1>4, <2>1, MinIn
    <2> QED BY <2>2, <1>2 DEF DoneOf
  <1>5. \A i \in 1 .. n : ~Indexed(batch.done[i].fp)
        BY <1>1 DEF FreshBatch
  <1>6. \A i, j \in 1 .. n : batch.done[i].fp = batch.done[j].fp => i = j
        BY DEF PlaceInv, BatchLive
  <1>7. OnTheWay' = OnTheWay /\ Live' = Live
        BY <1>1 DEF OnTheWay, Live, WayRecs, DiskRecs, Disk
  <1>8. HoldersProper'
        BY <1>1, <1>7 DEF PlaceInv, HoldersProper
  <1>9. PhaseFacts'
        BY <1>1 DEF PlaceInv, PhaseFacts, NoBatch
  <1>10. ASSUME NEW c \in Chunks, Indexed(c)
         PROVE  fpIndex'[c] = fpIndex[c]
    <2>1. DoneOf(c) = {}
          BY <1>2, <1>5, <1>10 DEF DoneOf
    <2> QED BY <2>1, <1>3
  <1>11. ASSUME NEW i \in 1 .. n, batch.done[i].fp \in Chunks
         PROVE  fpIndex'[batch.done[i].fp] = batch.done[i].addr
    <2> DEFINE c == batch.done[i].fp
    <2>1. DoneOf(c) # {}
          BY <1>2 DEF DoneOf
    <2>2. Min(DoneOf(c)) \in 1 .. n /\ batch.done[Min(DoneOf(c))].fp = c
          BY <2>1, <1>4, <1>11
    <2>3. Min(DoneOf(c)) = i
          BY <2>2, <1>6
    <2> QED BY <2>1, <2>3, <1>3, <1>11
  <1>12. ASSUME NEW r \in Live PROVE fpIndex'[r.fp] = r.addr
    <2>1. r.fp \in Chunks /\ r.addr # NoAddr
          BY LiveFacts DEF PlaceInv
    <2>2. CASE fpIndex[r.fp] = r.addr
          BY <2>1, <2>2, <1>10 DEF Indexed
    <2>3. CASE InBatch(r)
          BY <2>1, <2>3, <1>2, <1>11 DEF InBatch
    <2>4. CASE Marked(r)
      <3>1. \A k \in Cids : cold[k] = {}
            BY <1>1 DEF PlaceInv, PhaseFacts
      <3>2. walk.rest = {}
            BY <1>1 DEF PlaceInv, PhaseFacts, NoWalk
      <3>3. \A k : ColdOffsets(k) = {}
            BY <3>1, <3>2 DEF ColdOffsets
      <3> QED BY <2>4, <3>3 DEF Marked
    <2> QED BY <2>2, <2>3, <2>4 DEF PlaceInv, LiveCurrent
  <1>13. LiveCurrent'
        BY <1>7, <1>12 DEF LiveCurrent
  <1>14. \A k : Unused(k)' = Unused(k)
        BY <1>1, <1>7 DEF Unused
  <1>15. \A c, a : Stored(c, a)' = Stored(c, a)
        BY <1>7 DEF Stored
  <1>16. LiveFound'
    <2>1. ASSUME NEW c \in Chunks, Indexed(c)'
          PROVE  Stored(c, fpIndex'[c]) \/ (broken > 0 /\ Unused(fpIndex'[c].cid))
      <3>1. CASE DoneOf(c) = {}
        <4>1. fpIndex'[c] = fpIndex[c]
              BY <3>1, <1>3
        <4>2. Indexed(c)
              BY <2>1, <4>1 DEF Indexed
        <4> QED BY <4>1, <4>2 DEF PlaceInv, LiveFound
      <3>2. CASE DoneOf(c) # {}
        <4>1. Min(DoneOf(c)) \in 1 .. n /\ batch.done[Min(DoneOf(c))].fp = c
              BY <3>2, <1>4
        <4>2. fpIndex'[c] = batch.done[Min(DoneOf(c))].addr
              BY <3>2, <1>3
        <4> QED BY <4>1, <4>2 DEF PlaceInv, BatchLive
      <3> QED BY <3>1, <3>2
    <2>2. \A c \in Chunks : Indexed(c)' =>
             (\E r \in Live : r.fp = c /\ r.addr = fpIndex'[c]) \/ (broken > 0 /\ Unused(fpIndex'[c].cid))
          BY <2>1 DEF Stored
    <2> QED BY <2>2, <1>1, <1>7, <1>14 DEF LiveFound, Stored, Unused
  <1>17. BatchLive'
    <2>1. Len(batch'.done) = 0 /\ Len(batch'.todo) = 0
          BY <1>1, EmptySeq DEF NoBatch
    <2> QED BY <2>1 DEF BatchLive
  <1>18. ColdMarksExact' /\ WalkInv' /\ MergeInv'
        BY <1>1, NothingMarked DEF PlaceInv, WalkInv, MergeInv
  <1> QED BY <1>8, <1>9, <1>13, <1>16, <1>17, <1>18 DEF PlaceInv

\* A container that holds nothing is not pushed.
LEMMA WayTail ==
  ASSUME NEW b, NEW d, NEW h, NEW q \in Seq(QueuedContainer), NEW w, NEW c \in Container, NEW kind \in Kinds
  PROVE  /\ q \o TailOf(c, kind) \in Seq(QueuedContainer)
         /\ Way(b, d, h, q \o TailOf(c, kind), w) =
              Way(b, d, h, q, w) \cup (IF c.size = 0 THEN {} ELSE {c})
  <1> DEFINE e == [cid |-> c.cid, recs |-> c.recs, size |-> c.size, kind |-> kind]
  <1>1. e \in QueuedContainer /\ AsContainer(e) = c
    <2>1. c = [cid |-> c.cid, recs |-> c.recs, size |-> c.size]
          BY DEF Container
    <2>2. AsContainer(e) = [cid |-> c.cid, recs |-> c.recs, size |-> c.size]
          BY DEF AsContainer
    <2>3. e \in QueuedContainer
          BY DEF Container, QueuedContainer
    <2> QED BY <2>1, <2>2, <2>3
  <1>2. TailOf(c, kind) = IF c.size = 0 THEN <<>> ELSE <<e>>
        BY DEF TailOf
  <1> HIDE DEF e
  <1>3. CASE c.size = 0
    <2>1. q \o TailOf(c, kind) = q
          BY <1>2, <1>3, ConcatEmptySeq
    <2> QED BY <2>1, <1>3
  <1>4. CASE c.size # 0
    <2>1. q \o TailOf(c, kind) = Append(q, e)
          BY <1>1, <1>2, <1>4, AppendIsConcat
    <2>2. Way(b, d, h, Append(q, e), w) = Way(b, d, h, q, w) \cup {c}
          BY <1>1, WayAppend
    <2>3. Append(q, e) \in Seq(QueuedContainer)
          BY <1>1, AppendProperties
    <2> QED BY <2>1, <2>2, <2>3, <1>4
  <1> QED BY <1>3, <1>4

LEMMA CloseSessionPlace ==
  ASSUME TypeOK, TypeOK', PlaceInv, CloseSession
  PROVE  PlaceInv'
  <1> DEFINE E == EmptyContainer(0)
             s == TailOf(inBase, "base")
             u == TailOf(inDelta, "delta")
  <1>1. /\ phase = "ended" /\ phase' = "drain" /\ queue' = queue \o TailContainers
        /\ nextCid' = nextCid + Len(TailContainers) /\ inBase' = E /\ inDelta' = E
        /\ UNCHANGED <<fpIndex, file, cold, walk, writing, hot, batch, broken, work>>
        BY DEF CloseSession, indexVars, offlineVars, historyVars
  <1>2. /\ nextCid \in Nat /\ broken \in Nat /\ inBase \in Container /\ inDelta \in Container
        /\ queue \in Seq(QueuedContainer) /\ "base" \in Kinds /\ "delta" \in Kinds
        BY DEF TypeOK, ContainerTypes, SessionTypes, Kinds
  <1>3. s \in Seq(QueuedContainer) /\ u \in Seq(QueuedContainer)
        BY <1>2, TailOfNames
  <1>4. queue' = (queue \o s) \o u
    <2>1. TailContainers = s \o u
          BY DEF TailContainers
    <2> HIDE DEF s, u
    <2>2. (queue \o s) \o u = queue \o (s \o u)
          BY <1>2, <1>3, ConcatAssociative
    <2> QED BY <1>1, <2>1, <2>2
  <1>5. OnTheWay' = Way(E, E, hot, queue, writing) \cup (IF inBase.size = 0 THEN {} ELSE {inBase})
                      \cup (IF inDelta.size = 0 THEN {} ELSE {inDelta})
    <2>1. OnTheWay' = Way(E, E, hot, (queue \o s) \o u, writing)
          BY <1>1, <1>4 DEF OnTheWay
    <2>2. /\ queue \o s \in Seq(QueuedContainer)
          /\ Way(E, E, hot, queue \o s, writing)
               = Way(E, E, hot, queue, writing) \cup (IF inBase.size = 0 THEN {} ELSE {inBase})
          BY <1>2, WayTail
    <2>3. \A q \in Seq(QueuedContainer) : Way(E, E, hot, q \o u, writing)
            = Way(E, E, hot, q, writing) \cup (IF inDelta.size = 0 THEN {} ELSE {inDelta})
          BY <1>2, WayTail
    <2> HIDE DEF E, s, u
    <2> QED BY <2>1, <2>2, <2>3
  <1>6. inBase \in OnTheWay /\ inDelta \in OnTheWay
        BY DEF OnTheWay, Way
  <1>7. (inBase.size = 0 => inBase.recs = {}) /\ (inDelta.size = 0 => inDelta.recs = {})
    <2>1. ASSUME NEW g \in OnTheWay PROVE g.size = 0 => g.recs = {}
          BY WayFacts, ProperFacts DEF PlaceInv
    <2> QED BY <2>1, <1>6
  <1>8. E.recs = {} /\ E.size = 0 /\ E.cid = 0 /\ E.cid <= MaxCid
        BY EmptyFields, ContainerAssumption
  <1> HIDE DEF E, s, u
  <1>9. ASSUME NEW g \in OnTheWay'
        PROVE  \/ g \in OnTheWay
               \/ g.recs = {} /\ g.size = 0 /\ g.cid <= MaxCid /\ (g.cid = 0 \/ g.cid >= nextCid)
    <2>1. g \in OnTheWay \/ g = E
          BY <1>5, <1>6 DEF OnTheWay, Way
    <2> QED BY <2>1, <1>8
  <1>10. ASSUME NEW g \in OnTheWay PROVE g \in OnTheWay' \/ g.recs = {}
    <2>1. g = inBase \/ g = inDelta \/ g \in Way(E, E, hot, queue, writing)
          BY DEF OnTheWay, Way
    <2> QED BY <2>1, <1>5, <1>7
  <1>11. nextCid <= nextCid' /\ broken <= broken'
    <2>1. Len(TailContainers) \in Nat
          BY <1>2, TailContainersType
    <2> QED BY <1>1, <1>2, <2>1
  <1>12. Quiet
        BY <1>1, <1>9, <1>10, <1>11 DEF Quiet
  <1>13. PhaseFacts' /\ MergeInv'
        BY <1>1 DEF PlaceInv, PhaseFacts, MergeInv, E
  <1> QED BY <1>1, <1>12, <1>13, QuietPlace

\* The open containers are lost: their names are never used again.
LEMMA DisconnectPlace ==
  ASSUME TypeOK, TypeOK', NameInv, PlaceInv, Disconnect
  PROVE  PlaceInv'
  <1> DEFINE E == EmptyContainer(0)
  <1>1. /\ phase = "recv" /\ phase' = "drain" /\ inBase' = E /\ inDelta' = E /\ broken' = broken + 1
        /\ UNCHANGED <<fpIndex, file, cold, walk, writing, queue, nextCid, hot, batch, work>>
        BY DEF Disconnect, indexVars, offlineVars, writerVars
  <1>2. nextCid \in Nat /\ broken \in Nat /\ broken' > 0
    <2>1. nextCid \in Nat /\ broken \in Nat
          BY DEF TypeOK, ContainerTypes, SessionTypes
    <2> QED BY <2>1, <1>1
  <1>3. E.recs = {} /\ E.size = 0 /\ E.cid = 0 /\ E.cid <= MaxCid
        BY EmptyFields, ContainerAssumption
  <1> HIDE DEF E
  <1>4. \A g \in OnTheWay' : g \in OnTheWay \/ g = E
        BY <1>1 DEF OnTheWay, Way
  <1>5. \A g \in OnTheWay : g \in OnTheWay' \/ g = inBase \/ g = inDelta
        BY <1>1 DEF OnTheWay, Way
  <1>6. HoldersProper'
    <2>1. ASSUME NEW g \in OnTheWay'
          PROVE  g.cid <= MaxCid /\ (g.cid = 0 => g.recs = {}) /\ Proper(g.cid, g.recs, g.size)
      <3>1. CASE g \in OnTheWay
            BY <3>1 DEF PlaceInv, HoldersProper
      <3>2. CASE g = E
            BY <3>2, <1>3, ProperEmpty
      <3> QED BY <3>1, <3>2, <1>4
    <2> QED BY <1>1, <2>1 DEF PlaceInv, HoldersProper
  <1>7. PhaseFacts' /\ MergeInv' /\ WalkInv'
        BY <1>1 DEF PlaceInv, PhaseFacts, MergeInv, WalkInv, E
  <1>8. ColdMarksExact'
        BY <1>1, NothingMarked DEF PlaceInv
  <1>9. BatchLive'
    <2>1. batch.done = <<>> /\ Len(batch.done) = 0
          BY <1>1, EmptySeq DEF PlaceInv, PhaseFacts
    <2> QED BY <1>1, <2>1 DEF PlaceInv, BatchLive
  <1>10. DiskRecs' = DiskRecs
        BY <1>1 DEF DiskRecs, Disk
  <1>11. ASSUME NEW r \in Live' PROVE r \in Live
    <2>1. CASE r \in WayRecs'
      <3>1. PICK g \in OnTheWay' : r \in g.recs
            BY <2>1 DEF WayRecs
      <3>2. g \in OnTheWay
            BY <3>1, <1>3, <1>4
      <3> QED BY <3>1, <3>2 DEF Live, WayRecs
    <2>2. CASE r \in DiskRecs'
          BY <2>2, <1>10 DEF Live
    <2> QED BY <2>1, <2>2 DEF Live
  <1>12. ASSUME NEW r \in Live PROVE r \in Live' \/ r \in inBase.recs \/ r \in inDelta.recs
    <2>1. CASE r \in WayRecs
      <3>1. PICK g \in OnTheWay : r \in g.recs
            BY <2>1 DEF WayRecs
      <3> QED BY <3>1, <1>5 DEF Live, WayRecs
    <2>2. CASE r \in DiskRecs
          BY <2>2, <1>10 DEF Live
    <2> QED BY <2>1, <2>2 DEF Live
  <1>13. LiveCurrent'
    <2>1. \A r : Marked(r)' = Marked(r) /\ InBatch(r)' = InBatch(r)
          BY <1>1 DEF Marked, ColdOffsets, InBatch
    <2> QED BY <1>1, <1>11, <2>1 DEF PlaceInv, LiveCurrent
  <1>14. ASSUME NEW c \in {inBase, inDelta} PROVE Unused(c.cid)'
    <2>1. c.cid \in Nat /\ c.cid # 0 /\ c.cid < nextCid /\ Unwritten(c.cid)
          BY <1>1, QueueDomain DEF NameInv, NamesTaken, OpenNamed, NoFileYet
    <2>2. \A g \in OnTheWay' : g.cid # c.cid
      <3>1. ASSUME NEW i \in 1 .. Len(queue) PROVE AsContainer(queue[i]).cid # c.cid
        <4>1. queue[i].cid # c.cid
              BY DEF NameInv, NamesDistinct
        <4> QED BY <4>1, QueueDomain, AsContainerType
      <3>2. ASSUME NEW i \in 1 .. Len(writing) PROVE AsContainer(writing[i]).cid # c.cid
        <4>1. writing[i].cid # c.cid
              BY DEF NameInv, NamesDistinct
        <4> QED BY <4>1, QueueDomain, AsContainerType
      <3>3. hot.cid # c.cid
            BY <2>1 DEF NameInv, NamesDistinct
      <3>4. OnTheWay' = Way(E, E, hot, queue, writing)
            BY <1>1 DEF OnTheWay
      <3> QED BY <3>1, <3>2, <3>3, <3>4, <2>1, <1>3 DEF Way
    <2> QED BY <1>1, <2>1, <2>2 DEF Unused, Unwritten
  <1>15. \A k \in Nat : Unused(k) => Unused(k)'
    <2>1. \A g \in OnTheWay' : g.cid = 0 \/ g.cid >= nextCid \/ \E h \in OnTheWay : h.cid = g.cid
          BY <1>3, <1>4
    <2>2. nextCid <= nextCid' /\ file' = file
          BY <1>1, <1>2
    <2> QED BY <2>1, <2>2, UnusedKept
  <1>16. LiveFound'
    <2>1. ASSUME NEW c \in Chunks, Indexed(c)
          PROVE  (\E r \in Live' : r.fp = c /\ r.addr = fpIndex[c]) \/ Unused(fpIndex[c].cid)'
      <3>1. CASE broken > 0 /\ Unused(fpIndex[c].cid)
            BY <3>1, <1>1, <1>15, PlaceTypes
      <3>2. CASE Stored(c, fpIndex[c])
        <4>1. PICK r \in Live : r.fp = c /\ r.addr = fpIndex[c]
              BY <3>2 DEF Stored
        <4>2. CASE r \in Live'
              BY <4>1, <4>2
        <4>3. CASE r \in inBase.recs
          <5>1. r.addr.cid = inBase.cid
                BY <4>3, WayFacts DEF PlaceInv, OnTheWay, Way
          <5> QED BY <5>1, <4>1, <1>1, <1>14
        <4>4. CASE r \in inDelta.recs
          <5>1. r.addr.cid = inDelta.cid
                BY <4>4, WayFacts DEF PlaceInv, OnTheWay, Way
          <5> QED BY <5>1, <4>1, <1>1, <1>14
        <4> QED BY <4>2, <4>3, <4>4, <1>12
      <3> QED BY <2>1, <3>1, <3>2 DEF PlaceInv, LiveFound
    <2>2. \A c : Indexed(c)' = Indexed(c)
          BY <1>1 DEF Indexed
    <2>3. \A c \in Chunks : Indexed(c)' =>
             (\E r \in Live' : r.fp = c /\ r.addr = fpIndex'[c]) \/ Unused(fpIndex[c].cid)'
          BY <2>1, <2>2, <1>1
    <2> QED BY <2>3, <1>1, <1>2 DEF LiveFound, Stored, Unused
  <1> QED BY <1>6, <1>7, <1>8, <1>9, <1>13, <1>16 DEF PlaceInv

-----------------------------------------------------------------------------
(* The writer opens and fills a file.                                      *)

\* It runs beside the receiver only.
LEMMA WriterPhase ==
  ASSUME PhaseFacts, queue # <<>> \/ writing # <<>>
  PROVE  phase \notin {"pairs", "deltas", "cold", "walk", "merge", "stale"}
  BY DEF PhaseFacts

\* What both steps of the writer leave alone.
LEMMA WriterFrame ==
  ASSUME TypeOK, TypeOK', PlaceInv, HoldersProper', Live' = Live,
         phase \notin {"pairs", "deltas", "cold", "walk", "merge", "stale"},
         UNCHANGED <<fpIndex, cold, walk, batch, broken, nextCid, phase, inBase, inDelta, hot>>,
         \A g \in OnTheWay' : g \in OnTheWay,
         \A k \in Cids : file'[k].kind # "none" => file[k].kind # "none" \/ \E h \in OnTheWay : h.cid = k
  PROVE  PlaceInv'
  <1>1. nextCid \in Nat /\ broken \in Nat
        BY DEF TypeOK, ContainerTypes, SessionTypes
  <1>2. nextCid <= nextCid' /\ broken <= broken' /\ broken' \in Nat /\ batch'.done = batch.done
        BY <1>1
  <1>3. \A g \in OnTheWay' : g.cid = 0 \/ g.cid >= nextCid \/ \E h \in OnTheWay : h.cid = g.cid
        OBVIOUS
  <1>4. \A k \in Nat : Unused(k) => Unused(k)'
        BY <1>2, <1>3, UnusedKept
  <1>5. LiveCurrent' /\ LiveFound'
        BY <1>2, <1>4, LiveFrame DEF PlaceInv
  <1>6. BatchLive'
        BY BatchFrame DEF PlaceInv
  <1>7. ColdMarksExact'
        BY NothingMarked DEF PlaceInv
  <1>8. PhaseFacts' /\ WalkInv' /\ MergeInv'
        BY DEF PlaceInv, PhaseFacts, WalkInv, MergeInv
  <1> QED BY <1>5, <1>6, <1>7, <1>8 DEF PlaceInv

LEMMA WriterOpenPlace ==
  ASSUME TypeOK, TypeOK', NameInv, PlaceInv, WriterOpen
  PROVE  PlaceInv'
  <1> DEFINE q == Head(queue)
  <1>1. /\ writing = <<>> /\ queue # <<>> /\ writing' = <<q>> /\ queue' = Tail(queue)
        /\ file' = [file EXCEPT ![q.cid] = [kind |-> q.kind, recs |-> {}, size |-> 0]]
        /\ UNCHANGED <<fpIndex, cold, walk, batch, broken, nextCid, phase, inBase, inDelta, hot>>
        BY DEF WriterOpen, indexVars, enclaveVars, offlineVars, historyVars
  <1>2. phase \notin {"pairs", "deltas", "cold", "walk", "merge", "stale"}
        BY <1>1, WriterPhase DEF PlaceInv
  <1>3. queue \in Seq(QueuedContainer) /\ file \in [Cids -> File]
        BY DEF TypeOK, ContainerTypes
  <1>4. OnTheWay' = OnTheWay
    <2>1. OnTheWay' = Way(inBase, inDelta, hot, Tail(queue), <<Head(queue)>>)
          BY <1>1 DEF OnTheWay
    <2>2. OnTheWay = Way(inBase, inDelta, hot, queue, <<>>)
          BY <1>1 DEF OnTheWay
    <2> QED BY <2>1, <2>2, <1>1, <1>3, WayPop
  <1>5. /\ 1 \in 1 .. Len(queue) /\ q = queue[1] /\ q \in QueuedContainer
    <2>1. Len(queue) \in Nat /\ Len(queue) # 0 /\ q = queue[1]
          BY <1>1, <1>3, LenProperties, EmptySeq
    <2>2. 1 \in 1 .. Len(queue)
          BY <2>1
    <2> QED BY <2>1, <2>2, QueueDomain
  <1>6. AsContainer(q) \in OnTheWay /\ AsContainer(q).cid = q.cid
        BY <1>5, AsContainerType DEF OnTheWay, Way
  <1>7. q.cid \in Cids => file[q.cid].recs = {}
        BY <1>5 DEF PlaceInv, HoldersProper, NameInv, NoFileYet, Unwritten
  <1>8. q.cid \in Nat /\ q.cid # 0 /\ q.cid <= MaxCid /\ q.cid \in Cids
    <2>1. q.cid \in Nat /\ q.cid # 0
          BY <1>5, QueueDomain DEF NameInv, NamesTaken
    <2>2. q.cid <= MaxCid
          BY <1>6 DEF PlaceInv, HoldersProper
    <2> QED BY <2>1, <2>2, ContainerAssumption DEF Cids
  <1> HIDE DEF q
  <1>9. \A k \in Cids : IF k = q.cid THEN file'[k].recs = {} /\ file'[k].size = 0 /\ file[k].recs = {}
                        ELSE file'[k] = file[k]
        BY <1>1, <1>3, <1>7
  <1>10. HoldersProper'
    <2>1. ASSUME NEW k \in Cids
          PROVE  Proper(k, file'[k].recs, file'[k].size) /\ (file'[k].kind = "none" => file'[k].recs = {})
      <3>1. CASE k = q.cid
            BY <3>1, <1>9, ProperEmpty
      <3>2. CASE k # q.cid
            BY <3>2, <1>9 DEF PlaceInv, HoldersProper
      <3> QED BY <3>1, <3>2
    <2>2. \A i \in 1 .. Len(writing') : file'[writing'[i].cid].recs = {}
      <3>1. Len(<<q>>) = 1 /\ <<q>>[1] = q
            OBVIOUS
      <3>2. \A i \in 1 .. 1 : i = 1
            OBVIOUS
      <3> QED BY <3>1, <3>2, <1>1, <1>8, <1>9
    <2> QED BY <2>1, <2>2, <1>4 DEF PlaceInv, HoldersProper
  <1>11. Live' = Live
    <2>1. walk.cid = 0
          BY <1>2 DEF PlaceInv, PhaseFacts, NoWalk
    <2>2. ASSUME NEW k \in Cids PROVE Disk(k)' = Disk(k)
      <3>1. k # 0
            BY PlaceTypes
      <3>2. Disk(k)' = file'[k].recs /\ Disk(k) = file[k].recs
            BY <3>1, <2>1, <1>1 DEF Disk
      <3> QED BY <3>2, <1>9
    <2> QED BY <2>2, <1>4 DEF Live, WayRecs, DiskRecs
  <1>12. \A k \in Cids : file'[k].kind # "none" => file[k].kind # "none" \/ \E h \in OnTheWay : h.cid = k
        BY <1>6, <1>9
  <1> QED BY <1>1, <1>2, <1>4, <1>10, <1>11, <1>12, WriterFrame

LEMMA WriterSavePlace ==
  ASSUME TypeOK, TypeOK', NameInv, PlaceInv, WriterSave
  PROVE  PlaceInv'
  <1> DEFINE q == writing[1]
             g == AsContainer(writing[1])
  <1>1. /\ writing # <<>> /\ writing' = <<>> /\ queue' = queue
        /\ file' = [file EXCEPT ![q.cid] = [kind |-> q.kind, recs |-> q.recs, size |-> q.size]]
        /\ UNCHANGED <<fpIndex, cold, walk, batch, broken, nextCid, phase, inBase, inDelta, hot>>
        BY DEF WriterSave, indexVars, enclaveVars, offlineVars, historyVars
  <1>2. phase \notin {"pairs", "deltas", "cold", "walk", "merge", "stale"}
        BY <1>1, WriterPhase DEF PlaceInv
  <1>3. writing \in Seq(QueuedContainer) /\ file \in [Cids -> File]
        BY DEF TypeOK, ContainerTypes
  <1>4. Len(writing) = 1 /\ 1 \in 1 .. Len(writing) /\ q \in QueuedContainer
    <2>1. Len(writing) \in Nat /\ Len(writing) # 0 /\ Len(writing) <= 1
          BY <1>1, <1>3, LenProperties, EmptySeq DEF NameInv, NamesDistinct
    <2>2. Len(writing) = 1 /\ 1 \in 1 .. Len(writing)
          BY <2>1
    <2> QED BY <2>2, QueueDomain
  <1>5. g \in OnTheWay /\ g.cid = q.cid /\ g.recs = q.recs /\ g.size = q.size
        BY <1>4, AsContainerType DEF OnTheWay, Way
  <1>6. OnTheWay = OnTheWay' \cup {g}
    <2>1. OnTheWay' = Way(inBase, inDelta, hot, queue, <<>>)
          BY <1>1 DEF OnTheWay
    <2> QED BY <2>1, <1>3, <1>4, WaySave DEF OnTheWay
  <1>7. q.cid \in Nat /\ q.cid # 0 /\ q.cid <= MaxCid /\ q.cid \in Cids /\ Proper(q.cid, q.recs, q.size)
    <2>1. q.cid \in Nat /\ q.cid # 0
          BY <1>4, QueueDomain DEF NameInv, NamesTaken
    <2>2. q.cid <= MaxCid /\ Proper(q.cid, q.recs, q.size)
      <3> HIDE DEF q, g
      <3> QED BY <1>5 DEF PlaceInv, HoldersProper
    <2> QED BY <2>1, <2>2, ContainerAssumption DEF Cids
  <1>8. file[q.cid].recs = {} /\ q.kind # "none"
        BY <1>4 DEF PlaceInv, HoldersProper, QueuedContainer, Kinds
  <1> HIDE DEF q, g
  <1>9. \A k \in Cids : IF k = q.cid
                        THEN /\ file'[k].recs = q.recs /\ file'[k].size = q.size /\ file'[k].kind = q.kind
                             /\ file[k].recs = {}
                        ELSE file'[k] = file[k]
        BY <1>1, <1>3, <1>8
  <1>10. HoldersProper'
    <2>1. ASSUME NEW k \in Cids
          PROVE  Proper(k, file'[k].recs, file'[k].size) /\ (file'[k].kind = "none" => file'[k].recs = {})
      <3>1. CASE k = q.cid
            BY <3>1, <1>7, <1>8, <1>9
      <3>2. CASE k # q.cid
            BY <3>2, <1>9 DEF PlaceInv, HoldersProper
      <3> QED BY <3>1, <3>2
    <2>2. Len(writing') = 0
          BY <1>1, EmptySeq
    <2>3. \A h \in OnTheWay' : /\ h.cid <= MaxCid /\ (h.cid = 0 => h.recs = {})
                               /\ Proper(h.cid, h.recs, h.size)
          BY <1>6 DEF PlaceInv, HoldersProper
    <2> QED BY <2>1, <2>2, <2>3 DEF HoldersProper
  <1>11. Live' = Live
    <2>1. walk.cid = 0
          BY <1>2 DEF PlaceInv, PhaseFacts, NoWalk
    <2>2. ASSUME NEW k \in Cids PROVE Disk(k)' = Disk(k) \cup (IF k = q.cid THEN q.recs ELSE {})
      <3>1. k # 0
            BY PlaceTypes
      <3>2. Disk(k)' = file'[k].recs /\ Disk(k) = file[k].recs
            BY <3>1, <2>1, <1>1 DEF Disk
      <3> QED BY <3>2, <1>9
    <2>3. DiskRecs' = DiskRecs \cup q.recs
          BY <2>2, <1>7 DEF DiskRecs
    <2>4. WayRecs = WayRecs' \cup q.recs
          BY <1>5, <1>6 DEF WayRecs
    <2> QED BY <2>3, <2>4 DEF Live
  <1>12. \A k \in Cids : file'[k].kind # "none" => file[k].kind # "none" \/ \E h \in OnTheWay : h.cid = k
        BY <1>5, <1>9
  <1>13. \A h \in OnTheWay' : h \in OnTheWay
        BY <1>6
  <1> QED BY <1>1, <1>2, <1>10, <1>11, <1>12, <1>13, WriterFrame

-----------------------------------------------------------------------------
(* Easy_update: a chunk gets a new record in a hot container, and the old  *)
(* one is marked.                                                          *)

\* While pairs are processed nothing is queued or squeezed.
LEMMA OfflinePhase ==
  ASSUME PlaceInv, phase \in {"pairs", "deltas", "cold", "merge"}
  PROVE  /\ queue = <<>> /\ writing = <<>> /\ Len(queue) = 0 /\ Len(writing) = 0
         /\ inBase = EmptyContainer(0) /\ inDelta = EmptyContainer(0)
         /\ batch.done = <<>> /\ walk = NoWalk /\ walk.cid = 0 /\ walk.recs = {} /\ walk.rest = {}
         /\ \A t : ~InBatch(t)
         /\ OnTheWay = {EmptyContainer(0), hot}
  <1>1. /\ queue = <<>> /\ writing = <<>> /\ inBase = EmptyContainer(0) /\ inDelta = EmptyContainer(0)
        /\ batch.done = <<>> /\ walk = NoWalk
        BY DEF PlaceInv, PhaseFacts
  <1>2. Len(<<>>) = 0 /\ DOMAIN <<>> = {}
        BY EmptySeq
  <1>3. walk.cid = 0 /\ walk.recs = {} /\ walk.rest = {}
        BY <1>1 DEF NoWalk
  <1>4. OnTheWay = {EmptyContainer(0), hot}
        BY <1>1, WayEmpty DEF OnTheWay
  <1> QED BY <1>1, <1>2, <1>3, <1>4 DEF InBatch

\* The entry of a chunk whose container is on disk leads to its record.
LEMMA EntryOnDisk ==
  ASSUME TypeOK, NameInv, PlaceInv, phase \in {"pairs", "deltas", "cold", "merge"}, NEW c \in Chunks,
         fpIndex[c].cid \in Cids, file[fpIndex[c].cid].kind # "none"
  PROVE  \E r \in file[fpIndex[c].cid].recs : r.fp = c /\ r.addr = fpIndex[c] /\ r.pos = fpIndex[c].off
  <1> DEFINE k == fpIndex[c].cid
  <1>1. Indexed(c)
    <2>1. NoAddr.cid = 0 /\ k # 0
          BY PlaceTypes DEF NoAddr
    <2> QED BY <2>1 DEF Indexed
  <1>2. ~Unused(k)
        BY DEF Unused
  <1>3. PICK r \in Live : r.fp = c /\ r.addr = fpIndex[c]
        BY <1>1, <1>2 DEF PlaceInv, LiveFound, Stored
  <1>4. r.pos = fpIndex[c].off
        BY <1>3, LiveFacts DEF PlaceInv
  <1>5. r \notin WayRecs
    <2>1. SUFFICES ASSUME NEW g \in OnTheWay, r \in g.recs PROVE FALSE
          BY DEF WayRecs
    <2>2. g.cid = k
          BY <2>1, <1>3, WayFacts DEF PlaceInv
    <2>3. g = hot
          BY <2>1, OfflinePhase, EmptyFields
    <2> QED BY <2>2, <2>3 DEF NameInv, NoFileYet, Unwritten
  <1>6. PICK j \in Cids : r \in Disk(j)
        BY <1>3, <1>5 DEF Live, DiskRecs
  <1>7. j = k
        BY <1>3, <1>6, DiskFacts DEF PlaceInv
  <1>8. Disk(k) = file[k].recs
        BY DiskIsFile DEF PlaceInv
  <1> QED BY <1>3, <1>4, <1>6, <1>7, <1>8

\* What MoveToHot does to the containers.
LEMMA MoveToHotGrows ==
  ASSUME TypeOK, TypeOK', NameInv, PlaceInv, phase = "deltas",
         NEW c \in Chunks, NEW len \in Nat, NEW src \in Chunks \cup {Garbage}, work.new \in Chunks,
         len <= Size[c], MoveToHot(c, len, src), UNCHANGED <<inBase, inDelta, queue, writing, walk>>
  PROVE  \E r \in Rec :
           /\ Grows(Target(hot, len), hot', r) /\ r.fp = c /\ r.src = src /\ r.addr.base = work.new
           /\ fpIndex' = [fpIndex EXCEPT ![c] = r.addr]
           /\ cold' = [cold EXCEPT ![fpIndex[c].cid] = @ \cup {ColdMark(fpIndex[c])}]
           /\ nextCid <= nextCid'
           /\ \A k \in Cids :
                \/ file'[k] = file[k]
                \/ /\ k = hot.cid /\ file[k].kind = "none" /\ file'[k].kind = "delta"
                   /\ file'[k].recs = hot.recs /\ file'[k].size = hot.size
           /\ Target(hot, len) = hot \/ (hot.cid \in Cids /\ file'[hot.cid].recs = hot.recs)
  <1> DEFINE h == Target(hot, len)
             a == [cid |-> h.cid, off |-> h.size, len |-> len, base |-> work.new]
             r == [pos |-> h.size, fp |-> c, addr |-> a, src |-> src]
  <1>1. /\ hot \in Container /\ nextCid \in Nat /\ file \in [Cids -> File] /\ hot.cid \in Nat
        /\ hot.size \in Int /\ nextCid > 0
        BY DEF TypeOK, ContainerTypes, Container, NameInv, NamesTaken
  <1>2. /\ hot' = [h EXCEPT !.recs = @ \cup {r}, !.size = @ + Hdr + len]
        /\ fpIndex' = [fpIndex EXCEPT ![c] = a]
        /\ cold' = [cold EXCEPT ![fpIndex[c].cid] = @ \cup {ColdMark(fpIndex[c])}]
        BY DEF MoveToHot, Target, Fits
  <1>3. /\ Fits(hot, len) => UNCHANGED <<file, nextCid>>
        /\ ~Fits(hot, len) => /\ nextCid <= MaxCid /\ file' = [file EXCEPT ![hot.cid] = HotFile]
                              /\ nextCid' = nextCid + 1
        BY DEF MoveToHot, Fits
  <1>4. h \in Container
        BY <1>1, EmptyContainerType DEF Target
  <1>5. h.cid \in Nat /\ h.size \in Int /\ h.recs \in SUBSET Rec
        BY <1>4, ContainerFields
  <1>6. hot.cid # 0 /\ hot \in OnTheWay /\ hot.cid <= MaxCid
        BY DEF PlaceInv, PhaseFacts, HoldersProper, OnTheWay, Way
  <1>7. hot.cid \in Cids
        BY <1>1, <1>6, ContainerAssumption DEF Cids
  <1>8. h.cid # 0 /\ (h \in OnTheWay \/ (h = EmptyContainer(nextCid) /\ nextCid <= MaxCid))
        BY <1>1, <1>3, <1>6, EmptyFields DEF Target
  <1>9. h.size + Hdr + len < MaxContainer
    <2>1. CASE Fits(hot, len)
      <3>1. h = hot /\ Hdr + len + hot.size < MaxContainer
            BY <2>1 DEF Fits, Target
      <3> HIDE DEF h
      <3> QED BY <3>1, <1>1, HdrPositive
    <2>2. CASE ~Fits(hot, len)
      <3>1. h.size = 0
            BY <2>2, EmptyFields DEF Target
      <3>2. Size[c] \in Nat /\ Hdr + Size[c] < MaxContainer
            BY SizeAssumption, ContainerAssumption
      <3> HIDE DEF h
      <3> QED BY <3>1, <3>2, HdrPositive
    <2> QED BY <2>1, <2>2
  <1>10. Target(hot, len) = hot \/ (hot.cid \in Cids /\ file'[hot.cid].recs = hot.recs)
        BY <1>1, <1>3, <1>7 DEF Target, HotFile
  <1>11. nextCid <= nextCid'
        BY <1>1, <1>3
  <1>12. ASSUME NEW k \in Cids
         PROVE  \/ file'[k] = file[k]
                \/ /\ k = hot.cid /\ file[k].kind = "none" /\ file'[k].kind = "delta"
                   /\ file'[k].recs = hot.recs /\ file'[k].size = hot.size
    <2>1. file[hot.cid].kind = "none"
          BY <1>7 DEF NameInv, NoFileYet, Unwritten
    <2> QED BY <2>1, <1>1, <1>3 DEF HotFile
  <1> HIDE DEF h
  <1>13. a \in Addr /\ a.cid = h.cid /\ a.off = h.size /\ a.len = len /\ a.base = work.new
        BY <1>5 DEF Addr, ChunkOrNone
  <1> HIDE DEF a
  <1>14. r \in Rec /\ r.pos = h.size /\ r.fp = c /\ r.addr = a /\ r.src = src
    <2>1. src \in Chunks \cup {NoChunk, Garbage}
          OBVIOUS
    <2> QED BY <2>1, <1>5, <1>13, RecType
  <1> HIDE DEF r
  <1>15. hot'.cid = h.cid /\ hot'.recs = h.recs \cup {r} /\ hot'.size = h.size + Hdr + len
        BY <1>2, <1>4 DEF Container
  <1>16. hot' \in Container
        BY DEF TypeOK, ContainerTypes
  <1>17. Grows(h, hot', r)
        BY <1>4, <1>8, <1>9, <1>13, <1>14, <1>15, <1>16 DEF Grows
  <1> QED BY <1>2, <1>10, <1>11, <1>12, <1>13, <1>14, <1>17 DEF h

LEMMA MoveToHotPlace ==
  ASSUME TypeOK, TypeOK', NameInv, PlaceInv, phase = "deltas", phase' \in {"deltas", "pairs"},
         NEW c \in Chunks, NEW len \in Nat, NEW src \in Chunks \cup {Garbage}, work.new \in Chunks,
         len <= Size[c], MoveToHot(c, len, src),
         UNCHANGED <<inBase, inDelta, queue, writing, walk, batch, broken>>,
         fpIndex[c].cid \in Cids, file[fpIndex[c].cid].kind # "none",
         phase' = "deltas" => HasBaseFile(work.old)'
  PROVE  PlaceInv'
  <1> DEFINE h == Target(hot, len)
             was == fpIndex[c]
  <1>1. PICK r \in Rec :
           /\ Grows(h, hot', r) /\ r.fp = c
           /\ fpIndex' = [fpIndex EXCEPT ![c] = r.addr]
           /\ cold' = [cold EXCEPT ![was.cid] = @ \cup {ColdMark(was)}]
           /\ nextCid <= nextCid'
           /\ \A k \in Cids :
                \/ file'[k] = file[k]
                \/ /\ k = hot.cid /\ file[k].kind = "none" /\ file'[k].kind = "delta"
                   /\ file'[k].recs = hot.recs /\ file'[k].size = hot.size
           /\ h = hot \/ (hot.cid \in Cids /\ file'[hot.cid].recs = hot.recs)
        BY MoveToHotGrows
  <1>2. PICK w \in file[was.cid].recs : w.fp = c /\ w.addr = was /\ w.pos = was.off
        BY EntryOnDisk
  <1>3. /\ fpIndex \in [Chunks -> Addr] /\ cold \in [Cids -> SUBSET (Int \X Int)] /\ broken \in Nat
        /\ nextCid \in Nat
        BY DEF TypeOK, IndexTypes, OfflineTypes, SessionTypes, ContainerTypes
  <1>4. /\ hot'.cid = h.cid /\ r.addr.cid = h.cid /\ h.cid # 0 /\ h \in Container
        /\ h \in OnTheWay \/ h = EmptyContainer(nextCid)
        BY <1>1 DEF Grows
  \* The hot container has no file, neither now nor before.
  <1>5. ASSUME NEW k \in Cids, file[k].kind # "none" PROVE h.cid # k
    <2>1. CASE h = hot
          BY <2>1, <1>5 DEF NameInv, NoFileYet, Unwritten
    <2>2. CASE h = EmptyContainer(nextCid)
      <3>1. h.cid = nextCid /\ k < nextCid
            BY <2>2, <1>5, EmptyFields DEF NameInv, NamesTaken
      <3>2. k \in Nat
            BY PlaceTypes
      <3> QED BY <3>1, <3>2, <1>3
    <2> QED BY <2>1, <2>2 DEF Target
  <1> HIDE DEF h
  <1>6. /\ OnTheWay = {EmptyContainer(0), hot} /\ OnTheWay' = {EmptyContainer(0), hot'}
        /\ Len(writing') = 0 /\ (\A t : ~InBatch(t)) /\ walk.cid = 0 /\ walk.recs = {} /\ walk.rest = {}
        /\ walk = NoWalk
    <2>1. /\ OnTheWay = {EmptyContainer(0), hot} /\ queue = <<>> /\ writing = <<>> /\ Len(writing) = 0
          /\ (\A t : ~InBatch(t)) /\ walk.cid = 0 /\ walk.recs = {} /\ walk.rest = {} /\ walk = NoWalk
          /\ inBase = EmptyContainer(0) /\ inDelta = EmptyContainer(0)
          BY OfflinePhase
    <2>2. OnTheWay' = Way(EmptyContainer(0), EmptyContainer(0), hot', <<>>, <<>>)
          BY <2>1 DEF OnTheWay
    <2>3. OnTheWay' = {EmptyContainer(0), hot'}
          BY <2>2, WayEmpty
    <2> QED BY <2>1, <2>3
  <1>7. \A k \in Cids : Disk(k) = file[k].recs /\ Disk(k)' = file'[k].recs
    <2>1. \A k \in Cids : k # 0
          BY PlaceTypes
    <2> QED BY <2>1, <1>6 DEF Disk
  <1>8. \A k \in Cids : file[k].kind = "none" => file[k].recs = {}
        BY DEF PlaceInv, HoldersProper
  <1>9. DiskRecs \subseteq DiskRecs' /\ DiskRecs' \subseteq DiskRecs \cup WayRecs
    <2>1. ASSUME NEW k \in Cids PROVE file[k].recs \subseteq file'[k].recs
          BY <1>1, <1>8
    <2>2. ASSUME NEW k \in Cids PROVE file'[k].recs \subseteq file[k].recs \cup WayRecs
          BY <1>1, <1>6 DEF WayRecs
    <2> QED BY <2>1, <2>2, <1>7 DEF DiskRecs
  <1>10. \A g \in OnTheWay : g \in OnTheWay' \/ g = h \/ g.recs \subseteq DiskRecs'
    <2>1. CASE h = hot
          BY <2>1, <1>6
    <2>2. CASE hot.cid \in Cids /\ file'[hot.cid].recs = hot.recs
      <3>1. hot.recs \subseteq DiskRecs'
            BY <2>2, <1>7 DEF DiskRecs
      <3> QED BY <3>1, <1>6
    <2> QED BY <2>1, <2>2, <1>1
  <1>11. hot' \in OnTheWay' /\ \A g \in OnTheWay' : g = hot' \/ g \in OnTheWay
        BY <1>6
  <1>12. /\ \A g \in OnTheWay' : /\ g.cid <= MaxCid /\ (g.cid = 0 => g.recs = {})
                                 /\ Proper(g.cid, g.recs, g.size)
         /\ Live' = Live \cup {r}
         /\ \A g \in OnTheWay' : g.cid = 0 \/ g.cid >= nextCid \/ \E t \in OnTheWay : t.cid = g.cid
        BY <1>1, <1>9, <1>10, <1>11, GrowStep DEF PlaceInv
  <1>13. HoldersProper'
    <2>1. ASSUME NEW k \in Cids
          PROVE  Proper(k, file'[k].recs, file'[k].size) /\ (file'[k].kind = "none" => file'[k].recs = {})
      <3>1. CASE file'[k] = file[k]
            BY <3>1 DEF PlaceInv, HoldersProper
      <3>2. CASE /\ k = hot.cid /\ file'[k].kind = "delta"
                 /\ file'[k].recs = hot.recs /\ file'[k].size = hot.size
            BY <3>2, <1>6 DEF PlaceInv, HoldersProper
      <3> QED BY <3>1, <3>2, <1>1
    <2> QED BY <2>1, <1>6, <1>12 DEF HoldersProper
  <1>14. PhaseFacts'
    <2>1. phase' \notin {"recv", "batch", "ended", "cold", "walk", "merge", "stale", "idle", "drain"}
          OBVIOUS
    <2>2. queue' = <<>> /\ writing' = <<>> /\ walk' = NoWalk /\ hot'.cid # 0 /\ batch'.done = <<>>
          /\ inBase' = EmptyContainer(0) /\ inDelta' = EmptyContainer(0)
          BY <1>4, <1>6, OfflinePhase
    <2> QED BY <2>1, <2>2 DEF PhaseFacts
  \* Marks are added, and the entry of c moves to the new record.
  <1>15. \A k \in Cids : cold'[k] = IF k = was.cid THEN cold[k] \cup {ColdMark(was)} ELSE cold[k]
        BY <1>1, <1>3
  <1>16. \A x \in Chunks : fpIndex'[x] = IF x = c THEN r.addr ELSE fpIndex[x]
        BY <1>1, <1>3
  <1>17. \A k : ColdOffsets(k) \subseteq ColdOffsets(k)'
        BY <1>15 DEF ColdOffsets
  <1>18. \A k \in Cids : k = was.cid => was.off \in ColdOffsets(k)'
    <2>1. ASSUME NEW k \in Cids, k = was.cid
          PROVE  was.off \in ColdOffsets(k)'
      <3>1. ColdMark(was) \in cold'[k] /\ ColdMark(was)[1] = was.off
            BY <2>1, <1>15 DEF ColdMark
      <3>2. \A q \in cold'[k] : q[1] \in ColdOffsets(k)'
            BY DEF ColdOffsets
      <3> QED BY <3>1, <3>2
    <2> QED BY <2>1
  <1>19. LiveCurrent'
    <2>1. ASSUME NEW t \in Live'
          PROVE  fpIndex'[t.fp] = t.addr \/ InBatch(t)' \/ (Marked(t)' /\ t \notin walk'.recs)
      <3>1. CASE t = r
            BY <3>1, <1>1, <1>16
      <3>2. CASE t \in Live
        <4>1. t.fp \in Chunks /\ t.addr.off = t.pos
              BY <3>2, LiveFacts DEF PlaceInv
        <4>2. CASE fpIndex[t.fp] = t.addr /\ t.fp # c
              BY <4>1, <4>2, <1>16
        <4>3. CASE fpIndex[t.fp] = t.addr /\ t.fp = c
          <5>1. t.addr = was /\ t.pos = was.off
                BY <4>1, <4>3
          <5>2. t.pos \in ColdOffsets(t.addr.cid)'
                BY <5>1, <1>18
          <5> QED BY <5>2, <1>6 DEF Marked
        <4>4. CASE Marked(t)
              BY <4>4, <1>6, <1>17 DEF Marked
        <4> QED BY <3>2, <4>2, <4>3, <4>4, <1>6 DEF PlaceInv, LiveCurrent
      <3> QED BY <3>1, <3>2, <1>12
    <2> QED BY <2>1 DEF LiveCurrent
  <1>20. \A k \in Nat : Unused(k) => Unused(k)'
    <2>1. \A k \in Cids : file'[k].kind # "none" =>
            file[k].kind # "none" \/ k >= nextCid \/ \E g \in OnTheWay : g.cid = k
          BY <1>1, <1>6
    <2> QED BY <2>1, <1>1, <1>12, UnusedKept
  <1>21. LiveFound'
    <2>1. ASSUME NEW x \in Chunks, Indexed(x)'
          PROVE  (\E t \in Live' : t.fp = x /\ t.addr = fpIndex'[x]) \/ (broken' > 0 /\ Unused(fpIndex[x].cid)')
      <3>1. CASE x = c
            BY <3>1, <1>1, <1>12, <1>16
      <3>2. CASE x # c
        <4>1. fpIndex'[x] = fpIndex[x] /\ Indexed(x)
              BY <3>2, <2>1, <1>16 DEF Indexed
        <4>2. CASE Stored(x, fpIndex[x])
              BY <4>1, <4>2, <1>12 DEF Stored
        <4>3. CASE broken > 0 /\ Unused(fpIndex[x].cid)
          <5>1. fpIndex[x].cid \in Nat
                BY PlaceTypes
          <5> QED BY <4>1, <4>3, <5>1, <1>20
        <4> QED BY <4>1, <4>2, <4>3 DEF PlaceInv, LiveFound
      <3> QED BY <3>1, <3>2
    <2> QED BY <2>1 DEF LiveFound, Stored
  <1>22. BatchLive'
        BY <1>12, BatchFrame DEF PlaceInv
  <1>23. ColdMarksExact'
    <2>1. ASSUME NEW k \in Cids, NEW q \in cold'[k]
          PROVE  \E t \in file'[k].recs : q = <<t.pos, t.addr.len + Hdr>> /\ fpIndex'[t.fp].cid # k
      <3>1. CASE q \in cold[k]
        <4>1. PICK t \in file[k].recs : q = <<t.pos, t.addr.len + Hdr>> /\ fpIndex[t.fp].cid # k
              BY <3>1 DEF PlaceInv, ColdMarksExact
        <4>2. file[k].kind # "none" /\ file'[k] = file[k]
              BY <4>1, <1>1, <1>8
        <4>3. t.fp \in Chunks
              BY <4>1, PlaceTypes, RecFields
        <4>4. fpIndex'[t.fp].cid # k
              BY <4>1, <4>2, <4>3, <1>4, <1>5, <1>16
        <4> QED BY <4>1, <4>2, <4>4
      <3>2. CASE k = was.cid /\ q = ColdMark(was)
        <4>1. file'[k] = file[k]
              BY <3>2, <1>1
        <4>2. w \in file'[k].recs /\ q = <<w.pos, w.addr.len + Hdr>>
              BY <3>2, <4>1, <1>2 DEF ColdMark
        <4>3. fpIndex'[w.fp].cid # k
              BY <3>2, <1>2, <1>4, <1>5, <1>16
        <4> QED BY <4>2, <4>3
      <3> QED BY <3>1, <3>2, <1>15
    <2>2. walk'.rest = {}
          BY <1>6
    <2> QED BY <2>1, <2>2 DEF ColdMarksExact
  <1>24. WalkInv' /\ MergeInv'
        BY DEF WalkInv, MergeInv
  <1> QED BY <1>13, <1>14, <1>19, <1>21, <1>22, <1>23, <1>24 DEF PlaceInv

\* A delta of the old base is moved, or keeps the old base in place.
LEMMA MoveDeltaPlace ==
  ASSUME TypeOK, TypeOK', PairAtHand, NameInv, PlaceInv, NEW d \in work.deltas, MoveDelta(d)
  PROVE  PlaceInv'
  <1> DEFINE content == Recoded(Load(file[fpIndex[d].cid]), fpIndex[d])
             o == work.old
  <1>1. /\ phase = "deltas" /\ phase' = "deltas" /\ HasDeltaFile(d)
        /\ UNCHANGED <<inBase, inDelta, queue, writing, walk, batch, broken>>
        BY DEF MoveDelta, writerVars, historyVars
  <1>2. PICK len \in RecodedLens(d, content) :
           \/ /\ len > Size[d]
              /\ UNCHANGED <<file, nextCid, hot, fpIndex, cold>>
           \/ ~(len > Size[d]) /\ MoveToHot(d, len, content)
        BY DEF MoveDelta
  <1>3. /\ d \in Chunks /\ work \in Work /\ o \in Chunks /\ work.new \in Chunks
        BY <1>1 DEF TypeOK, OfflineTypes, Work, PairAtHand
  <1>4. content \in Chunks \cup {Garbage}
        BY <1>3, RecodedType
  <1>5. len \in Nat /\ Size[d] \in Nat
    <2>1. DSize[d][work.new] \in Nat /\ Size[d] \in Nat
          BY <1>3, SizeAssumption
    <2> QED BY <2>1 DEF RecodedLens
  <1>6. work'.old = o
        BY MoveDeltaTypes
  <1>7. HasBaseFile(o)
        BY <1>1 DEF PlaceInv, PhaseFacts
  <1> HIDE DEF content
  <1>8. CASE /\ len > Size[d]
             /\ UNCHANGED <<file, nextCid, hot, fpIndex, cold>>
    <2>1. HasBaseFile(work.old)'
          BY <1>6, <1>7, <1>8 DEF HasBaseFile, HasFile
    <2>2. PhaseFacts'
          BY <1>1, <1>8, <2>1 DEF PlaceInv, PhaseFacts
    <2>3. MergeInv'
          BY <1>1 DEF MergeInv
    <2>4. nextCid <= nextCid'
          BY <1>8 DEF TypeOK, ContainerTypes
    <2> QED BY <1>1, <1>8, <2>2, <2>3, <2>4, StillPlace
  <1>9. CASE ~(len > Size[d]) /\ MoveToHot(d, len, content)
    <2>1. len <= Size[d]
          BY <1>5, <1>9
    <2>2. fpIndex[d].cid \in Cids /\ file[fpIndex[d].cid].kind # "none" /\ d # o
          BY <1>1, <1>7 DEF HasDeltaFile, HasBaseFile, HasFile
    <2>3. fpIndex \in [Chunks -> Addr] /\ file \in [Cids -> File]
          BY DEF TypeOK, IndexTypes, ContainerTypes
    <2>4. fpIndex'[o] = fpIndex[o]
          BY <1>3, <1>9, <2>2, <2>3 DEF MoveToHot
    <2>5. fpIndex[o].cid \in Cids /\ file[fpIndex[o].cid].kind = "base"
          BY <1>7 DEF HasBaseFile, HasFile
    <2>6. fpIndex[o].cid # hot.cid
          BY <2>5 DEF NameInv, NoFileYet, Unwritten
    <2>7. file'[fpIndex[o].cid] = file[fpIndex[o].cid]
          BY <1>9, <2>3, <2>5, <2>6 DEF MoveToHot
    <2>8. HasBaseFile(work.old)'
          BY <1>6, <2>4, <2>5, <2>7 DEF HasBaseFile, HasFile
    <2> QED BY <1>1, <1>3, <1>4, <1>5, <1>9, <2>1, <2>2, <2>8, MoveToHotPlace
  <1> QED BY <1>2, <1>8, <1>9

\* The old base follows its deltas, or stays what it is.
LEMMA MoveBasePlace ==
  ASSUME TypeOK, TypeOK', PairAtHand, NameInv, PlaceInv, MoveBase
  PROVE  PlaceInv'
  <1> DEFINE o == work.old
             len == DSize[o][work.new]
             content == IF work.oldc = o THEN work.newc ELSE Garbage
  <1>1. /\ phase = "deltas" /\ phase' = "pairs"
        /\ UNCHANGED <<inBase, inDelta, queue, writing, walk, batch, broken>>
        /\ \/ BaseMoves(len) /\ MoveToHot(o, len, content)
           \/ UNCHANGED <<file, nextCid, hot, fpIndex, cold>>
        BY DEF MoveBase, writerVars, historyVars
  <1>2. work \in Work /\ o \in Chunks /\ work.new \in Chunks
        BY <1>1 DEF TypeOK, OfflineTypes, PairAtHand
  <1>3. content \in Chunks \cup {Garbage}
        BY <1>2 DEF Work
  <1>4. len \in Nat
        BY <1>2, SizeAssumption
  <1>5. fpIndex[o].cid \in Cids /\ file[fpIndex[o].cid].kind # "none"
        BY <1>1 DEF PlaceInv, PhaseFacts, HasBaseFile, HasFile
  <1> HIDE DEF content, len
  <1>6. CASE BaseMoves(len) /\ MoveToHot(o, len, content)
    <2>1. len <= Size[o]
          BY <1>6 DEF BaseMoves
    <2> QED BY <1>1, <1>2, <1>3, <1>4, <1>5, <1>6, <2>1, MoveToHotPlace
  <1>7. CASE UNCHANGED <<file, nextCid, hot, fpIndex, cold>>
    <2>2. PhaseFacts'
          BY <1>1, <1>7 DEF PlaceInv, PhaseFacts
    <2>3. MergeInv'
          BY <1>1 DEF MergeInv
    <2>4. nextCid <= nextCid'
          BY <1>7 DEF TypeOK, ContainerTypes
    <2> QED BY <1>1, <1>7, <2>2, <2>3, <2>4, StillPlace
  <1> QED BY <1>1, <1>6, <1>7

\* The hot container becomes a file.
LEMMA SaveHotPlace ==
  ASSUME TypeOK, TypeOK', NameInv, PlaceInv, SaveHot
  PROVE  PlaceInv'
  <1>1. /\ phase = "pairs" /\ phase' = "cold" /\ hot' = EmptyContainer(0)
        /\ file' = IF hot.size = 0 THEN file ELSE [file EXCEPT ![hot.cid] = HotFile]
        /\ UNCHANGED <<fpIndex, inBase, inDelta, nextCid, queue, writing, cold, walk, batch, broken>>
        BY DEF SaveHot, indexVars, writerVars, enclaveVars, historyVars
  <1>2. /\ queue = <<>> /\ writing = <<>> /\ Len(writing) = 0
        /\ inBase = EmptyContainer(0) /\ inDelta = EmptyContainer(0)
        /\ batch.done = <<>> /\ walk = NoWalk /\ walk.cid = 0 /\ walk.rest = {}
        /\ OnTheWay = {EmptyContainer(0), hot}
        BY <1>1, OfflinePhase
  <1>3. OnTheWay' = {EmptyContainer(0)}
    <2>1. OnTheWay' = Way(EmptyContainer(0), EmptyContainer(0), EmptyContainer(0), <<>>, <<>>)
          BY <1>1, <1>2 DEF OnTheWay
    <2> QED BY <2>1, WayEmpty
  <1>4. hot \in OnTheWay /\ hot \in Container /\ file \in [Cids -> File]
        BY <1>2 DEF TypeOK, ContainerTypes
  <1>5. /\ hot.cid \in Cids /\ Proper(hot.cid, hot.recs, hot.size) /\ (hot.size = 0 => hot.recs = {})
    <2>1. /\ Proper(hot.cid, hot.recs, hot.size) /\ hot.recs \in SUBSET Rec /\ hot.size \in Int
          /\ hot.cid \in Nat /\ hot.cid <= MaxCid
          BY <1>4, WayFacts DEF PlaceInv
    <2>2. hot.cid # 0 /\ MaxCid \in Nat
          BY <1>1, ContainerAssumption DEF PlaceInv, PhaseFacts
    <2> QED BY <2>1, <2>2, ProperFacts DEF Cids
  <1>6. file[hot.cid].kind = "none" /\ file[hot.cid].recs = {}
        BY <1>5 DEF NameInv, NoFileYet, Unwritten, PlaceInv, HoldersProper
  <1>7. \A k \in Cids :
           /\ k # hot.cid => file'[k] = file[k]
           /\ file'[k] = file[k] \/ (file'[k].kind = "delta" /\ file'[k].recs = hot.recs /\ file'[k].size = hot.size)
           /\ k = hot.cid => file'[k].recs = hot.recs
    <2>1. HotFile.kind = "delta" /\ HotFile.recs = hot.recs /\ HotFile.size = hot.size
          BY DEF HotFile
    <2>2. CASE hot.size = 0
          BY <2>2, <1>1, <1>5, <1>6
    <2>3. CASE hot.size # 0
          BY <2>1, <2>3, <1>1, <1>4
    <2> QED BY <2>2, <2>3
  <1>8. HoldersProper'
    <2>1. ASSUME NEW k \in Cids
          PROVE  Proper(k, file'[k].recs, file'[k].size) /\ (file'[k].kind = "none" => file'[k].recs = {})
      <3>1. CASE file'[k] = file[k]
            BY <3>1 DEF PlaceInv, HoldersProper
      <3>2. CASE file'[k] # file[k]
            BY <3>2, <1>5, <1>7
      <3> QED BY <3>1, <3>2
    <2>2. EmptyContainer(0).cid <= MaxCid
          BY EmptyFields, ContainerAssumption
    <2>3. \A g \in OnTheWay' : /\ g.cid <= MaxCid /\ (g.cid = 0 => g.recs = {})
                               /\ Proper(g.cid, g.recs, g.size)
          BY <1>3, <2>2, EmptyFields, ProperEmpty
    <2> QED BY <2>1, <2>3, <1>1, <1>2 DEF HoldersProper
  <1>9. PhaseFacts'
        BY <1>1, <1>2 DEF PhaseFacts
  <1>10. Live' = Live
    <2>1. \A k \in Cids : Disk(k) = file[k].recs /\ Disk(k)' = file'[k].recs
      <3>1. \A k \in Cids : k # 0
            BY PlaceTypes
      <3> QED BY <3>1, <1>1, <1>2 DEF Disk
    <2>2. WayRecs = hot.recs /\ WayRecs' = {}
          BY <1>2, <1>3, EmptyFields DEF WayRecs
    <2>3. DiskRecs' = DiskRecs \cup hot.recs
          BY <2>1, <1>5, <1>6, <1>7 DEF DiskRecs
    <2> QED BY <2>2, <2>3 DEF Live
  <1>11. \A k \in Nat : Unused(k) => Unused(k)'
    <2>1. \A k \in Cids : file'[k].kind # "none" =>
            file[k].kind # "none" \/ k >= nextCid \/ \E g \in OnTheWay : g.cid = k
          BY <1>4, <1>7
    <2>2. \A g \in OnTheWay' : g.cid = 0
          BY <1>3, EmptyFields
    <2>3. nextCid <= nextCid'
          BY <1>1 DEF TypeOK, ContainerTypes
    <2> QED BY <2>1, <2>2, <2>3, UnusedKept
  <1>12. LiveCurrent' /\ LiveFound'
    <2>1. broken <= broken' /\ broken' \in Nat
          BY <1>1 DEF TypeOK, SessionTypes
    <2> QED BY <2>1, <1>1, <1>10, <1>11, LiveFrame DEF PlaceInv
  <1>13. BatchLive'
        BY <1>1, <1>10, BatchFrame DEF PlaceInv
  <1>14. ColdMarksExact'
    <2>1. ASSUME NEW k \in Cids, NEW q \in cold[k]
          PROVE  \E r \in file'[k].recs : q = <<r.pos, r.addr.len + Hdr>> /\ fpIndex'[r.fp].cid # k
      <3>1. PICK r \in file[k].recs : q = <<r.pos, r.addr.len + Hdr>> /\ fpIndex[r.fp].cid # k
            BY DEF PlaceInv, ColdMarksExact
      <3>2. file'[k] = file[k]
            BY <3>1, <1>6, <1>7
      <3> QED BY <3>1, <3>2, <1>1
    <2> QED BY <2>1, <1>1, <1>2 DEF ColdMarksExact
  <1> QED BY <1>1, <1>8, <1>9, <1>12, <1>13, <1>14 DEF PlaceInv, WalkInv, MergeInv

-----------------------------------------------------------------------------
(* Update_cold_container: a container is squeezed record by record.        *)

LEMMA BeginColdPlace ==
  ASSUME TypeOK, TypeOK', PlaceInv, NEW k \in Cids, BeginCold(k)
  PROVE  PlaceInv'
  <1> DEFINE buf == Load(file[k])
             F == file[k].recs
  <1>1. /\ phase = "cold" /\ phase' = "walk" /\ file[k].kind # "none"
        /\ UNCHANGED <<fpIndex, file, inBase, inDelta, hot, nextCid, queue, writing, batch, broken>>
        /\ cold' = [cold EXCEPT ![k] = {}]
        BY DEF BeginCold, indexVars, writerVars, enclaveVars, historyVars
  <1>2. /\ walk'.cid = k /\ walk'.buf = buf /\ walk'.size = file[k].size /\ walk'.rest = cold[k]
        /\ walk'.saveset = 0 /\ walk'.newset = 0 /\ walk'.coldset = 0 /\ walk'.recs = {}
        BY DEF BeginCold, NoWalk
  <1>3. /\ walk = NoWalk /\ walk.cid = 0 /\ walk.rest = {} /\ walk.recs = {} /\ \A t : ~InBatch(t)
        BY <1>1, OfflinePhase
  <1>4. /\ cold \in [Cids -> SUBSET (Int \X Int)] /\ ocall \in SUBSET Rec
        BY DEF TypeOK, OfflineTypes, ContainerTypes
  <1>5. /\ F \in SUBSET Rec /\ file[k].size \in Int /\ Proper(k, F, file[k].size)
        /\ \A j \in Cids : j \in Nat /\ j # 0
        BY PlaceTypes DEF PlaceInv, HoldersProper
  <1>6. /\ \A r \in F : r.pos \in Int /\ r.pos >= 0 /\ r.pos < file[k].size
        /\ Boundary(F, file[k].size, 0)
        BY <1>5, ProperFacts
  <1>7. \A j \in Cids : cold[j] = cold'[j] \cup (IF walk'.cid = j THEN walk'.rest ELSE {})
        BY <1>1, <1>2, <1>4
  <1>8. \A j \in Cids : Disk(j)' = Disk(j)
    <2>1. ASSUME NEW j \in Cids PROVE Disk(j) = file[j].recs
          BY <1>3, <1>5 DEF Disk
    <2>2. {r \in F : r.pos >= 0} = F
          BY <1>6
    <2>3. ASSUME NEW j \in Cids, j # k PROVE Disk(j)' = file[j].recs
          BY <2>3, <1>1, <1>2 DEF Disk
    <2>4. Disk(k)' = F
      <3>1. \A j : walk'.cid = j => Disk(j)' = walk'.recs \cup {r \in file'[j].recs : r.pos >= walk'.saveset}
            BY DEF Disk
      <3> QED BY <3>1, <2>2, <1>1, <1>2
    <2> QED BY <2>1, <2>3, <2>4
  <1>9. OnTheWay' = OnTheWay
        BY <1>1 DEF OnTheWay
  <1>10. Live' = Live
        BY <1>8, <1>9 DEF Live, DiskRecs, WayRecs
  <1>11. \A j : ColdOffsets(j)' = ColdOffsets(j)
    <2>1. ASSUME NEW j \in Cids PROVE ColdOffsets(j)' = ColdOffsets(j)
          BY <1>3, <1>5, <1>7 DEF ColdOffsets
    <2>2. ASSUME NEW j, j \notin Cids PROVE ColdOffsets(j)' = ColdOffsets(j)
          BY <2>2, <1>2, <1>3 DEF ColdOffsets
    <2> QED BY <2>1, <2>2
  <1>12. HoldersProper'
        BY <1>1, <1>9 DEF PlaceInv, HoldersProper
  <1>13. PhaseFacts'
        BY <1>1 DEF PlaceInv, PhaseFacts
  <1>14. LiveCurrent'
    <2>1. \A t \in Live : fpIndex[t.fp] = t.addr \/ Marked(t)
          BY <1>3 DEF PlaceInv, LiveCurrent
    <2>2. \A t : Marked(t)' = Marked(t)
          BY <1>11 DEF Marked
    <2> QED BY <2>1, <2>2, <1>1, <1>2, <1>10 DEF LiveCurrent
  <1>15. LiveFound'
        BY <1>1, <1>9, <1>10 DEF PlaceInv, LiveFound, Stored, Unused, Indexed
  <1>16. BatchLive'
        BY <1>1, <1>10, BatchFrame DEF PlaceInv
  <1>17. ColdMarksExact'
    <2>1. \A j \in Cids : \A q \in cold[j] :
             \E r \in file[j].recs : q = <<r.pos, r.addr.len + Hdr>> /\ fpIndex[r.fp].cid # j
          BY DEF PlaceInv, ColdMarksExact
    <2> QED BY <2>1, <1>1, <1>7 DEF ColdMarksExact
  <1>18. {r \in buf : r.pos < file[k].size} = F
    <2>1. \A r \in ocall : r.pos \in Int
          BY <1>4, RecFields
    <2> QED BY <2>1, <1>5, <1>6 DEF Load
  <1>19. \A q \in cold[k] : 0 <= q[1]
    <2>1. ASSUME NEW q \in cold[k] PROVE 0 <= q[1]
      <3>1. PICK r \in F : q = <<r.pos, r.addr.len + Hdr>>
            BY DEF PlaceInv, ColdMarksExact
      <3> QED BY <3>1, <1>6
    <2> QED BY <2>1
  <1>20. WalkInv'
    <2>1. cold'[k] = {} /\ Proper(k, {}, 0)
          BY <1>1, <1>4, ProperEmpty
    <2> QED BY <2>1, <1>1, <1>2, <1>6, <1>18, <1>19 DEF WalkInv
  <1> QED BY <1>1, <1>12, <1>13, <1>14, <1>15, <1>16, <1>17, <1>20 DEF PlaceInv, MergeInv

\* The copy of a record carries its own new place in its header.
Copied(r) == [r EXCEPT !.pos = walk.newset, !.addr = Lowered(r.addr)]

LEMMA CopiedFields ==
  ASSUME NEW r \in Rec, walk.newset \in Int, walk.coldset \in Int
  PROVE  /\ Copied(r) \in Rec /\ Copied(r).pos = walk.newset /\ Copied(r).fp = r.fp
         /\ Copied(r).addr = Lowered(r.addr) /\ Copied(r).addr.cid = r.addr.cid
         /\ Copied(r).addr.off = r.addr.off - walk.coldset /\ Copied(r).addr.len = r.addr.len
         /\ Copied(r).addr.base = r.addr.base /\ Copied(r).src = r.src
         /\ Lowered(r.addr) \in Addr
  <1>1. r.addr \in Addr /\ r.addr.off \in Int
        BY RecFields
  <1> DEFINE n == r.addr.off - walk.coldset
             a == [r.addr EXCEPT !.off = n]
             p == walk.newset
  <1>2. n \in Int
        BY <1>1
  <1> HIDE DEF n
  <1>3. a \in Addr /\ a.cid = r.addr.cid /\ a.off = n /\ a.len = r.addr.len /\ a.base = r.addr.base
        BY <1>1, <1>2 DEF Addr
  <1>4. Lowered(r.addr) = a
        BY DEF Lowered, n
  <1> HIDE DEF a
  <1>5. Copied(r) = [r EXCEPT !.pos = p, !.addr = a]
        BY <1>4 DEF Copied
  <1>6. DOMAIN r = {"pos", "fp", "addr", "src"} /\ p \in Int
        BY DEF Rec
  <1> HIDE DEF p
  <1>7. [r EXCEPT !.pos = p, !.addr = a] \in Rec
        BY <1>3, <1>6 DEF Rec
  <1>8. Copied(r).pos = p /\ Copied(r).addr = a /\ Copied(r).fp = r.fp /\ Copied(r).src = r.src
        BY <1>5, <1>6
  <1> QED BY <1>3, <1>4, <1>5, <1>7, <1>8 DEF n, p

\* Where the loop stands: what is behind it is copied, and the marks that
\* remain are records ahead.
LEMMA WalkFacts ==
  ASSUME TypeOK, PlaceInv, phase = "walk"
  PROVE  /\ walk.cid \in Cids /\ walk.cid \in Nat /\ walk.cid # 0
         /\ file[walk.cid].recs \in SUBSET Rec /\ file[walk.cid].size \in Int
         /\ Proper(walk.cid, file[walk.cid].recs, file[walk.cid].size)
         /\ walk.size = file[walk.cid].size
         /\ Proper(walk.cid, walk.recs, walk.newset)
         /\ \A t \in walk.recs : t.pos \in Int /\ t.pos < walk.newset /\ t.addr.off = t.pos
         /\ walk.newset <= walk.saveset
         /\ \A q \in walk.rest : \E t \in file[walk.cid].recs :
               q = <<t.pos, t.addr.len + Hdr>> /\ fpIndex[t.fp].cid # walk.cid
         /\ \A t : ~InBatch(t)
         /\ Disk(walk.cid) = walk.recs \cup {t \in file[walk.cid].recs : t.pos >= walk.saveset}
         /\ \A j \in Cids : j # walk.cid => Disk(j) = file[j].recs
         /\ ColdOffsets(walk.cid) = {q[1] : q \in walk.rest}
  <1>1. /\ walk.cid \in Cids /\ walk.size = file[walk.cid].size
        /\ Proper(walk.cid, walk.recs, walk.newset) /\ cold[walk.cid] = {}
        /\ walk.saveset = walk.newset + walk.coldset /\ walk.coldset >= 0
        BY DEF PlaceInv, WalkInv
  <1>2. /\ walk.cid \in Nat /\ walk.cid # 0 /\ walk.recs \in SUBSET Rec /\ walk.newset \in Int
        /\ walk.saveset \in Int /\ walk.coldset \in Int
        /\ file[walk.cid].recs \in SUBSET Rec /\ file[walk.cid].size \in Int
        BY <1>1, PlaceTypes
  <1>3. Proper(walk.cid, file[walk.cid].recs, file[walk.cid].size)
        BY <1>1 DEF PlaceInv, HoldersProper
  <1>4. \A t \in walk.recs : t.pos \in Int /\ t.pos < walk.newset /\ t.addr.off = t.pos
        BY <1>1, <1>2, ProperFacts
  <1>5. walk.newset <= walk.saveset
        BY <1>1, <1>2
  <1>6. \A q \in walk.rest : \E t \in file[walk.cid].recs :
               q = <<t.pos, t.addr.len + Hdr>> /\ fpIndex[t.fp].cid # walk.cid
        BY <1>1 DEF PlaceInv, ColdMarksExact
  <1>7. \A t : ~InBatch(t)
    <2>1. batch.done = <<>>
          BY DEF PlaceInv, PhaseFacts
    <2> QED BY <2>1 DEF InBatch
  <1>8. /\ Disk(walk.cid) = walk.recs \cup {t \in file[walk.cid].recs : t.pos >= walk.saveset}
        /\ \A j \in Cids : j # walk.cid => Disk(j) = file[j].recs
        BY DEF Disk
  <1>9. ColdOffsets(walk.cid) = {q[1] : q \in walk.rest}
        BY <1>1 DEF ColdOffsets
  <1> QED BY <1>1, <1>2, <1>3, <1>4, <1>5, <1>6, <1>7, <1>8, <1>9

\* What the walking steps leave alone.
WalkStill ==
    /\ phase = "walk" /\ phase' = "walk"
    /\ UNCHANGED <<file, inBase, inDelta, hot, nextCid, queue, writing, batch, broken, cold>>

LEMMA WalkStillPlace ==
  ASSUME PlaceInv, WalkStill
  PROVE  /\ HoldersProper' /\ PhaseFacts' /\ BatchLive' /\ MergeInv'
         /\ OnTheWay' = OnTheWay /\ WayRecs' = WayRecs
         /\ \A k : Unused(k)' = Unused(k)
  <1>1. OnTheWay' = OnTheWay
        BY DEF WalkStill, OnTheWay
  <1>2. HoldersProper'
        BY <1>1 DEF PlaceInv, HoldersProper, WalkStill
  <1>3. PhaseFacts'
        BY DEF PlaceInv, PhaseFacts, WalkStill
  <1>4. BatchLive'
    <2>1. Len(batch.done) = 0 /\ batch' = batch
          BY EmptySeq DEF PlaceInv, PhaseFacts, WalkStill
    <2>2. 1 .. Len(batch.done) = {}
          BY <2>1
    <2> QED BY <2>1, <2>2 DEF PlaceInv, BatchLive
  <1>5. MergeInv'
        BY DEF WalkStill, MergeInv
  <1>6. \A k : Unused(k)' = Unused(k)
        BY <1>1 DEF Unused, WalkStill
  <1> QED BY <1>1, <1>2, <1>3, <1>4, <1>5, <1>6 DEF WayRecs

\* The record at saveset is one of the file, and current.
LEMMA CopyAtRecord ==
  ASSUME TypeOK, PlaceInv, NEW r \in walk.buf, CopyRecord(r)
  PROVE  /\ r \in file[walk.cid].recs /\ r \in Rec /\ r \in Live /\ r.pos = walk.saveset
         /\ fpIndex[r.fp] = r.addr /\ r.addr.cid = walk.cid /\ r.addr.off = r.pos
         /\ r.pos + Hdr + r.addr.len <= walk.size
         /\ \A t \in file[walk.cid].recs : t # r => t.pos < r.pos \/ t.pos >= r.pos + Hdr + r.addr.len
         /\ \A q \in walk.rest : walk.saveset < q[1]
  <1> DEFINE F == file[walk.cid].recs
  <1>1. /\ phase = "walk" /\ r.pos = walk.saveset
        /\ walk.rest = {} => walk.saveset < walk.size
        /\ \A q \in walk.rest : walk.saveset < q[1]
        BY DEF CopyRecord
  <1>2. /\ walk.cid \in Cids /\ F \in SUBSET Rec /\ walk.size \in Int /\ Proper(walk.cid, F, walk.size)
        /\ \A q \in walk.rest : \E t \in F : q = <<t.pos, t.addr.len + Hdr>>
        /\ Disk(walk.cid) = walk.recs \cup {t \in F : t.pos >= walk.saveset}
        /\ ColdOffsets(walk.cid) = {q[1] : q \in walk.rest} /\ \A t : ~InBatch(t)
        BY <1>1, WalkFacts
  <1>3. /\ \A t \in F : t.pos \in Int /\ t.pos < walk.size /\ t.pos + Hdr + t.addr.len <= walk.size
                        /\ t.addr.cid = walk.cid /\ t.addr.off = t.pos
        /\ \A t, u \in F : t # u => u.pos < t.pos \/ u.pos >= t.pos + Hdr + t.addr.len
        BY <1>2, ProperFacts
  <1>4. walk.saveset \in Int
        BY PlaceTypes
  <1>5. walk.saveset < walk.size
    <2>1. CASE walk.rest = {}
          BY <2>1, <1>1
    <2>2. CASE walk.rest # {}
      <3>1. PICK q \in walk.rest : TRUE
            BY <2>2
      <3>2. PICK t \in F : q = <<t.pos, t.addr.len + Hdr>>
            BY <1>2
      <3>3. q[1] = t.pos /\ walk.saveset < q[1]
            BY <3>2, <1>1
      <3> QED BY <3>3, <1>2, <1>3, <1>4
    <2> QED BY <2>1, <2>2
  <1>6. r \in F
    <2>1. F = {t \in walk.buf : t.pos < walk.size}
          BY <1>1 DEF PlaceInv, WalkInv
    <2> QED BY <2>1, <1>1, <1>5
  <1>7. r \in Live
    <2>1. r \in Disk(walk.cid)
          BY <1>1, <1>2, <1>4, <1>6
    <2> QED BY <2>1, <1>2 DEF Live, DiskRecs
  <1>8. ~Marked(r)
    <2>1. r.addr.cid = walk.cid
          BY <1>3, <1>6
    <2>2. walk.saveset \notin {q[1] : q \in walk.rest}
          BY <1>1, <1>4
    <2> QED BY <2>1, <2>2, <1>1, <1>2 DEF Marked
  <1>9. fpIndex[r.fp] = r.addr
        BY <1>2, <1>7, <1>8 DEF PlaceInv, LiveCurrent
  <1> QED BY <1>1, <1>2, <1>3, <1>6, <1>7, <1>9

\* The record moves down and takes its index entry along.
LEMMA CopyRecordPlace ==
  ASSUME TypeOK, TypeOK', NameInv, PlaceInv, NEW r \in walk.buf, CopyRecord(r)
  PROVE  PlaceInv'
  <1> DEFINE n == Copied(r)
             k == walk.cid
             F == file[walk.cid].recs
             end == walk.saveset + Hdr + r.addr.len
  <1>1. /\ r \in F /\ r \in Rec /\ r \in Live /\ r.pos = walk.saveset
        /\ fpIndex[r.fp] = r.addr /\ r.addr.cid = k /\ r.addr.off = r.pos
        /\ end <= walk.size
        /\ \A t \in F : t # r => t.pos < walk.saveset \/ t.pos >= end
        /\ \A q \in walk.rest : walk.saveset < q[1]
        BY CopyAtRecord
  <1>2. WalkStill
        BY DEF CopyRecord, WalkStill, writerVars, enclaveVars, historyVars
  <1>3. /\ walk' = [walk EXCEPT !.recs = @ \cup {n}, !.saveset = @ + Hdr + r.addr.len,
                                !.newset = @ + Hdr + r.addr.len]
        /\ fpIndex' = [fpIndex EXCEPT ![r.fp] = Lowered(r.addr)]
        BY DEF CopyRecord, Copied
  <1>4. /\ walk \in Walk /\ walk.newset \in Int /\ walk.coldset \in Int /\ walk.saveset \in Int
        /\ walk.size \in Int /\ walk.recs \in SUBSET Rec /\ fpIndex \in [Chunks -> Addr]
        BY PlaceTypes DEF TypeOK, IndexTypes
  <1>5. /\ walk'.cid = k /\ walk'.buf = walk.buf /\ walk'.size = walk.size /\ walk'.rest = walk.rest
        /\ walk'.saveset = end /\ walk'.newset = walk.newset + Hdr + r.addr.len
        /\ walk'.coldset = walk.coldset /\ walk'.recs = walk.recs \cup {n}
        BY <1>3, <1>4 DEF Walk
  <1>6. /\ n \in Rec /\ n.pos = walk.newset /\ n.fp = r.fp /\ n.addr = Lowered(r.addr)
        /\ n.addr.cid = k /\ n.addr.off = r.addr.off - walk.coldset /\ n.addr.len = r.addr.len
        BY <1>1, <1>4, CopiedFields
  <1>7. r.fp \in Chunks /\ r.addr.len \in Nat /\ Hdr \in Nat /\ Hdr > 0 /\ end \in Int
        BY <1>1, <1>4, RecFields, HdrPositive
  <1>8. \A x \in Chunks : fpIndex'[x] = IF x = r.fp THEN n.addr ELSE fpIndex[x]
        BY <1>3, <1>4, <1>6
  <1>9. /\ phase = "walk" /\ k \in Cids /\ F \in SUBSET Rec /\ Proper(k, F, walk.size)
        /\ Proper(k, walk.recs, walk.newset)
        /\ \A t \in walk.recs : t.pos \in Int /\ t.pos < walk.newset /\ t.addr.off = t.pos
        /\ walk.newset <= walk.saveset
        /\ \A q \in walk.rest : \E t \in F : q = <<t.pos, t.addr.len + Hdr>> /\ fpIndex[t.fp].cid # k
        /\ \A t : ~InBatch(t)
        /\ Disk(k) = walk.recs \cup {t \in F : t.pos >= walk.saveset}
        /\ \A j \in Cids : j # k => Disk(j) = file[j].recs
        BY <1>2, WalkFacts DEF WalkStill
  <1>10. \A t \in F : t.pos \in Int /\ t \in Rec
        BY <1>9, RecFields
  <1> HIDE DEF n, end
  \* The records that are stored: r is replaced by its copy.
  <1>11. r \notin walk.recs
        BY <1>1, <1>4, <1>9
  <1>12. \A j \in Cids : Disk(j)' = IF j = k THEN (Disk(k) \ {r}) \cup {n} ELSE Disk(j)
    <2>1. \A j \in Cids : j # k => Disk(j)' = Disk(j)
          BY <1>2, <1>5, <1>9 DEF Disk, WalkStill
    <2>2. \A j : j = k => Disk(j)' = walk.recs \cup {n} \cup {t \in F : t.pos >= end}
          BY <1>2, <1>5 DEF Disk, WalkStill
    <2>3. {t \in F : t.pos >= end} = {t \in F : t.pos >= walk.saveset} \ {r}
      <3>1. ASSUME NEW t \in F
            PROVE  t.pos >= end <=> (t.pos >= walk.saveset /\ t # r)
        <4>1. CASE t = r
              BY <4>1, <1>1, <1>4, <1>7 DEF end
        <4>2. CASE t # r
              BY <4>2, <1>1, <1>4, <1>7, <1>10 DEF end
        <4> QED BY <4>1, <4>2
      <3> QED BY <3>1
    <2> QED BY <2>1, <2>2, <2>3, <1>9, <1>11
  <1>13. OnTheWay' = OnTheWay /\ WayRecs' = WayRecs /\ \A j : Unused(j)' = Unused(j)
        BY <1>2, WalkStillPlace
  <1>14. n \in Live' /\ \A t \in Live : t = r \/ t \in Live'
        BY <1>9, <1>12, <1>13 DEF Live, DiskRecs
  <1>15. \A t \in Live' : t = n \/ (t \in Live /\ t # r)
    <2>1. ASSUME NEW t \in Live', t # n PROVE t \in Live /\ t # r
      <3>1. CASE t \in WayRecs
        <4>1. PICK g \in OnTheWay : t \in g.recs
              BY <3>1 DEF WayRecs
        <4>2. g.cid # k
          <5>1. r \in Disk(k)
                BY <1>1, <1>4, <1>9
          <5> QED BY <5>1, <1>9, DiskNotOnTheWay DEF PlaceInv
        <4>3. t.addr.cid = g.cid
              BY <4>1, WayFacts DEF PlaceInv
        <4> QED BY <3>1, <4>2, <4>3, <1>1 DEF Live
      <3>2. CASE \E j \in Cids : t \in Disk(j)'
        <4>1. PICK j \in Cids : t \in Disk(j)'
              BY <3>2
        <4>2. t \in Disk(j) /\ (j = k => t # r)
              BY <2>1, <4>1, <1>12
        <4>3. t.addr.cid = j
              BY <4>2, DiskFacts DEF PlaceInv
        <4> QED BY <4>2, <4>3, <1>1 DEF Live, DiskRecs
      <3> QED BY <2>1, <3>1, <3>2, <1>13 DEF Live, DiskRecs
    <2> QED BY <2>1
  <1>16. LiveCurrent'
    <2>1. ASSUME NEW t \in Live'
          PROVE  fpIndex'[t.fp] = t.addr \/ InBatch(t)' \/ (Marked(t)' /\ t \notin walk'.recs)
      <3>1. CASE t = n
            BY <3>1, <1>6, <1>7, <1>8
      <3>2. CASE t \in Live /\ t # r /\ t # n
        <4>1. t \in Rec /\ t.fp \in Chunks /\ t.addr.off = t.pos
              BY <3>2, LiveFacts DEF PlaceInv
        <4>2. CASE fpIndex[t.fp] = t.addr
          <5>1. t.fp # r.fp
            <6>1. SUFFICES ASSUME t.fp = r.fp PROVE t = r
                  BY <3>2
            <6>2. t.addr = r.addr /\ t.pos = r.pos
                  BY <4>1, <4>2, <6>1, <1>1
            <6> QED BY <6>2, <3>2, <1>1, LiveUnique DEF PlaceInv
          <5> QED BY <4>1, <4>2, <5>1, <1>8
        <4>3. CASE Marked(t) /\ t \notin walk.recs
          <5>1. Marked(t)'
                BY <4>3, <1>2, <1>5 DEF Marked, ColdOffsets, WalkStill
          <5> QED BY <5>1, <4>3, <3>2, <1>5
        <4> QED BY <3>2, <4>2, <4>3, <1>9 DEF PlaceInv, LiveCurrent
      <3> QED BY <3>1, <3>2, <1>15
    <2> QED BY <2>1 DEF LiveCurrent
  <1>17. LiveFound'
    <2>1. ASSUME NEW x \in Chunks, Indexed(x)'
          PROVE  (\E t \in Live' : t.fp = x /\ t.addr = fpIndex'[x]) \/ (broken' > 0 /\ Unused(fpIndex[x].cid)')
      <3>1. CASE x = r.fp
            BY <3>1, <1>6, <1>8, <1>14
      <3>2. CASE x # r.fp
        <4>1. fpIndex'[x] = fpIndex[x] /\ Indexed(x)
              BY <3>2, <2>1, <1>8 DEF Indexed
        <4>2. CASE Stored(x, fpIndex[x])
              BY <3>2, <4>1, <4>2, <1>14 DEF Stored
        <4>3. CASE broken > 0 /\ Unused(fpIndex[x].cid)
          <5>1. Unused(fpIndex[x].cid)' = Unused(fpIndex[x].cid)
                BY <4>1, <1>2, <1>13 DEF Unused, WalkStill
          <5> QED BY <4>3, <5>1, <1>2 DEF WalkStill
        <4> QED BY <4>1, <4>2, <4>3 DEF PlaceInv, LiveFound
      <3> QED BY <3>1, <3>2
    <2> QED BY <2>1 DEF LiveFound, Stored
  <1>18. ColdMarksExact'
    <2>1. \A x \in Chunks : fpIndex'[x].cid = fpIndex[x].cid
          BY <1>1, <1>6, <1>8
    <2>2. ASSUME NEW j \in Cids, NEW q \in cold[j] \cup (IF walk.cid = j THEN walk.rest ELSE {})
          PROVE  \E t \in file[j].recs : q = <<t.pos, t.addr.len + Hdr>> /\ fpIndex'[t.fp].cid # j
      <3>1. PICK t \in file[j].recs : q = <<t.pos, t.addr.len + Hdr>> /\ fpIndex[t.fp].cid # j
            BY DEF PlaceInv, ColdMarksExact
      <3>2. t.fp \in Chunks
            BY PlaceTypes, RecFields
      <3> QED BY <3>1, <3>2, <2>1
    <2> QED BY <2>2, <1>2, <1>5 DEF ColdMarksExact, WalkStill
  <1>19. Proper(k, walk'.recs, walk'.newset)
    <2>1. walk.coldset >= 0 /\ walk.saveset = walk.newset + walk.coldset
          BY <1>9 DEF PlaceInv, WalkInv
    <2>2. walk.size < MaxContainer
          BY <1>4, <1>9, ProperFacts
    <2>3. n.addr.off = walk.newset
          BY <2>1, <1>1, <1>4, <1>6
    <2>4. walk.newset + Hdr + n.addr.len < MaxContainer
          BY <2>1, <2>2, <1>1, <1>4, <1>6, <1>7, HdrPositive DEF end
    <2>5. Proper(k, walk.recs \cup {n}, walk.newset + Hdr + n.addr.len)
          BY <2>3, <2>4, <1>4, <1>6, <1>9, ProperAppend
    <2> QED BY <2>5, <1>5, <1>6
  <1>20. \A t \in walk'.recs : fpIndex'[t.fp] = t.addr
    <2>1. ASSUME NEW t \in walk.recs PROVE fpIndex'[t.fp] = t.addr
      <3>1. fpIndex[t.fp] = t.addr /\ t.fp \in Chunks
            BY <1>4, <1>9, RecFields DEF PlaceInv, WalkInv
      <3>2. t.fp # r.fp
        <4>1. SUFFICES ASSUME t.fp = r.fp PROVE FALSE
              OBVIOUS
        <4>2. t.pos = walk.saveset /\ t.pos \in Int /\ t.pos < walk.newset /\ walk.newset <= walk.saveset
              BY <3>1, <4>1, <1>1, <1>9
        <4> QED BY <4>2, <1>4
      <3> QED BY <3>1, <3>2, <1>8
    <2> QED BY <2>1, <1>5, <1>6, <1>7, <1>8
  <1>21. \A q \in walk.rest : end <= q[1]
    <2>1. ASSUME NEW q \in walk.rest PROVE end <= q[1]
      <3>1. PICK t \in F : q = <<t.pos, t.addr.len + Hdr>>
            BY <1>9
      <3>2. q[1] = t.pos /\ walk.saveset < t.pos /\ t.pos \in Int
            BY <3>1, <1>1, <1>10
      <3>3. t # r
            BY <3>2, <1>1, <1>4
      <3> QED BY <3>2, <3>3, <1>1, <1>4, <1>7
    <2> QED BY <2>1
  <1>22. Boundary(F, walk.size, end)
        BY <1>1, <1>4, <1>9, ProperFacts DEF end
  <1>23. WalkInv'
    <2>1. /\ file[k].kind # "none" /\ cold[k] = {} /\ walk.size = file[k].size
          /\ {t \in walk.buf : t.pos < walk.size} = F
          /\ walk.saveset = walk.newset + walk.coldset /\ walk.coldset >= 0
          BY <1>9 DEF PlaceInv, WalkInv
    <2>2. end = walk'.newset + walk.coldset
          BY <2>1, <1>4, <1>5, <1>7 DEF end
    <2>3. UNCHANGED <<file, cold>> /\ phase' = "walk"
          BY <1>2 DEF WalkStill
    <2> QED BY <2>1, <2>2, <2>3, <1>5, <1>9, <1>19, <1>20, <1>21, <1>22 DEF WalkInv
  <1> QED BY <1>2, <1>16, <1>17, <1>18, <1>23, WalkStillPlace DEF PlaceInv

\* The record at a mark is passed over: its chunk lives elsewhere.
LEMMA DropRecordPlace ==
  ASSUME TypeOK, TypeOK', NameInv, PlaceInv, NEW q \in walk.rest, DropRecord(q)
  PROVE  PlaceInv'
  <1> DEFINE k == walk.cid
             F == file[walk.cid].recs
             end == walk.saveset + q[2]
  <1>1. WalkStill /\ fpIndex' = fpIndex
        BY DEF DropRecord, WalkStill, writerVars, enclaveVars, historyVars, indexVars
  <1>2. /\ walk' = [walk EXCEPT !.rest = @ \ {q}, !.coldset = @ + q[2], !.saveset = @ + q[2]]
        /\ walk.saveset >= q[1]
        BY DEF DropRecord
  <1>3. /\ walk \in Walk /\ walk.newset \in Int /\ walk.coldset \in Int /\ walk.saveset \in Int
        /\ walk.size \in Int /\ walk.recs \in SUBSET Rec /\ walk.rest \in SUBSET (Int \X Int)
        BY PlaceTypes
  <1>4. /\ walk'.cid = k /\ walk'.buf = walk.buf /\ walk'.size = walk.size /\ walk'.rest = walk.rest \ {q}
        /\ walk'.saveset = end /\ walk'.newset = walk.newset
        /\ walk'.coldset = walk.coldset + q[2] /\ walk'.recs = walk.recs
        BY <1>2, <1>3 DEF Walk
  <1>5. /\ phase = "walk" /\ k \in Cids /\ F \in SUBSET Rec /\ Proper(k, F, walk.size)
        /\ \A t \in walk.recs : t.pos \in Int /\ t.pos < walk.newset /\ t.addr.off = t.pos
        /\ walk.newset <= walk.saveset
        /\ \A s \in walk.rest : \E t \in F : s = <<t.pos, t.addr.len + Hdr>> /\ fpIndex[t.fp].cid # k
        /\ \A t : ~InBatch(t)
        /\ Disk(k) = walk.recs \cup {t \in F : t.pos >= walk.saveset}
        /\ \A j \in Cids : j # k => Disk(j) = file[j].recs
        /\ ColdOffsets(k) = {s[1] : s \in walk.rest}
        BY <1>1, WalkFacts DEF WalkStill
  <1>6. /\ \A s \in walk.rest : walk.saveset <= s[1]
        /\ file[k].kind # "none" /\ cold[k] = {} /\ walk.size = file[k].size
        /\ {t \in walk.buf : t.pos < walk.size} = F
        /\ walk.saveset = walk.newset + walk.coldset /\ walk.coldset >= 0
        /\ Proper(k, walk.recs, walk.newset)
        /\ \A t \in walk.recs : fpIndex[t.fp] = t.addr
        BY <1>5 DEF PlaceInv, WalkInv
  <1>7. PICK r \in F : q = <<r.pos, r.addr.len + Hdr>> /\ fpIndex[r.fp].cid # k
        BY <1>5
  <1>8. /\ \A t \in F : t.pos \in Int /\ t.addr.len \in Nat /\ t.addr.cid = k
        /\ \A t, u \in F : t # u => u.pos < t.pos \/ u.pos >= t.pos + Hdr + t.addr.len
        /\ Boundary(F, walk.size, r.pos + Hdr + r.addr.len)
        BY <1>3, <1>5, <1>7, ProperFacts
  <1>9. r.pos = walk.saveset /\ q[1] = r.pos /\ q[2] = r.addr.len + Hdr
        BY <1>2, <1>3, <1>6, <1>7, <1>8
  <1>10. Hdr \in Nat /\ Hdr > 0 /\ end \in Int /\ end = r.pos + Hdr + r.addr.len /\ q[2] \in Int /\ q[2] >= 0
        BY <1>3, <1>7, <1>8, <1>9, HdrPositive
  <1> HIDE DEF end
  <1>11. \A j \in Cids : Disk(j)' = IF j = k THEN Disk(k) \ {r} ELSE Disk(j)
    <2>1. \A j \in Cids : j # k => Disk(j)' = Disk(j)
          BY <1>1, <1>4, <1>5 DEF Disk, WalkStill
    <2>2. \A j : j = k => Disk(j)' = walk.recs \cup {t \in F : t.pos >= end}
          BY <1>1, <1>4 DEF Disk, WalkStill
    <2>3. {t \in F : t.pos >= end} = {t \in F : t.pos >= walk.saveset} \ {r}
      <3>1. ASSUME NEW t \in F
            PROVE  t.pos >= end <=> (t.pos >= walk.saveset /\ t # r)
        <4>1. CASE t = r
              BY <4>1, <1>3, <1>8, <1>9, <1>10
        <4>2. CASE t # r
          <5>1. t.pos < r.pos \/ t.pos >= end
                BY <4>2, <1>8, <1>10
          <5> QED BY <4>2, <5>1, <1>3, <1>8, <1>9, <1>10
        <4> QED BY <4>1, <4>2
      <3> QED BY <3>1
    <2>4. r \notin walk.recs
          BY <1>3, <1>5, <1>9
    <2> QED BY <2>1, <2>2, <2>3, <2>4, <1>5
  <1>12. OnTheWay' = OnTheWay /\ WayRecs' = WayRecs /\ \A j : Unused(j)' = Unused(j)
        BY <1>1, WalkStillPlace
  <1>13. \A t \in Live : t = r \/ t \in Live'
        BY <1>11, <1>12 DEF Live, DiskRecs
  <1>14. r \in Live
    <2>1. r \in Disk(k)
          BY <1>3, <1>5, <1>9
    <2> QED BY <2>1, <1>5 DEF Live, DiskRecs
  <1>15. \A t \in Live' : t \in Live /\ t # r
    <2>1. ASSUME NEW t \in Live' PROVE t \in Live /\ t # r
      <3>1. CASE t \in WayRecs
        <4>1. PICK g \in OnTheWay : t \in g.recs
              BY <3>1 DEF WayRecs
        <4>2. g.cid # k
          <5>1. r \in Disk(k)
                BY <1>3, <1>5, <1>9
          <5> QED BY <5>1, <1>5, DiskNotOnTheWay DEF PlaceInv
        <4>3. t.addr.cid = g.cid
              BY <4>1, WayFacts DEF PlaceInv
        <4> QED BY <3>1, <4>2, <4>3, <1>8 DEF Live
      <3>2. CASE \E j \in Cids : t \in Disk(j)'
        <4>1. PICK j \in Cids : t \in Disk(j)'
              BY <3>2
        <4>2. t \in Disk(j) /\ (j = k => t # r)
              BY <4>1, <1>11
        <4>3. t.addr.cid = j
              BY <4>2, DiskFacts DEF PlaceInv
        <4> QED BY <4>2, <4>3, <1>8 DEF Live, DiskRecs
      <3> QED BY <2>1, <3>1, <3>2, <1>12 DEF Live, DiskRecs
    <2> QED BY <2>1
  <1>16. LiveCurrent'
    <2>1. ASSUME NEW t \in Live'
          PROVE  fpIndex'[t.fp] = t.addr \/ InBatch(t)' \/ (Marked(t)' /\ t \notin walk'.recs)
      <3>1. t \in Live /\ t # r
            BY <1>15
      <3>2. CASE fpIndex[t.fp] = t.addr
            BY <3>2, <1>1
      <3>3. CASE Marked(t) /\ t \notin walk.recs
        <4>1. CASE t.addr.cid # k
          <5>1. Marked(t)'
                BY <4>1, <3>3, <1>1, <1>4 DEF Marked, ColdOffsets, WalkStill
          <5> QED BY <5>1, <3>3, <1>4
        <4>2. CASE t.addr.cid = k
          <5>1. PICK s \in walk.rest : t.pos = s[1]
                BY <4>2, <3>3, <1>5 DEF Marked
          <5>2. t.pos # r.pos
                BY <3>1, <4>2, <1>8, <1>14, LiveUnique DEF PlaceInv
          <5>3. s \in walk'.rest
                BY <5>1, <5>2, <1>4, <1>9
          <5>4. \A j : walk'.cid = j => \A u \in walk'.rest : u[1] \in ColdOffsets(j)'
                BY DEF ColdOffsets
          <5>5. t.pos \in ColdOffsets(t.addr.cid)'
                BY <4>2, <5>1, <5>3, <5>4, <1>4
          <5> QED BY <5>5, <3>3, <1>4 DEF Marked
        <4> QED BY <4>1, <4>2
      <3> QED BY <3>1, <3>2, <3>3, <1>5 DEF PlaceInv, LiveCurrent
    <2> QED BY <2>1 DEF LiveCurrent
  <1>17. LiveFound'
    <2>1. ASSUME NEW x \in Chunks, Indexed(x)'
          PROVE  (\E t \in Live' : t.fp = x /\ t.addr = fpIndex'[x]) \/ (broken' > 0 /\ Unused(fpIndex[x].cid)')
      <3>1. Indexed(x)
            BY <2>1, <1>1 DEF Indexed
      <3>2. CASE Stored(x, fpIndex[x])
        <4>1. PICK t \in Live : t.fp = x /\ t.addr = fpIndex[x]
              BY <3>2 DEF Stored
        <4>2. t # r
              BY <4>1, <1>7, <1>8
        <4> QED BY <4>1, <4>2, <1>1, <1>13
      <3>3. CASE broken > 0 /\ Unused(fpIndex[x].cid)
        <4>1. Unused(fpIndex[x].cid)' = Unused(fpIndex[x].cid)
              BY <1>1, <1>12 DEF Unused, WalkStill
        <4> QED BY <3>3, <4>1, <1>1 DEF WalkStill
      <3> QED BY <3>1, <3>2, <3>3 DEF PlaceInv, LiveFound
    <2> QED BY <2>1 DEF LiveFound, Stored
  <1>18. ColdMarksExact'
    <2>1. \A j \in Cids : cold'[j] \cup (IF walk'.cid = j THEN walk'.rest ELSE {})
                            \subseteq cold[j] \cup (IF walk.cid = j THEN walk.rest ELSE {})
          BY <1>1, <1>4 DEF WalkStill
    <2>2. UNCHANGED <<fpIndex, file>>
          BY <1>1 DEF WalkStill
    <2> QED BY <2>1, <2>2 DEF PlaceInv, ColdMarksExact
  <1>19. \A s \in walk'.rest : end <= s[1]
    <2>1. ASSUME NEW s \in walk.rest, s # q PROVE end <= s[1]
      <3>1. PICK t \in F : s = <<t.pos, t.addr.len + Hdr>>
            BY <1>5
      <3>2. t # r /\ s[1] = t.pos
            BY <2>1, <3>1, <1>7
      <3>3. t.pos < r.pos \/ t.pos >= end
            BY <3>2, <1>8, <1>10
      <3> QED BY <3>2, <3>3, <1>3, <1>6, <1>8, <1>9, <1>10
    <2> QED BY <2>1, <1>4
  <1>20. WalkInv'
    <2>1. end = walk.newset + (walk.coldset + q[2]) /\ walk.coldset + q[2] >= 0
          BY <1>3, <1>6, <1>9, <1>10 DEF end
    <2>2. Boundary(F, walk.size, end)
          BY <1>8, <1>10
    <2>3. UNCHANGED <<file, cold, fpIndex>> /\ phase' = "walk"
          BY <1>1 DEF WalkStill
    <2> QED BY <2>1, <2>2, <2>3, <1>4, <1>5, <1>6, <1>19 DEF WalkInv
  <1> QED BY <1>1, <1>16, <1>17, <1>18, <1>20, WalkStillPlace DEF PlaceInv

\* The loop has reached the end: the copy replaces the file.
LEMMA EndColdPlace ==
  ASSUME TypeOK, TypeOK', PlaceInv, EndCold
  PROVE  PlaceInv'
  <1> DEFINE k == walk.cid
             F == file[walk.cid].recs
  <1>1. /\ phase = "walk" /\ phase' = "cold" /\ walk' = NoWalk /\ walk.rest = {} /\ walk.saveset >= walk.size
        /\ file' = [file EXCEPT ![k].recs = walk.recs, ![k].size = walk.size - walk.coldset]
        /\ UNCHANGED <<fpIndex, inBase, inDelta, hot, nextCid, queue, writing, batch, broken, cold>>
        BY DEF EndCold, indexVars, writerVars, enclaveVars, historyVars
  <1>2. /\ k \in Cids /\ F \in SUBSET Rec /\ Proper(k, F, walk.size) /\ Proper(k, walk.recs, walk.newset)
        /\ \A t : ~InBatch(t)
        /\ Disk(k) = walk.recs \cup {t \in F : t.pos >= walk.saveset}
        /\ \A j \in Cids : j # k => Disk(j) = file[j].recs
        /\ ColdOffsets(k) = {q[1] : q \in walk.rest}
        BY <1>1, WalkFacts
  <1>3. /\ file[k].kind # "none" /\ cold[k] = {} /\ walk.saveset = walk.newset + walk.coldset
        /\ Boundary(F, walk.size, walk.saveset)
        BY <1>1 DEF PlaceInv, WalkInv
  <1>4. /\ walk.size \in Int /\ walk.saveset \in Int /\ walk.newset \in Int /\ walk.coldset \in Int
        /\ file \in [Cids -> File]
        BY PlaceTypes DEF TypeOK, ContainerTypes
  <1>5. \A t \in F : t.pos \in Int /\ t.pos < walk.size
        BY <1>2, <1>4, ProperFacts
  <1>6. walk.saveset = walk.size
        BY <1>1, <1>3, <1>4, <1>5 DEF Boundary
  <1>7. walk.newset = walk.size - walk.coldset
        BY <1>3, <1>4, <1>6
  <1>8. /\ \A j \in Cids : j # k => file'[j] = file[j]
        /\ file'[k].recs = walk.recs /\ file'[k].size = walk.newset /\ file'[k].kind = file[k].kind
    <2>1. \A j \in Cids : j # k => file'[j] = file[j]
          BY <1>1, <1>4
    <2>2. file'[k] = [file[k] EXCEPT !.recs = walk.recs, !.size = walk.newset]
          BY <1>1, <1>2, <1>4, <1>7
    <2>3. file[k] \in File
          BY <1>2, <1>4
    <2> QED BY <2>1, <2>2, <2>3 DEF File
  <1>9. OnTheWay' = OnTheWay
        BY <1>1 DEF OnTheWay
  <1>10. \A j \in Cids : Disk(j)' = Disk(j)
    <2>1. walk'.cid = 0 /\ \A j \in Cids : j # 0
          BY <1>1, PlaceTypes DEF NoWalk
    <2>2. \A j \in Cids : Disk(j)' = file'[j].recs
          BY <2>1 DEF Disk
    <2>3. {t \in F : t.pos >= walk.saveset} = {}
          BY <1>4, <1>5, <1>6
    <2> QED BY <2>2, <2>3, <1>2, <1>8
  <1>11. Live' = Live
        BY <1>9, <1>10 DEF Live, DiskRecs, WayRecs
  <1>12. HoldersProper'
    <2>1. \A j \in Cids : /\ Proper(j, file'[j].recs, file'[j].size)
                          /\ file'[j].kind = "none" => file'[j].recs = {}
          BY <1>2, <1>3, <1>8 DEF PlaceInv, HoldersProper
    <2>2. Len(writing') = 0
          BY <1>1, EmptySeq DEF PlaceInv, PhaseFacts
    <2>3. 1 .. Len(writing') = {}
          BY <2>2
    <2> QED BY <2>1, <2>3, <1>9 DEF PlaceInv, HoldersProper
  <1>13. PhaseFacts'
        BY <1>1 DEF PlaceInv, PhaseFacts
  <1>14. LiveCurrent'
    <2>1. ASSUME NEW t \in Live
          PROVE  fpIndex'[t.fp] = t.addr \/ InBatch(t)' \/ (Marked(t)' /\ t \notin walk'.recs)
      <3>1. CASE fpIndex[t.fp] = t.addr
            BY <3>1, <1>1
      <3>2. CASE Marked(t)
        <4>1. t.addr.cid # k
              BY <3>2, <1>1, <1>2 DEF Marked
        <4>2. Marked(t)'
              BY <3>2, <4>1, <1>1 DEF Marked, ColdOffsets
        <4>3. walk'.recs = {}
              BY <1>1 DEF NoWalk
        <4> QED BY <4>2, <4>3
      <3> QED BY <3>1, <3>2, <1>2 DEF PlaceInv, LiveCurrent
    <2> QED BY <2>1, <1>11 DEF LiveCurrent
  <1>15. LiveFound'
    <2>1. \A j \in Cids : file'[j].kind = file[j].kind
          BY <1>8
    <2> QED BY <2>1, <1>1, <1>9, <1>11 DEF PlaceInv, LiveFound, Stored, Unused, Indexed
  <1>16. BatchLive'
        BY <1>1, <1>11, BatchFrame DEF PlaceInv
  <1>17. ColdMarksExact'
    <2>1. ASSUME NEW j \in Cids, NEW q \in cold[j]
          PROVE  \E t \in file'[j].recs : q = <<t.pos, t.addr.len + Hdr>> /\ fpIndex'[t.fp].cid # j
      <3>1. j # k
            BY <1>3
      <3>2. PICK t \in file[j].recs : q = <<t.pos, t.addr.len + Hdr>> /\ fpIndex[t.fp].cid # j
            BY DEF PlaceInv, ColdMarksExact
      <3> QED BY <3>1, <3>2, <1>1, <1>8
    <2>2. walk'.rest = {}
          BY <1>1 DEF NoWalk
    <2> QED BY <2>1, <2>2, <1>1 DEF ColdMarksExact
  <1> QED BY <1>1, <1>12, <1>13, <1>14, <1>15, <1>16, <1>17 DEF PlaceInv, WalkInv, MergeInv

-----------------------------------------------------------------------------
(* MergeContainer: the pairs are disjoint, and merging loses nothing.      *)

LEMMA NeighbourFacts ==
  ASSUME NEW q \in Neighbours
  PROVE  /\ q = <<q[1], q[2]>> /\ q[1] \in BaseCids /\ q[2] \in BaseCids
         /\ q[1] \in Nat /\ q[2] \in Nat /\ q[1] < q[2]
         /\ \A k \in BaseCids : k \in Nat /\ (k <= q[1] \/ k >= q[2])
  BY ContainerAssumption DEF Neighbours, BaseCids, Cids

\* A base container that is not the first has a neighbour before it.
LEMMA NeighbourBefore ==
  ASSUME NEW k \in BaseCids, NEW j \in BaseCids, j < k
  PROVE  \E t \in Neighbours : t[2] = k /\ j <= t[1]
  <1> DEFINE S == {b \in BaseCids : b < k}
             m == Max(S)
  <1>1. S \in SUBSET (1 .. MaxCid) /\ S # {} /\ MaxCid \in Nat /\ j \in S
        BY ContainerAssumption DEF BaseCids, Cids
  <1>2. m \in S /\ \A y \in S : m >= y
        BY <1>1, MaxIn
  <1> HIDE DEF m
  <1>3. \A b \in BaseCids : b \in Nat
        BY ContainerAssumption DEF BaseCids, Cids
  <1>4. m \in BaseCids /\ m < k /\ j <= m
        BY <1>1, <1>2, <1>3
  <1>5. \A b \in BaseCids : b <= m \/ b >= k
        BY <1>2, <1>3, <1>4
  <1>6. <<m, k>> \in Neighbours
        BY <1>4, <1>5 DEF Neighbours
  <1> QED BY <1>4, <1>6

\* The run of small pairs that begins at k and ends with q.
Run(k, q) == {t \in Neighbours : k <= t[1] /\ t[2] <= q[2]}

LEMMA RunFinite ==
  ASSUME NEW k, NEW q
  PROVE  IsFiniteSet(Run(k, q)) /\ Cardinality(Run(k, q)) \in Nat
  <1>1. IsFiniteSet(Cids)
    <2>1. 1 \in Int /\ MaxCid \in Int
          BY ContainerAssumption
    <2> QED BY <2>1, FS_Interval DEF Cids
  <1>2. IsFiniteSet(Cids \X Cids)
        BY <1>1, FS_Product
  <1>3. Run(k, q) \in SUBSET (Cids \X Cids)
        BY DEF Run, Neighbours, BaseCids
  <1> QED BY <1>2, <1>3, FS_Subset, FS_CardinalityType

LEMMA MergePairFacts ==
  ASSUME NEW q \in MergePairs
  PROVE  /\ q \in Neighbours /\ Small(q)
         /\ \E k \in BaseCids :
              /\ k <= q[1] /\ (\A t \in Run(k, q) : Small(t))
              /\ \A t \in Neighbours : t[2] = k => ~Small(t)
              /\ Cardinality(Run(k, q)) % 2 = 1
  <1>1. PICK k \in BaseCids :
           /\ \A t \in Run(k, q) : Small(t)
           /\ \A t \in Neighbours : t[2] = k => ~Small(t)
           /\ Cardinality(Run(k, q)) % 2 = 1
        BY DEF MergePairs, Run
  <1>2. q \in Neighbours
        BY DEF MergePairs
  <1>3. Run(k, q) # {}
    <2>1. 0 % 2 # 1
          OBVIOUS
    <2> QED BY <1>1, <2>1, FS_EmptySet
  <1>4. PICK t \in Neighbours : k <= t[1] /\ t[2] <= q[2]
        BY <1>3 DEF Run
  <1>5. k <= q[1]
    <2>1. /\ t[1] \in Nat /\ t[2] \in Nat /\ t[1] < t[2] /\ t[1] \in BaseCids
          /\ q[1] \in Nat /\ q[2] \in Nat /\ k \in Nat
          /\ \A b \in BaseCids : b <= q[1] \/ b >= q[2]
          BY <1>1, <1>2, <1>4, NeighbourFacts
    <2>2. t[1] <= q[1] \/ t[1] >= q[2]
          BY <2>1
    <2> QED BY <2>1, <2>2, <1>4
  <1>6. q \in Run(k, q)
    <2>1. q[2] <= q[2]
          BY <1>2, NeighbourFacts
    <2> QED BY <2>1, <1>2, <1>5 DEF Run
  <1> QED BY <1>1, <1>2, <1>5, <1>6

\* Of two pairs that follow each other only one is taken.
LEMMA MergePairsApart ==
  ASSUME NEW q \in MergePairs, NEW s \in MergePairs
  PROVE  s[1] # q[2]
  <1> SUFFICES ASSUME s[1] = q[2] PROVE FALSE
      OBVIOUS
  <1>1. q \in Neighbours /\ Small(q) /\ s \in Neighbours /\ Small(s)
        BY MergePairFacts
  <1>2. PICK k \in BaseCids :
           /\ k <= q[1] /\ (\A t \in Run(k, q) : Small(t))
           /\ \A t \in Neighbours : t[2] = k => ~Small(t)
           /\ Cardinality(Run(k, q)) % 2 = 1
        BY MergePairFacts
  <1>3. PICK j \in BaseCids :
           /\ j <= s[1] /\ (\A t \in Run(j, s) : Small(t))
           /\ \A t \in Neighbours : t[2] = j => ~Small(t)
           /\ Cardinality(Run(j, s)) % 2 = 1
        BY MergePairFacts
  <1>4. /\ q[1] \in Nat /\ q[2] \in Nat /\ q[1] < q[2] /\ s[2] \in Nat /\ q[2] < s[2]
        /\ k \in Nat /\ j \in Nat /\ (\A b \in BaseCids : b \in Nat)
        /\ \A b \in BaseCids : b <= q[1] \/ b >= q[2]
        /\ \A b \in BaseCids : b <= q[2] \/ b >= s[2]
        BY <1>1, <1>2, <1>3, NeighbourFacts
  \* The run of s does not begin with s, so it goes through q.
  <1>5. j <= q[1]
    <2>1. j # q[2]
          BY <1>1, <1>3
    <2>2. j <= q[1] \/ j >= q[2]
          BY <1>3, <1>4
    <2> QED BY <2>1, <2>2, <1>3, <1>4
  \* Both runs begin at the same container.
  <1>6. ~(j < k)
    <2>1. SUFFICES ASSUME j < k PROVE FALSE
          OBVIOUS
    <2>2. PICK t \in Neighbours : t[2] = k /\ j <= t[1]
          BY <2>1, <1>2, <1>3, NeighbourBefore
    <2>3. t[2] <= s[2]
          BY <2>2, <1>2, <1>4
    <2>4. t \in Run(j, s)
          BY <2>2, <2>3 DEF Run
    <2> QED BY <2>2, <2>4, <1>2, <1>3
  <1>7. ~(k < j)
    <2>1. SUFFICES ASSUME k < j PROVE FALSE
          OBVIOUS
    <2>2. PICK t \in Neighbours : t[2] = j /\ k <= t[1]
          BY <2>1, <1>2, <1>3, NeighbourBefore
    <2>3. t[2] <= q[2]
          BY <2>2, <1>4, <1>5
    <2>4. t \in Run(k, q)
          BY <2>2, <2>3 DEF Run
    <2> QED BY <2>2, <2>4, <1>2, <1>3
  <1>8. j = k
        BY <1>4, <1>6, <1>7
  \* The run of s has one more pair than that of q: s itself.
  <1>9. Run(k, s) = Run(k, q) \cup {s}
    <2>1. ASSUME NEW t \in Neighbours, k <= t[1], t[2] <= s[2], t # s PROVE t[2] <= q[2]
      <3>1. /\ t = <<t[1], t[2]>> /\ s = <<s[1], s[2]>> /\ t[1] \in Nat /\ t[2] \in Nat
            /\ t[1] < t[2] /\ t[1] \in BaseCids /\ t[2] \in BaseCids
            /\ s[1] \in BaseCids /\ \A b \in BaseCids : b <= t[1] \/ b >= t[2]
            BY <1>1, NeighbourFacts
      <3>2. t[2] <= q[2] \/ t[2] >= s[2]
            BY <3>1, <1>4
      <3>3. CASE t[2] >= s[2]
        <4>1. t[2] = s[2]
              BY <2>1, <3>1, <3>3, <1>4
        <4>2. t[1] <= q[2] \/ t[1] >= s[2]
              BY <3>1, <1>4
        <4>3. q[2] <= t[1] \/ q[2] >= t[2]
              BY <3>1
        <4>4. t[1] = q[2]
              BY <3>1, <4>1, <4>2, <4>3, <1>4
        <4>5. t = s
              BY <3>1, <4>1, <4>4
        <4> QED BY <2>1, <4>5
      <3> QED BY <3>2, <3>3
    <2>2. ASSUME NEW t \in Neighbours, t[2] <= q[2] PROVE t[2] <= s[2]
          BY <2>2, <1>4, NeighbourFacts
    <2>3. s \in Neighbours /\ k <= s[1] /\ s[2] <= s[2]
          BY <1>1, <1>3, <1>4, <1>8
    <2> QED BY <2>1, <2>2, <2>3 DEF Run
  <1>10. s \notin Run(k, q)
        BY <1>4 DEF Run
  <1>11. Cardinality(Run(k, s)) = Cardinality(Run(k, q)) + 1 /\ Cardinality(Run(k, q)) \in Nat
        BY <1>9, <1>10, RunFinite, FS_AddElement
  <1> QED BY <1>2, <1>3, <1>8, <1>11

LEMMA GetMergeContainerPlace ==
  ASSUME TypeOK, TypeOK', PlaceInv, GetMergeContainer
  PROVE  PlaceInv'
  <1>1. /\ phase = "cold" /\ phase' = "merge" /\ merges' = MergePairs /\ \A k \in Cids : cold[k] = {}
        /\ UNCHANGED <<fpIndex, file, cold, walk, writing, queue, inBase, inDelta, hot, batch, broken, nextCid>>
        BY DEF GetMergeContainer, indexVars, writerVars, enclaveVars, historyVars
  <1>2. PhaseFacts'
        BY <1>1 DEF PlaceInv, PhaseFacts
  <1>3. ASSUME NEW q \in MergePairs
        PROVE  /\ q[1] # q[2] /\ file[q[1]].kind = "base" /\ file[q[2]].kind = "base"
               /\ file[q[1]].size + file[q[2]].size < MaxContainer
               /\ \A s \in MergePairs : s # q => /\ s[1] # q[1] /\ s[1] # q[2]
                                                 /\ s[2] # q[1] /\ s[2] # q[2]
    <2>1. q \in Neighbours /\ Small(q)
          BY MergePairFacts
    <2>2. /\ q = <<q[1], q[2]>> /\ q[1] \in BaseCids /\ q[2] \in BaseCids /\ q[1] \in Nat /\ q[2] \in Nat
          /\ q[1] < q[2] /\ \A k \in BaseCids : k \in Nat /\ (k <= q[1] \/ k >= q[2])
          BY <2>1, NeighbourFacts
    <2>3. file[q[1]].kind = "base" /\ file[q[2]].kind = "base" /\ q[1] \in Cids /\ q[2] \in Cids
          BY <2>2 DEF BaseCids
    <2>4. file[q[1]].size + file[q[2]].size < MaxContainer
      <3>1. file[q[1]].size \in Int /\ file[q[2]].size \in Int
            BY <2>3, PlaceTypes
      <3>2. file[q[1]].size + file[q[2]].size < MaxContainer - 1
            BY <2>1 DEF Small
      <3> QED BY <3>1, <3>2, HdrPositive
    <2>5. ASSUME NEW s \in MergePairs, s # q
          PROVE  s[1] # q[1] /\ s[1] # q[2] /\ s[2] # q[1] /\ s[2] # q[2]
      <3>1. s \in Neighbours
            BY MergePairFacts
      <3>2. /\ s = <<s[1], s[2]>> /\ s[1] \in BaseCids /\ s[2] \in BaseCids /\ s[1] \in Nat /\ s[2] \in Nat
            /\ s[1] < s[2] /\ \A k \in BaseCids : k <= s[1] \/ k >= s[2]
            BY <3>1, NeighbourFacts
      <3>3. s[1] # q[2] /\ q[1] # s[2]
            BY MergePairsApart
      <3>4. /\ q[2] <= s[1] \/ q[2] >= s[2]
            /\ s[2] <= q[1] \/ s[2] >= q[2]
            /\ q[1] <= s[1] \/ q[1] >= s[2]
            /\ s[1] <= q[1] \/ s[1] >= q[2]
            BY <2>2, <3>2
      <3>5. s[1] = q[1] <=> s[2] = q[2]
            BY <2>2, <3>2, <3>4
      <3>6. ~(s[1] = q[1] /\ s[2] = q[2])
            BY <2>2, <2>5, <3>2
      <3> QED BY <3>3, <3>5, <3>6
    <2>6. q[1] # q[2]
          BY <2>2
    <2> QED BY <2>3, <2>4, <2>5, <2>6
  <1>4. MergeInv'
        BY <1>1, <1>3 DEF MergeInv
  <1>5. nextCid <= nextCid'
        BY <1>1 DEF TypeOK, ContainerTypes
  <1> QED BY <1>1, <1>2, <1>4, <1>5, StillPlace

\* The index follows the records of the second container.
LEMMA MergePairIndex ==
  ASSUME TypeOK, PlaceInv, NEW q \in merges, MergePair(q)
  PROVE  /\ \A r \in file[q[2]].recs :
              fpIndex[r.fp] = r.addr /\ fpIndex'[r.fp] = Shifted(r, q[1], file[q[1]].size).addr
         /\ \A c \in Chunks : (\A r \in file[q[2]].recs : r.fp # c) => fpIndex'[c] = fpIndex[c]
  <1> DEFINE S == file[q[2]].recs
             by == file[q[1]].size
             moved(c) == {r \in S : r.fp = c}
  <1>1. /\ phase = "merge"
        /\ fpIndex' = [c \in Chunks |->
                         IF moved(c) = {} THEN fpIndex[c]
                         ELSE Shifted(CHOOSE r \in moved(c) : TRUE, q[1], by).addr]
        BY DEF MergePair
  <1>2. q[1] \in Cids /\ q[2] \in Cids
        BY DEF TypeOK, OfflineTypes
  <1>3. S \in SUBSET Rec /\ file[q[2]].size \in Int /\ Proper(q[2], S, file[q[2]].size)
        BY <1>2, PlaceTypes DEF PlaceInv, HoldersProper
  <1>4. \A r \in S : r.fp \in Chunks
        BY <1>3, RecFields
  <1>5. ASSUME NEW r \in S PROVE fpIndex[r.fp] = r.addr /\ r.addr.off = r.pos
    <2>1. r \in Live
      <3>1. Disk(q[2]) = S
            BY <1>1, <1>2, DiskIsFile DEF PlaceInv
      <3> QED BY <3>1, <1>2 DEF Live, DiskRecs
    <2>2. ~InBatch(r) /\ walk.cid = 0 /\ walk.rest = {}
          BY <1>1, OfflinePhase
    <2>3. r.addr.off = r.pos
          BY <1>3, ProperFacts
    <2>4. ~Marked(r)
      <3>1. \A k \in Cids : cold[k] = {}
            BY <1>1 DEF PlaceInv, PhaseFacts
      <3> QED BY <3>1, <2>2 DEF Marked, ColdOffsets
    <2> QED BY <2>1, <2>2, <2>3, <2>4 DEF PlaceInv, LiveCurrent
  <1>6. \A r, t \in S : r.fp = t.fp => r = t
    <2>1. ASSUME NEW r \in S, NEW t \in S, r.fp = t.fp PROVE r = t
      <3>1. r.pos = t.pos
            BY <2>1, <1>5
      <3> QED BY <3>1, <1>3, ProperFacts
    <2> QED BY <2>1
  <1>7. ASSUME NEW r \in S PROVE fpIndex'[r.fp] = Shifted(r, q[1], by).addr
    <2>1. moved(r.fp) = {r}
          BY <1>6
    <2>2. (CHOOSE t \in moved(r.fp) : TRUE) = r
          BY <2>1
    <2> HIDE DEF moved
    <2> QED BY <2>1, <2>2, <1>1, <1>4
  <1>8. ASSUME NEW c \in Chunks, \A r \in S : r.fp # c PROVE fpIndex'[c] = fpIndex[c]
    <2>1. moved(c) = {}
          BY <1>8
    <2> HIDE DEF moved
    <2> QED BY <2>1, <1>1
  <1> QED BY <1>5, <1>7, <1>8

LEMMA MergePairPlace ==
  ASSUME TypeOK, TypeOK', NameInv, PlaceInv, NEW q \in merges, MergePair(q)
  PROVE  PlaceInv'
  <1> DEFINE i == q[1]
             j == q[2]
             S == file[q[2]].recs
             by == file[q[1]].size
             T == {Shifted(r, q[1], file[q[1]].size) : r \in file[q[2]].recs}
  <1>1. /\ phase = "merge" /\ phase' = "merge" /\ merges' = merges \ {q}
        /\ file' = [file EXCEPT ![i].recs = @ \cup T, ![i].size = @ + file[j].size, ![j] = NoFile]
        /\ UNCHANGED <<inBase, inDelta, nextCid, queue, writing, hot, cold, walk, batch, broken>>
        BY DEF MergePair, writerVars, enclaveVars, historyVars
  <1>2. i \in Cids /\ j \in Cids /\ file \in [Cids -> File]
        BY DEF TypeOK, OfflineTypes, ContainerTypes
  <1>3. /\ i # j /\ file[i].kind = "base" /\ file[j].kind = "base" /\ by + file[j].size < MaxContainer
        /\ \A s \in merges : s # q => s[1] # i /\ s[1] # j /\ s[2] # i /\ s[2] # j
        BY <1>1 DEF PlaceInv, MergeInv
  <1>4. /\ \A r \in S : fpIndex[r.fp] = r.addr /\ fpIndex'[r.fp] = Shifted(r, i, by).addr
        /\ \A c \in Chunks : (\A r \in S : r.fp # c) => fpIndex'[c] = fpIndex[c]
        BY MergePairIndex
  <1>5. /\ i \in Nat /\ S \in SUBSET Rec /\ file[i].recs \in SUBSET Rec /\ by \in Int /\ file[j].size \in Int
        /\ Proper(i, file[i].recs, by) /\ Proper(j, S, file[j].size)
        BY <1>2, PlaceTypes DEF PlaceInv, HoldersProper
  <1>6. /\ file'[i].recs = file[i].recs \cup T /\ file'[i].size = by + file[j].size
        /\ file'[i].kind = "base" /\ file'[j] = NoFile
        /\ \A k \in Cids : k # i /\ k # j => file'[k] = file[k]
    <2> HIDE DEF T
    <2>1. file[i] \in File
          BY <1>2
    <2>2. file'[i] = [file[i] EXCEPT !.recs = @ \cup T, !.size = @ + file[j].size]
          BY <1>1, <1>2, <1>3
    <2>3. file'[j] = NoFile /\ \A k \in Cids : k # i /\ k # j => file'[k] = file[k]
          BY <1>1, <1>2, <1>3
    <2> QED BY <2>1, <2>2, <2>3, <1>3 DEF File
  <1>7. NoFile.kind = "none" /\ NoFile.recs = {} /\ NoFile.size = 0
        BY DEF NoFile
  <1>8. \A r \in S : Shifted(r, i, by) \in T /\ Shifted(r, i, by).fp = r.fp
        BY <1>5, ShiftedFields
  <1>9. \A r \in S : r.addr.cid = j /\ r.fp \in Chunks
        BY <1>5, ProperFacts, RecFields
  <1>10. /\ OnTheWay' = OnTheWay /\ walk.cid = 0 /\ walk.recs = {} /\ walk.rest = {} /\ batch.done = <<>>
         /\ Len(writing') = 0 /\ \A t : ~InBatch(t)
    <2>1. OnTheWay' = OnTheWay
          BY <1>1 DEF OnTheWay
    <2> QED BY <2>1, <1>1, OfflinePhase
  \* The stored records: those of j are replaced by their shifted copies.
  <1>11. \A k \in Cids : Disk(k) = file[k].recs /\ Disk(k)' = file'[k].recs
    <2>1. \A k \in Cids : k # 0
          BY PlaceTypes
    <2> QED BY <2>1, <1>1, <1>10 DEF Disk
  <1> HIDE DEF T
  <1>12. T \subseteq Live' /\ \A t \in Live : t \in S \/ t \in Live'
    <2>1. \A k \in Cids : \A t \in file[k].recs : k # j => t \in file'[k].recs
          BY <1>6
    <2>2. DiskRecs \subseteq S \cup DiskRecs'
          BY <2>1, <1>11 DEF DiskRecs
    <2>3. T \subseteq DiskRecs'
          BY <1>2, <1>6, <1>11 DEF DiskRecs
    <2>4. WayRecs' = WayRecs
          BY <1>10 DEF WayRecs
    <2> QED BY <2>2, <2>3, <2>4 DEF Live
  <1>13. \A t \in Live' : t \in T \/ (t \in Live /\ t.addr.cid # j)
    <2>1. ASSUME NEW t \in WayRecs PROVE t \in Live /\ t.addr.cid # j
      <3>1. PICK g \in OnTheWay : t \in g.recs
            BY DEF WayRecs
      <3>2. g = EmptyContainer(0)
        <4>1. OnTheWay = {EmptyContainer(0), hot}
              BY <1>1, OfflinePhase
        <4>2. hot = EmptyContainer(0)
              BY <1>1 DEF PlaceInv, PhaseFacts
        <4> QED BY <4>1, <4>2, <3>1
      <3> QED BY <3>1, <3>2, EmptyFields
    <2>2. ASSUME NEW k \in Cids, NEW t \in file'[k].recs PROVE t \in T \/ (t \in Live /\ t.addr.cid # j)
      <3>1. k # j
            BY <1>6, <1>7
      <3>2. t \in T \/ t \in file[k].recs
            BY <2>2, <3>1, <1>6
      <3>3. CASE t \in file[k].recs
        <4>1. t \in Disk(k)
              BY <3>3, <1>11
        <4>2. t.addr.cid = k
              BY <4>1, DiskFacts DEF PlaceInv
        <4> QED BY <3>1, <4>1, <4>2 DEF Live, DiskRecs
      <3> QED BY <3>2, <3>3
    <2>3. WayRecs' = WayRecs
          BY <1>10 DEF WayRecs
    <2>4. \A t \in DiskRecs' : t \in T \/ (t \in Live /\ t.addr.cid # j)
          BY <2>2, <1>11 DEF DiskRecs
    <2> QED BY <2>1, <2>3, <2>4 DEF Live
  <1>14. HoldersProper'
    <2>1. Proper(i, file'[i].recs, file'[i].size)
          BY <1>3, <1>5, <1>6, ProperMerge DEF T
    <2>2. Proper(j, file'[j].recs, file'[j].size)
          BY <1>6, <1>7, ProperEmpty
    <2>3. \A k \in Cids : Proper(k, file'[k].recs, file'[k].size)
          BY <2>1, <2>2, <1>6 DEF PlaceInv, HoldersProper
    <2>4. \A k \in Cids : file'[k].kind = "none" => file'[k].recs = {}
          BY <1>6, <1>7 DEF PlaceInv, HoldersProper
    <2>5. 1 .. Len(writing') = {}
          BY <1>10
    <2> QED BY <2>3, <2>4, <2>5, <1>10 DEF PlaceInv, HoldersProper
  <1>15. PhaseFacts'
        BY <1>1 DEF PlaceInv, PhaseFacts
  <1>16. LiveCurrent'
    <2>1. ASSUME NEW t \in Live' PROVE fpIndex'[t.fp] = t.addr
      <3>1. CASE t \in T
        <4>1. PICK r \in S : t = Shifted(r, i, by)
              BY <3>1 DEF T
        <4> QED BY <4>1, <1>4, <1>8
      <3>2. CASE t \in Live /\ t.addr.cid # j
        <4>1. t.fp \in Chunks
              BY <3>2, LiveFacts DEF PlaceInv
        <4>2. fpIndex[t.fp] = t.addr
          <5>1. ~Marked(t)
            <6>1. \A k \in Cids : cold[k] = {}
                  BY <1>1 DEF PlaceInv, PhaseFacts
            <6> QED BY <6>1, <1>10 DEF Marked, ColdOffsets
          <5> QED BY <3>2, <5>1, <1>10 DEF PlaceInv, LiveCurrent
        <4>3. \A r \in S : r.fp # t.fp
              BY <3>2, <4>2, <1>4, <1>9
        <4> QED BY <4>1, <4>2, <4>3, <1>4
      <3> QED BY <3>1, <3>2, <1>13
    <2> QED BY <2>1 DEF LiveCurrent
  <1>17. \A k \in Nat : Unused(k) => Unused(k)'
    <2>1. \A k \in Cids : file'[k].kind # "none" => file[k].kind # "none"
          BY <1>3, <1>6, <1>7
    <2>2. nextCid <= nextCid'
          BY <1>1 DEF TypeOK, ContainerTypes
    <2> QED BY <2>1, <2>2, <1>10, UnusedKept
  <1>18. LiveFound'
    <2>1. ASSUME NEW x \in Chunks, Indexed(x)'
          PROVE  (\E t \in Live' : t.fp = x /\ t.addr = fpIndex'[x]) \/ (broken' > 0 /\ Unused(fpIndex[x].cid)')
      <3>1. CASE \E r \in S : r.fp = x
        <4>1. PICK r \in S : r.fp = x
              BY <3>1
        <4> QED BY <4>1, <1>4, <1>8, <1>12
      <3>2. CASE \A r \in S : r.fp # x
        <4>1. fpIndex'[x] = fpIndex[x] /\ Indexed(x)
              BY <3>2, <2>1, <1>4 DEF Indexed
        <4>2. CASE Stored(x, fpIndex[x])
              BY <3>2, <4>1, <4>2, <1>12 DEF Stored
        <4>3. CASE broken > 0 /\ Unused(fpIndex[x].cid)
          <5>1. fpIndex[x].cid \in Nat
                BY PlaceTypes
          <5> QED BY <4>1, <4>3, <5>1, <1>1, <1>17
        <4> QED BY <4>1, <4>2, <4>3 DEF PlaceInv, LiveFound
      <3> QED BY <3>1, <3>2
    <2> QED BY <2>1 DEF LiveFound, Stored
  <1>19. BatchLive'
    <2>1. Len(batch.done) = 0 /\ batch' = batch
          BY <1>1, <1>10, EmptySeq
    <2>2. 1 .. Len(batch.done) = {}
          BY <2>1
    <2> QED BY <2>1, <2>2 DEF PlaceInv, BatchLive
  <1>20. ColdMarksExact'
        BY <1>1, NothingMarked DEF PlaceInv
  <1>21. MergeInv'
    <2>1. ASSUME NEW s \in merges, s # q PROVE file'[s[1]] = file[s[1]] /\ file'[s[2]] = file[s[2]]
      <3>1. s[1] \in Cids /\ s[2] \in Cids
            BY DEF TypeOK, OfflineTypes
      <3> QED BY <2>1, <3>1, <1>3, <1>6
    <2>2. \A s \in merges : /\ s[1] # s[2] /\ file[s[1]].kind = "base" /\ file[s[2]].kind = "base"
                            /\ file[s[1]].size + file[s[2]].size < MaxContainer
                            /\ \A u \in merges : u # s => /\ u[1] # s[1] /\ u[1] # s[2]
                                                          /\ u[2] # s[1] /\ u[2] # s[2]
          BY <1>1 DEF PlaceInv, MergeInv
    <2> QED BY <2>1, <2>2, <1>1 DEF MergeInv
  <1> QED BY <1>1, <1>14, <1>15, <1>16, <1>18, <1>19, <1>20, <1>21 DEF PlaceInv, WalkInv

-----------------------------------------------------------------------------
(* Every step keeps the invariant, and what follows from it.               *)

LEMMA PlaceInvNext ==
  ASSUME TypeOK, TypeOK', PairAtHand, NameInv, FreshBatch, PlaceInv, [Next]_vars
  PROVE  PlaceInv'
  <1>1. CASE StoreNew
        BY <1>1, StorePlace
  <1>2. CASE \E op \in {"upload", "offline"} : StartSession(op)
        BY <1>2, StartSessionPlace
  <1>3. CASE Receive
        BY <1>3, RecvBatchPlace DEF Receive
  <1>4. CASE SkipDuplicate
        BY <1>4, SkipDuplicatePlace
  <1>5. CASE EndBatch
        BY <1>5, EndBatchPlace
  <1>6. CASE CloseSession
        BY <1>6, CloseSessionPlace
  <1>7. CASE Disconnect
        BY <1>7, DisconnectPlace
  <1>8. CASE WriterOpen
        BY <1>8, WriterOpenPlace
  <1>9. CASE WriterSave
        BY <1>9, WriterSavePlace
  <1>10. CASE StartOffline
        BY <1>10, StartOfflinePlace
  <1>11. CASE \E d \in work.deltas : MoveDelta(d)
        BY <1>11, MoveDeltaPlace
  <1>12. CASE MoveBase
        BY <1>12, MoveBasePlace
  <1>13. CASE SaveHot
        BY <1>13, SaveHotPlace
  <1>14. CASE \E k \in Cids : BeginCold(k)
        BY <1>14, BeginColdPlace
  <1>15. CASE \E r \in walk.buf : CopyRecord(r)
        BY <1>15, CopyRecordPlace
  <1>16. CASE \E q \in walk.rest : DropRecord(q)
        BY <1>16, DropRecordPlace
  <1>17. CASE EndCold
        BY <1>17, EndColdPlace
  <1>18. CASE GetMergeContainer
        BY <1>18, GetMergeContainerPlace
  <1>19. CASE \E q \in merges : MergePair(q)
        BY <1>19, MergePairPlace
  <1>20. CASE \/ RecipeEnd \/ EndUpload \/ CleanLocalIndex \/ EndOffline
              \/ \E p \in localMap : SkipGreedy(p[1], p[2])
              \/ \E p \in localMap : SkipOldMissing(p[1], p[2])
              \/ \E p \in localMap : SkipNewMissing(p[1], p[2])
              \/ \E p \in localMap : BeginPair(p[1], p[2])
              \/ \E d \in work.deltas : ReadStaleDelta(d)
              \/ UNCHANGED vars
        BY <1>20, StillActions
  <1> QED BY <1>1, <1>2, <1>3, <1>4, <1>5, <1>6, <1>7, <1>8, <1>9, <1>10, <1>11, <1>12, <1>13,
         <1>14, <1>15, <1>16, <1>17, <1>18, <1>19, <1>20 DEF Next, StoreNew

\* The four invariants together: types, names, batches and places.
StoreInv == TypeInv /\ NameInv /\ FwdInv /\ PlaceInv

LEMMA StoreInvInit == Init => StoreInv
  <1>1. Init => FwdInv
        BY DEF Init, FwdInv, OnlyForwardPhases, FreshBatch
  <1> QED BY <1>1, TypeInvInit, NameInvInit, PlaceInit DEF StoreInv

LEMMA StoreInvNext ==
  ASSUME StoreInv, [Next]_vars
  PROVE  StoreInv'
  <1>1. TypeInv /\ NameInv /\ FwdInv /\ PlaceInv
        BY DEF StoreInv
  <1>2. TypeInv'
        BY <1>1, TypeInvNext
  <1>3. TypeOK /\ TypeOK' /\ PairAtHand /\ FreshBatch
        BY <1>1, <1>2 DEF TypeInv, FwdInv
  <1>4. NameInv' /\ FwdInv'
        BY <1>1, <1>3, NameInvNext, FwdInvNext
  <1>5. PlaceInv'
        BY <1>1, <1>3, PlaceInvNext
  <1> QED BY <1>2, <1>4, <1>5 DEF StoreInv

\* A record that Update_cold_container was not told to remove is the one the
\* fingerprint index points at, in every container and at every moment of an
\* upload or of an offline pass: the headers that Update_cold_container and
\* MergeContainer rebuild the index from never bring back an old entry.
THEOREM HeadersStayCurrent == Spec => []HeadersCurrent
  <1>1. StoreInv => HeadersCurrent
        BY PlaceHeaders DEF StoreInv, TypeInv
  <1> QED BY <1>1, StoreInvInit, StoreInvNext, PTL DEF Spec

\* The entry that UpdateIndexStore, Update_cold_container or MergeContainer
\* last wrote for a chunk finds that chunk's record, header and all, unless
\* an early disconnect took the whole container along.
THEOREM EntriesAreFound == Spec => []EntriesFound
  <1>1. StoreInv => EntriesFound
        BY PlaceEntries DEF StoreInv, TypeInv
  <1> QED BY <1>1, StoreInvInit, StoreInvNext, PTL DEF Spec

\* Appending records (SavebaseChunk, SavedeltaChunk, InsertHot_container),
\* squeezing a container and merging two of them leave no gap and no overlap,
\* and no container reaches MAX_CONTAINER_SIZE.
THEOREM ContainersTiled == Spec => []Tiled
  <1>1. StoreInv => Tiled
        BY PlaceTiled DEF StoreInv, TypeInv
  <1> QED BY <1>1, StoreInvInit, StoreInvNext, PTL DEF Spec

\* Every location that Ocall_ColdInsert noted is one whole record of the file
\* whose chunk has moved to another container, until Update_cold_container
\* has passed over it.
THEOREM MarksStayExact == Spec => []ColdMarksExact
  <1>1. StoreInv => ColdMarksExact
        BY DEF StoreInv, PlaceInv
  <1> QED BY <1>1, StoreInvInit, StoreInvNext, PTL DEF Spec
=============================================================================
