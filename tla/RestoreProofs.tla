---------------------------- MODULE RestoreProofs ----------------------------
(* The server's side of a download, for any store, recipe and buffer sizes *)
(* that satisfy the assumptions of RestoreDecoder: the read cache, the     *)
(* request and the slots and bases of its entries.                         *)
EXTENDS RestoreDecoder, SequenceTheorems, FiniteSetTheorems, TLAPS

----------------------------------------------------------------------------
(* The read cache. *)

\* Coherence of a list of keys with the contents of a pool, n buffers of
\* which are in use.
Coherent(ks, pl, n) ==
  /\ \A j \in 1..Len(ks) : ks[j].idx < n /\ pl[ks[j].idx] = ks[j].name
  /\ \A j, l \in 1..Len(ks) : j # l => ks[j].name # ks[l].name /\ ks[j].idx # ks[l].idx

\* Keys are never removed but to make room for another.  As long as the map
\* drops none before the pool is full, the keys count the buffers in use; as
\* long as the pool is not full before the map drops one, no buffer is
\* overwritten that a key still names.
CacheInv ==
  /\ keys \in Seq(Key) /\ pool \in [0..PoolSize - 1 -> Names] /\ nextIdx \in 0..PoolSize
  /\ Len(keys) <= LruMax
  /\ MapCoversPool => /\ nextIdx < PoolSize => Len(keys) = nextIdx
                      /\ nextIdx = PoolSize => Len(keys) >= PoolSize
  /\ PoolCoversMap => Len(keys) <= nextIdx /\ Coherent(keys, pool, nextIdx)

\* Taking an element out of a sequence.
LEMMA RemoveAtFacts ==
  ASSUME NEW S, NEW s \in Seq(S), NEW i \in 1..Len(s)
  PROVE  /\ RemoveAt(s, i) \in Seq(S)
         /\ Len(RemoveAt(s, i)) = Len(s) - 1
         /\ \A j \in 1..Len(s) - 1 : RemoveAt(s, i)[j] = IF j < i THEN s[j] ELSE s[j + 1]
<1> DEFINE a == SubSeq(s, 1, i - 1)
           b == SubSeq(s, i + 1, Len(s))
<1>1. /\ a \in Seq(S) /\ Len(a) = i - 1
      /\ \A j \in 1..i - 1 : a[j] = s[j]
  <2>1. \A j \in 1..i - 1 : s[j] \in S
    BY ElementOfSeq
  <2> QED
    BY <2>1, SubSeqProperties
<1>2. /\ b \in Seq(S) /\ Len(b) = Len(s) - i
      /\ \A j \in 1..Len(s) - i : b[j] = s[i + j]
  <2>1. \A j \in i + 1..Len(s) : s[j] \in S
    BY ElementOfSeq
  <2> QED
    BY <2>1, SubSeqProperties
<1>3. RemoveAt(s, i) = a \o b
  BY DEF RemoveAt
<1> HIDE DEF a, b
<1>4. /\ a \o b \in Seq(S)
      /\ Len(a \o b) = Len(a) + Len(b)
      /\ \A j \in 1..Len(a) + Len(b) : (a \o b)[j] = IF j <= Len(a) THEN a[j] ELSE b[j - Len(a)]
  BY <1>1, <1>2, ConcatProperties
<1>5. Len(s) \in Nat
  OBVIOUS
<1>6. ASSUME NEW j \in 1..Len(s) - 1
      PROVE  (a \o b)[j] = IF j < i THEN s[j] ELSE s[j + 1]
  <2>1. CASE j < i
    <3>1. j \in 1..i - 1
      BY <2>1
    <3> QED
      BY <1>1, <1>2, <1>4, <1>5, <2>1, <3>1
  <2>2. CASE ~(j < i)
    <3>1. j - (i - 1) \in 1..Len(s) - i
      BY <1>5, <2>2
    <3>2. b[j - (i - 1)] = s[i + (j - (i - 1))]
      BY <1>2, <3>1
    <3>3. i + (j - (i - 1)) = j + 1
      OBVIOUS
    <3> QED
      BY <1>1, <1>2, <1>4, <1>5, <2>2, <3>2, <3>3
  <2> QED
    BY <2>1, <2>2
<1> QED
  BY <1>1, <1>2, <1>3, <1>4, <1>5, <1>6

\* Putting an element in front of a sequence.
LEMMA ConsFacts ==
  ASSUME NEW S, NEW e \in S, NEW s \in Seq(S)
  PROVE  /\ <<e>> \o s \in Seq(S)
         /\ Len(<<e>> \o s) = Len(s) + 1
         /\ \A j \in 1..Len(s) + 1 : (<<e>> \o s)[j] = IF j = 1 THEN e ELSE s[j - 1]
<1>1. <<e>> \in Seq(S) /\ Len(<<e>>) = 1 /\ <<e>>[1] = e
  OBVIOUS
<1>2. /\ <<e>> \o s \in Seq(S)
      /\ Len(<<e>> \o s) = 1 + Len(s)
      /\ \A j \in 1..1 + Len(s) : (<<e>> \o s)[j] = IF j <= 1 THEN <<e>>[j] ELSE s[j - 1]
  BY <1>1, ConcatProperties
<1> QED
  BY <1>1, <1>2

\* The index of a key is a buffer of the pool.
LEMMA KeyFacts ==
  ASSUME NEW ks \in Seq(Key), NEW j \in 1..Len(ks)
  PROVE  ks[j] \in Key /\ ks[j].idx \in 0..PoolSize - 1 /\ ks[j].idx \in Nat /\ ks[j].name \in Names
<1>1. ks[j] \in Key
  BY ElementOfSeq
<1>2. PoolSize \in Nat
  BY SizeAssumption
<1> QED
  BY <1>1, <1>2 DEF Key

\* The two sizes.
LEMMA CacheSizes == PoolSize \in Nat \ {0} /\ LruMax \in Nat \ {0}
  BY SizeAssumption

\* What the invariant says of the contents and of the bounds of the pool.
LEMMA CacheInvBytes == CacheInv /\ PoolCoversMap => CacheBytes
<1> SUFFICES ASSUME CacheInv, PoolCoversMap PROVE CacheBytes
  OBVIOUS
<1>1. keys \in Seq(Key) /\ DOMAIN keys = 1..Len(keys) /\ Len(keys) \in Nat /\ PoolSize \in Nat
  BY CacheSizes DEF CacheInv
<1>2. \A j \in 1..Len(keys) : keys[j].idx \in 0..PoolSize - 1
  BY <1>1, KeyFacts
<1>3. \A j \in 1..Len(keys) : keys[j].idx < PoolSize
  BY <1>1, <1>2
<1> QED
  BY <1>1, <1>3 DEF CacheInv, Coherent, CacheBytes

LEMMA CacheInvBounds == CacheInv /\ MapCoversPool => ~PoolOverrun
<1> SUFFICES ASSUME CacheInv, MapCoversPool PROVE ~PoolOverrun
  OBVIOUS
<1>1. keys \in Seq(Key) /\ Len(keys) \in Nat /\ PoolSize \in Nat /\ nextIdx \in 0..PoolSize
  BY CacheSizes DEF CacheInv
<1>2. nextIdx = PoolSize => Len(keys) >= PoolSize
  BY DEF CacheInv
<1> QED
  BY <1>1, <1>2 DEF PoolOverrun, PoolFull

\* ls lists the keys of ks in another order.
Reordered(ks, ls) ==
  /\ Len(ls) = Len(ks)
  /\ \E p \in [1..Len(ks) -> 1..Len(ks)] :
       /\ \A j \in 1..Len(ks) : ls[j] = ks[p[j]]
       /\ \A j, l \in 1..Len(ks) : j # l => p[j] # p[l]

\* Listing the same keys in another order changes nothing.
LEMMA ReorderKeeps ==
  ASSUME NEW ks, NEW ls, NEW pl, NEW n, Reordered(ks, ls), Coherent(ks, pl, n)
  PROVE  Coherent(ls, pl, n)
<1>0. Len(ls) = Len(ks)
  BY DEF Reordered
<1> PICK p \in [1..Len(ks) -> 1..Len(ks)] :
       /\ \A j \in 1..Len(ks) : ls[j] = ks[p[j]]
       /\ \A j, l \in 1..Len(ks) : j # l => p[j] # p[l]
  BY DEF Reordered
<1>1. \A j \in 1..Len(ks) : p[j] \in 1..Len(ks)
  OBVIOUS
<1>2. ASSUME NEW j \in 1..Len(ks) PROVE ls[j].idx < n /\ pl[ls[j].idx] = ls[j].name
  BY <1>1 DEF Coherent
<1>3. ASSUME NEW j \in 1..Len(ks), NEW l \in 1..Len(ks), j # l
      PROVE  ls[j].name # ls[l].name /\ ls[j].idx # ls[l].idx
  <2>1. p[j] \in 1..Len(ks) /\ p[l] \in 1..Len(ks) /\ p[j] # p[l]
    BY <1>1, <1>3
  <2> QED
    BY <2>1 DEF Coherent
<1> QED
  BY <1>0, <1>2, <1>3 DEF Coherent

\* ls has a key for name k and buffer x before keys of ks with other names
\* and buffers; the pools pl and ql agree on these.
Extended(ks, ls, k, x, pl, ql) ==
  /\ Len(ls) \in 1..Len(ks) + 1
  /\ ls[1] = [name |-> k, idx |-> x] /\ ql[x] = k
  /\ \A j \in 2..Len(ls) :
       /\ ls[j] = ks[j - 1] /\ ks[j - 1].name # k /\ ks[j - 1].idx # x
       /\ ql[ks[j - 1].idx] = pl[ks[j - 1].idx]

\* A new key for a buffer no listed key has.
LEMMA AddKeeps ==
  ASSUME NEW ks \in Seq(Key), NEW ls \in Seq(Key), NEW k, NEW x \in Nat, NEW m \in Nat, NEW n \in Nat,
         NEW pl, NEW ql, n <= m, x < m,
         Extended(ks, ls, k, x, pl, ql), Coherent(ks, pl, n)
  PROVE  Coherent(ls, ql, m)
<1> USE DEF Extended
<1>1. \A j \in 1..Len(ls) : j = 1 \/ j \in 2..Len(ls)
  OBVIOUS
<1>2. \A j \in 2..Len(ls) : j - 1 \in 1..Len(ks)
  OBVIOUS
<1>3. \A j \in 1..Len(ks) : ks[j].idx \in Nat
  BY KeyFacts
<1>4. ASSUME NEW j \in 2..Len(ls) PROVE ls[j].idx < m /\ ql[ls[j].idx] = ls[j].name
  <2>1. j - 1 \in 1..Len(ks) /\ ks[j - 1].idx \in Nat
    BY <1>2, <1>3
  <2>2. ks[j - 1].idx < n /\ pl[ks[j - 1].idx] = ks[j - 1].name
    BY <2>1 DEF Coherent
  <2> QED
    BY <2>1, <2>2
<1>5. ls[1].idx < m /\ ql[ls[1].idx] = ls[1].name
  OBVIOUS
<1>6. ASSUME NEW j \in 2..Len(ls) PROVE /\ ls[1].name # ls[j].name /\ ls[1].idx # ls[j].idx
                                        /\ ls[j].name # ls[1].name /\ ls[j].idx # ls[1].idx
  OBVIOUS
<1>7. ASSUME NEW j \in 2..Len(ls), NEW l \in 2..Len(ls), j # l
      PROVE  ls[j].name # ls[l].name /\ ls[j].idx # ls[l].idx
  <2>1. j - 1 \in 1..Len(ks) /\ l - 1 \in 1..Len(ks) /\ j - 1 # l - 1
    BY <1>2, <1>7
  <2>2. ks[j - 1].name # ks[l - 1].name /\ ks[j - 1].idx # ks[l - 1].idx
    BY <2>1 DEF Coherent
  <2>3. ls[j] = ks[j - 1] /\ ls[l] = ks[l - 1]
    OBVIOUS
  <2> QED
    BY <2>2, <2>3
<1> QED
  BY <1>1, <1>4, <1>5, <1>6, <1>7 DEF Coherent

\* A key that is moved to the front takes its buffer along.
LEMMA ToFrontKeeps ==
  ASSUME CacheInv, NEW i \in DOMAIN keys,
         keys' = ToFront(i), UNCHANGED <<pool, nextIdx>>
  PROVE  CacheInv'
<1>1. keys \in Seq(Key) /\ (PoolCoversMap => Coherent(keys, pool, nextIdx))
  BY DEF CacheInv
<1>2. i \in 1..Len(keys) /\ keys[i] \in Key /\ Len(keys) \in Nat
  BY <1>1
<1> DEFINE rest == RemoveAt(keys, i)
           p == [j \in 1..Len(keys) |-> IF j = 1 THEN i ELSE IF j - 1 < i THEN j - 1 ELSE j]
<1>3. /\ rest \in Seq(Key) /\ Len(rest) = Len(keys) - 1
      /\ \A j \in 1..Len(keys) - 1 : rest[j] = IF j < i THEN keys[j] ELSE keys[j + 1]
  BY <1>1, <1>2, RemoveAtFacts
<1>4. keys' = <<keys[i]>> \o rest
  BY DEF ToFront
<1> HIDE DEF rest
<1>5. /\ keys' \in Seq(Key) /\ Len(keys') = Len(keys)
      /\ \A j \in 1..Len(keys) : keys'[j] = IF j = 1 THEN keys[i] ELSE rest[j - 1]
  BY <1>2, <1>3, <1>4, ConsFacts
<1>6. p \in [1..Len(keys) -> 1..Len(keys)] /\ \A j, l \in 1..Len(keys) : j # l => p[j] # p[l]
  BY <1>2
<1>7. ASSUME NEW j \in 1..Len(keys) PROVE keys'[j] = keys[p[j]]
  <2>1. CASE j = 1
    BY <1>5, <2>1
  <2>2. CASE j # 1
    <3>1. j - 1 \in 1..Len(keys) - 1 /\ (j - 1) + 1 = j
      BY <1>2, <2>2
    <3> QED
      BY <1>3, <1>5, <2>2, <3>1
  <2> QED
    BY <2>1, <2>2
<1> HIDE DEF p
<1>8. PoolCoversMap => Coherent(keys', pool, nextIdx)
  <2>1. Reordered(keys, keys')
    BY <1>5, <1>6, <1>7 DEF Reordered
  <2> QED
    BY <1>1, <2>1, ReorderKeeps
<1> QED
  BY <1>5, <1>8 DEF CacheInv, PoolCoversMap, MapCoversPool

\* The list after an insertion: the new key, then the old ones as far as the
\* map's capacity goes.
LEMMA InsertedFacts ==
  ASSUME keys \in Seq(Key), Len(keys) <= LruMax, NEW k \in Names, NEW x \in 0..PoolSize - 1
  PROVE  /\ Inserted(k, x) \in Seq(Key)
         /\ Len(Inserted(k, x)) = IF Len(keys) < LruMax THEN Len(keys) + 1 ELSE LruMax
         /\ \A j \in 1..Len(Inserted(k, x)) :
              Inserted(k, x)[j] = IF j = 1 THEN [name |-> k, idx |-> x] ELSE keys[j - 1]
<1> DEFINE n == Len(keys)
           e == [name |-> k, idx |-> x]
           s == <<e>> \o keys
<1>1. e \in Key
  BY DEF Key
<1>2. n \in Nat /\ LruMax \in Nat \ {0} /\ n <= LruMax
  BY CacheSizes
<1>3. /\ s \in Seq(Key) /\ Len(s) = n + 1
      /\ \A j \in 1..n + 1 : s[j] = IF j = 1 THEN e ELSE keys[j - 1]
  <2> HIDE DEF e
  <2> QED
    BY <1>1, ConsFacts
<1>4. Inserted(k, x) = IF Len(s) < LruMax THEN s ELSE SubSeq(s, 1, LruMax)
  BY DEF Inserted
<1> HIDE DEF e, s
<1>5. CASE n + 1 < LruMax
  BY <1>2, <1>3, <1>4, <1>5 DEF e
<1>6. CASE ~(n + 1 < LruMax)
  <2>1. LruMax <= n + 1 /\ 1 <= LruMax /\ LruMax \in Int /\ LruMax - 1 + 1 = LruMax
    BY <1>2, <1>6
  <2>2. \A j \in 1..LruMax : j \in 1..n + 1 /\ 1 + j - 1 = j
    BY <1>2, <2>1
  <2>3. \A j \in 1..LruMax : s[j] \in Key
    BY <1>3, <2>2, ElementOfSeq
  <2>4. /\ SubSeq(s, 1, LruMax) \in Seq(Key) /\ Len(SubSeq(s, 1, LruMax)) = LruMax
        /\ \A j \in 1..LruMax : SubSeq(s, 1, LruMax)[j] = s[j]
    <3> HIDE DEF n
    <3> QED
      BY <2>1, <2>2, <2>3, SubSeqProperties
  <2>5. Inserted(k, x) = SubSeq(s, 1, LruMax) /\ (n < LruMax => LruMax = n + 1)
    BY <1>2, <1>3, <1>4, <1>6
  <2> QED
    BY <1>3, <2>2, <2>4, <2>5 DEF e
<1> QED
  BY <1>5, <1>6

\* The numbers of keys and buffers before and after an insertion.
LEMMA InsertCounts ==
  ASSUME NEW n \in Nat, NEW m \in Nat, NEW x \in Nat, NEW y \in Nat, NEW P \in Nat \ {0}, NEW M \in Nat \ {0},
         x <= P, n <= M, m = (IF n < M THEN n + 1 ELSE M),
         P <= M => (x < P => n = x) /\ (x = P => n >= P),
         M <= P => n <= x,
         n + 1 > P => y = x,
         n + 1 <= P => x < P /\ y = x + 1
  PROVE  /\ y <= P /\ m <= M /\ m >= 1 /\ m <= n + 1
         /\ P <= M => (y < P => m = y) /\ (y = P => m >= P)
         /\ M <= P => m <= y
         /\ M <= P /\ n + 1 > P => n = P /\ m = n /\ x = P
  OBVIOUS

\* A container that is put into the cache overwrites no other's buffer,
\* unless the map still has a name for it.
LEMMA InsertKeeps ==
  ASSUME CacheInv, NEW k \in Names, ~Cached(k), ~PoolOverrun, InsertToCache(k)
  PROVE  CacheInv'
<1> DEFINE n == Len(keys)
           x == IF PoolFull THEN keys[n].idx ELSE nextIdx
           m == Len(keys')
<1>1. /\ keys \in Seq(Key) /\ pool \in [0..PoolSize - 1 -> Names] /\ nextIdx \in 0..PoolSize
      /\ n <= LruMax /\ DOMAIN keys = 1..n /\ n \in Nat
      /\ MapCoversPool => (nextIdx < PoolSize => n = nextIdx) /\ (nextIdx = PoolSize => n >= PoolSize)
      /\ PoolCoversMap => n <= nextIdx /\ Coherent(keys, pool, nextIdx)
  BY DEF CacheInv
<1>2. PoolSize \in Nat \ {0} /\ LruMax \in Nat \ {0}
  BY CacheSizes
<1>3. \A j \in 1..n : keys[j] \in Key /\ keys[j].name # k /\ keys[j].idx \in 0..PoolSize - 1
  <2>1. \A j \in 1..n : keys[j] \in Key /\ keys[j].idx \in 0..PoolSize - 1
    BY <1>1, KeyFacts
  <2> QED
    BY <1>1, <2>1 DEF Cached
<1>4. /\ PoolFull <=> n + 1 > PoolSize
      /\ ~PoolFull => nextIdx < PoolSize
  <2>1. n \in Nat /\ nextIdx \in Nat
    <3>1. n \in Nat /\ nextIdx \in 0..PoolSize
      BY <1>1
    <3> HIDE DEF n, m, x
    <3> QED
      BY <1>2, <3>1
  <2>2. /\ PoolFull <=> n + 1 > PoolSize
        /\ ~(~PoolFull /\ nextIdx >= PoolSize)
    BY DEF PoolFull, PoolOverrun
  <2> HIDE DEF n
  <2> QED
    BY <1>2, <2>1, <2>2
<1>5. x \in 0..PoolSize - 1
  <2>1. CASE PoolFull
    <3>1. n \in 1..n
      <4>1. n \in Nat /\ n + 1 > PoolSize
        BY <1>1, <1>4, <2>1
      <4> HIDE DEF n
      <4> QED
        BY <1>2, <4>1
    <3> QED
      BY <1>3, <2>1, <3>1
  <2>2. CASE ~PoolFull
    <3>1. nextIdx \in 0..PoolSize /\ nextIdx < PoolSize /\ x = nextIdx
      BY <1>1, <1>4, <2>2
    <3> HIDE DEF x, n, m
    <3> QED
      BY <1>2, <3>1
  <2> QED
    BY <2>1, <2>2
<1>6. /\ pool' = [pool EXCEPT ![x] = k] /\ keys' = Inserted(k, x)
      /\ nextIdx' = IF PoolFull THEN nextIdx ELSE nextIdx + 1
  BY DEF InsertToCache
<1>7. PoolFull => x = keys[n].idx
  OBVIOUS
<1>8. ~PoolFull => x = nextIdx
  OBVIOUS
<1> HIDE DEF x
<1>9. /\ keys' \in Seq(Key) /\ m = (IF n < LruMax THEN n + 1 ELSE LruMax)
      /\ \A j \in 1..m : keys'[j] = IF j = 1 THEN [name |-> k, idx |-> x] ELSE keys[j - 1]
  BY <1>1, <1>5, <1>6, InsertedFacts
<1>10. pool' \in [0..PoolSize - 1 -> Names] /\ pool'[x] = k
  BY <1>1, <1>5, <1>6
<1>11. /\ nextIdx' \in Nat /\ nextIdx' <= PoolSize /\ m \in Nat /\ m <= LruMax /\ m >= 1 /\ m <= n + 1
       /\ PoolSize <= LruMax => (nextIdx' < PoolSize => m = nextIdx') /\ (nextIdx' = PoolSize => m >= PoolSize)
       /\ LruMax <= PoolSize => m <= nextIdx'
       /\ LruMax <= PoolSize /\ n + 1 > PoolSize => n = PoolSize /\ m = n /\ nextIdx = PoolSize
  <2>1. /\ nextIdx \in Nat /\ nextIdx <= PoolSize /\ nextIdx' \in Nat /\ m \in Nat
        /\ n + 1 > PoolSize => nextIdx' = nextIdx
        /\ n + 1 <= PoolSize => nextIdx < PoolSize /\ nextIdx' = nextIdx + 1
    <3>1. m \in Nat
      BY <1>9
    <3> HIDE DEF m, n
    <3> QED
      BY <1>1, <1>2, <1>4, <1>6, <3>1
  <2>2. /\ PoolSize <= LruMax => (nextIdx < PoolSize => n = nextIdx) /\ (nextIdx = PoolSize => n >= PoolSize)
        /\ LruMax <= PoolSize => n <= nextIdx
    BY <1>1 DEF MapCoversPool, PoolCoversMap
  <2> HIDE DEF m, n
  <2> QED
    BY <1>1, <1>2, <1>9, <2>1, <2>2, InsertCounts
<1>12. ASSUME PoolCoversMap PROVE Coherent(keys', pool', nextIdx')
  <2>0. Coherent(keys, pool, nextIdx) /\ n <= nextIdx /\ LruMax <= PoolSize
    BY <1>1, <1>12 DEF PoolCoversMap
  <2>1. ASSUME NEW j \in 2..m
        PROVE  /\ keys'[j] = keys[j - 1] /\ keys[j - 1].name # k /\ keys[j - 1].idx # x
               /\ pool'[keys[j - 1].idx] = pool[keys[j - 1].idx]
    <3>1. j \in 1..m /\ j # 1 /\ j - 1 \in 1..n /\ (PoolFull => j - 1 # n)
      <4> HIDE DEF m, n
      <4> QED
        BY <1>1, <1>4, <1>11, <2>0
    <3>2. keys[j - 1].idx \in 0..PoolSize - 1 /\ keys[j - 1].name # k /\ keys'[j] = keys[j - 1]
      BY <1>3, <1>9, <3>1
    <3>3. keys[j - 1].idx # x
      <4>1. CASE PoolFull
        <5>1. n \in 1..n
          <6>1. n \in Nat /\ j - 1 \in 1..n
            BY <1>1, <3>1
          <6> HIDE DEF n, m
          <6> QED
            BY <6>1
        <5> QED
          BY <1>7, <2>0, <3>1, <4>1, <5>1 DEF Coherent
      <4>2. CASE ~PoolFull
        <5>1. keys[j - 1].idx < nextIdx
          BY <2>0, <3>1 DEF Coherent
        <5> QED
          <6>1. x = nextIdx /\ nextIdx \in 0..PoolSize /\ keys[j - 1].idx \in 0..PoolSize - 1
            BY <1>1, <1>8, <3>2, <4>2
          <6> HIDE DEF n, m
          <6> QED
            BY <1>2, <5>1, <6>1
      <4> QED
        BY <4>1, <4>2
    <3> QED
      BY <1>1, <1>6, <3>2, <3>3
  <2>2. keys'[1] = [name |-> k, idx |-> x]
    <3>1. 1 \in 1..m
      BY <1>11
    <3> QED
      BY <1>9, <3>1
  <2>3. Extended(keys, keys', k, x, pool, pool')
    <3>1. m \in 1..n + 1
      <4> HIDE DEF m, n
      <4> QED
        BY <1>1, <1>11
    <3> QED
      BY <1>10, <2>1, <2>2, <3>1 DEF Extended
  <2>4. x \in Nat /\ x < nextIdx' /\ nextIdx <= nextIdx' /\ nextIdx \in Nat /\ nextIdx' \in Nat
    <3> HIDE DEF m, n
    <3> QED
      BY <1>1, <1>2, <1>4, <1>5, <1>6, <1>8, <1>11, <2>0
  <2> QED
    BY <1>1, <1>9, <2>0, <2>3, <2>4, AddKeeps
<1>13. /\ MapCoversPool' <=> PoolSize <= LruMax
       /\ PoolCoversMap' <=> PoolCoversMap
       /\ PoolCoversMap <=> LruMax <= PoolSize
  BY DEF MapCoversPool, PoolCoversMap
<1>14. nextIdx' \in 0..PoolSize
  BY <1>2, <1>11
<1> QED
  BY <1>9, <1>10, <1>11, <1>12, <1>13, <1>14 DEF CacheInv

----------------------------------------------------------------------------
(* Requests: what the steps of the decoder do to one. *)

ChunkEntry == [chunk : Chunks, slot : Nat]

SlotMaps == UNION {[D -> Nat] : D \in SUBSET Containers}

RequestRecord ==
  [ids : Seq(Containers), map : SlotMaps,
   query : Seq(Chunks), recs : Seq(ChunkEntry), bases : Seq(ChunkEntry)]

\* Entry e names a slot of ids, and that of its chunk's container.
SlotOf(e, ids) == e.slot < Len(ids) /\ ids[e.slot + 1] = AddrOf(e.chunk).container

\* The map and the entries of a request point at the right names.
Linked(r) ==
  /\ \A k \in DOMAIN r.map : r.map[k] \in Nat /\ r.map[k] < Len(r.ids) /\ r.ids[r.map[k] + 1] = k
  /\ \A i \in 1..Len(r.recs) : SlotOf(r.recs[i], r.ids)
  /\ \A i \in 1..Len(r.bases) : SlotOf(r.bases[i], r.ids)

Sound(r) == r \in RequestRecord /\ Linked(r)

\* What the index says of a chunk.
LEMMA AddrFacts ==
  ASSUME NEW c \in Chunks
  PROVE  /\ AddrOf(c).container = ContainerOf[c] /\ ContainerOf[c] \in Containers
         /\ AddrOf(c).base = BaseOf[c]
         /\ BaseOf[c] # NoChunk => BaseOf[c] \in Chunks
  BY StoreAssumption DEF AddrOf

\* A name that is appended disturbs no slot.
LEMMA SlotKept ==
  ASSUME NEW ids \in Seq(Containers), NEW k \in Containers, NEW e \in ChunkEntry, SlotOf(e, ids)
  PROVE  SlotOf(e, Append(ids, k))
  BY DEF SlotOf, ChunkEntry

\* A container has a slot after AddContainer, old or new.
LEMMA AddFacts ==
  ASSUME NEW r, Sound(r), NEW k \in Containers
  PROVE  LET a == AddContainer(r, k)
         IN  /\ Sound(a) /\ k \in DOMAIN a.map
             /\ Len(a.ids) \in {Len(r.ids), Len(r.ids) + 1}
             /\ a.query = r.query /\ a.recs = r.recs /\ a.bases = r.bases
<1>0. /\ r.ids \in Seq(Containers) /\ r.map \in SlotMaps
      /\ r.query \in Seq(Chunks) /\ r.recs \in Seq(ChunkEntry) /\ r.bases \in Seq(ChunkEntry)
      /\ r = [ids |-> r.ids, map |-> r.map, query |-> r.query, recs |-> r.recs, bases |-> r.bases]
  BY DEF Sound, RequestRecord
<1>1. CASE k \in DOMAIN r.map
  BY <1>1 DEF AddContainer
<1>2. CASE k \notin DOMAIN r.map
  <2> DEFINE m == [x \in DOMAIN r.map \cup {k} |-> IF x = k THEN Len(r.ids) ELSE r.map[x]]
             a == AddContainer(r, k)
             ids == Append(r.ids, k)
  <2>1. a = [ids |-> ids, map |-> m, query |-> r.query, recs |-> r.recs, bases |-> r.bases]
    BY <1>0, <1>2 DEF AddContainer
  <2>2. /\ ids \in Seq(Containers) /\ Len(ids) = Len(r.ids) + 1 /\ Len(r.ids) \in Nat
        /\ \A j \in 1..Len(r.ids) : ids[j] = r.ids[j]
        /\ ids[Len(r.ids) + 1] = k
    BY <1>0
  <2>3. /\ m \in SlotMaps /\ DOMAIN m = DOMAIN r.map \cup {k}
        /\ \A x \in DOMAIN m : m[x] = IF x = k THEN Len(r.ids) ELSE r.map[x]
    <3>1. DOMAIN r.map \cup {k} \in SUBSET Containers
      BY <1>0 DEF SlotMaps
    <3>2. m \in [DOMAIN r.map \cup {k} -> Nat]
      BY <1>0, <2>2 DEF SlotMaps
    <3> QED
      BY <3>1, <3>2 DEF SlotMaps
  <2> HIDE DEF m, ids
  <2>4. a \in RequestRecord
    BY <1>0, <2>1, <2>2, <2>3 DEF RequestRecord
  <2>5. \A x \in DOMAIN m : m[x] \in Nat /\ m[x] < Len(ids) /\ ids[m[x] + 1] = x
    <3> TAKE x \in DOMAIN m
    <3>1. CASE x = k
      BY <2>2, <2>3, <3>1
    <3>2. CASE x # k
      <4>1. r.map[x] \in Nat /\ r.map[x] < Len(r.ids) /\ r.ids[r.map[x] + 1] = x /\ m[x] = r.map[x]
        BY <2>3, <3>2 DEF Sound, Linked
      <4>2. m[x] + 1 \in 1..Len(r.ids)
        BY <2>2, <4>1
      <4> QED
        BY <2>2, <4>1, <4>2
    <3> QED
      BY <3>1, <3>2
  <2>6. \A s \in {r.recs, r.bases} : \A i \in 1..Len(s) : SlotOf(s[i], ids)
    <3>1. \A s \in {r.recs, r.bases} : \A i \in 1..Len(s) : s[i] \in ChunkEntry /\ SlotOf(s[i], r.ids)
      BY <1>0 DEF Sound, Linked
    <3> QED
      BY <1>0, <3>1, SlotKept DEF ids
  <2>7. Linked(a)
    BY <2>1, <2>5, <2>6 DEF Linked
  <2> QED
    BY <2>1, <2>2, <2>3, <2>4, <2>7 DEF Sound
<1> QED
  BY <1>1, <1>2

\* Counting deltas entry by entry.
LEMMA DeltaCount ==
  ASSUME NEW s, NEW i \in Nat
  PROVE  /\ DeltasAmong(s, i) \in Nat
         /\ DeltasAmong(s, 0) = 0
         /\ DeltasAmong(s, i + 1) = IF IsDelta(s[i + 1]) THEN DeltasAmong(s, i) + 1 ELSE DeltasAmong(s, i)
<1> DEFINE D(n) == {j \in 1..n : IsDelta(s[j])}
<1>1. IsFiniteSet(D(i)) /\ Cardinality(D(i)) \in Nat
  <2>1. IsFiniteSet(1..i) /\ D(i) \subseteq 1..i
    BY FS_Interval
  <2>2. IsFiniteSet(D(i))
    BY <2>1, FS_Subset
  <2> QED
    BY <2>2, FS_CardinalityType
<1>2. Cardinality(D(0)) = 0
  <2>1. D(0) = {}
    OBVIOUS
  <2> QED
    BY <2>1, FS_EmptySet
<1>3. CASE IsDelta(s[i + 1])
  <2>1. D(i + 1) = D(i) \cup {i + 1} /\ i + 1 \notin D(i)
    BY <1>3
  <2> HIDE DEF D
  <2>2. Cardinality(D(i + 1)) = Cardinality(D(i)) + 1
    BY <1>1, <2>1, FS_AddElement
  <2> QED
    BY <1>1, <1>2, <1>3, <2>2 DEF DeltasAmong, D
<1>4. CASE ~IsDelta(s[i + 1])
  <2>1. D(i + 1) = D(i)
    BY <1>4
  <2> QED
    BY <1>1, <1>2, <1>4, <2>1 DEF DeltasAmong
<1> QED
  BY <1>3, <1>4

\* A longer prefix has at least as many deltas.
LEMMA DeltaMonotone ==
  ASSUME NEW s, NEW i \in Nat, NEW j \in Nat, i <= j
  PROVE  DeltasAmong(s, i) <= DeltasAmong(s, j)
<1> DEFINE D(n) == {x \in 1..n : IsDelta(s[x])}
<1>1. IsFiniteSet(D(j))
  <2>1. IsFiniteSet(1..j) /\ D(j) \subseteq 1..j
    BY FS_Interval
  <2> QED
    BY <2>1, FS_Subset
<1>2. D(i) \subseteq D(j)
  OBVIOUS
<1> HIDE DEF D
<1>3. Cardinality(D(i)) <= Cardinality(D(j))
  BY <1>1, <1>2, FS_Subset
<1> QED
  BY <1>3 DEF DeltasAmong, D

\* The count looks at the prefix only.
LEMMA DeltaPrefix ==
  ASSUME NEW s, NEW t, NEW i \in Nat, \A j \in 1..i : s[j] = t[j]
  PROVE  DeltasAmong(s, i) = DeltasAmong(t, i)
<1>1. {j \in 1..i : IsDelta(s[j])} = {j \in 1..i : IsDelta(t[j])}
  OBVIOUS
<1> QED
  BY <1>1 DEF DeltasAmong

\* The place of a delta among the deltas is one of the places.
LEMMA DeltaPlace ==
  ASSUME NEW s, NEW n \in Nat, NEW i \in 1..n, IsDelta(s[i])
  PROVE  DeltasAmong(s, i) \in 1..DeltasAmong(s, n)
<1>1. i - 1 \in Nat /\ i \in Nat /\ (i - 1) + 1 = i /\ i <= n
  OBVIOUS
<1>2. /\ DeltasAmong(s, i - 1) \in Nat
      /\ DeltasAmong(s, (i - 1) + 1) = DeltasAmong(s, i - 1) + 1
  BY <1>1, DeltaCount
<1>3. DeltasAmong(s, i) = DeltasAmong(s, i - 1) + 1
  BY <1>1, <1>2
<1>4. DeltasAmong(s, i) <= DeltasAmong(s, n) /\ DeltasAmong(s, n) \in Nat
  BY <1>1, DeltaMonotone, DeltaCount
<1> QED
  BY <1>2, <1>3, <1>4

\* The fields of a sound request.
LEMMA SoundFields ==
  ASSUME NEW r, Sound(r)
  PROVE  /\ r.ids \in Seq(Containers) /\ r.map \in SlotMaps
         /\ r.query \in Seq(Chunks) /\ r.recs \in Seq(ChunkEntry) /\ r.bases \in Seq(ChunkEntry)
         /\ r = [ids |-> r.ids, map |-> r.map, query |-> r.query, recs |-> r.recs, bases |-> r.bases]
         /\ Len(r.ids) \in Nat /\ Len(r.query) \in Nat /\ Len(r.recs) \in Nat /\ Len(r.bases) \in Nat
         /\ DOMAIN r.recs = 1..Len(r.recs) /\ DOMAIN r.bases = 1..Len(r.bases)
  BY DEF Sound, RequestRecord

\* The base of a delta joins the query; nothing else changes.
LEMMA QueueFacts ==
  ASSUME NEW r, Sound(r), NEW c \in Chunks
  PROVE  LET q == QueueBase(r, AddrOf(c).base)
         IN  /\ Sound(q) /\ q.ids = r.ids /\ q.recs = r.recs /\ q.bases = r.bases
             /\ q.query = IF AddrOf(c).base = NoChunk THEN r.query ELSE Append(r.query, AddrOf(c).base)
<1>1. CASE AddrOf(c).base = NoChunk
  BY <1>1 DEF QueueBase
<1>2. CASE AddrOf(c).base # NoChunk
  <2> DEFINE b == AddrOf(c).base
             q == QueueBase(r, b)
  <2>1. b \in Chunks
    BY <1>2, AddrFacts
  <2>2. q = [ids |-> r.ids, map |-> r.map, query |-> Append(r.query, b), recs |-> r.recs, bases |-> r.bases]
    <3>1. r = [ids |-> r.ids, map |-> r.map, query |-> r.query, recs |-> r.recs, bases |-> r.bases]
      BY SoundFields
    <3> QED
      BY <1>2, <3>1 DEF QueueBase
  <2> HIDE DEF b
  <2>3. q \in RequestRecord
    BY <2>1, <2>2, SoundFields DEF RequestRecord
  <2>4. Linked(q)
    BY <2>2 DEF Linked, Sound
  <2> QED
    BY <1>2, <2>2, <2>3, <2>4 DEF Sound, b
<1> QED
  BY <1>1, <1>2

\* A recipe entry is added with a slot for its container.
LEMMA PushEntryFacts ==
  ASSUME NEW r, Sound(r), NEW c \in Chunks
  PROVE  LET p == PushEntry(r, c)
         IN  /\ Sound(p)
             /\ Len(p.ids) \in {Len(r.ids), Len(r.ids) + 1}
             /\ p.query = IF AddrOf(c).base = NoChunk THEN r.query ELSE Append(r.query, AddrOf(c).base)
             /\ p.bases = r.bases
             /\ \E x \in Nat : p.recs = Append(r.recs, [chunk |-> c, slot |-> x])
<1> DEFINE q == QueueBase(r, AddrOf(c).base)
           k == AddrOf(c).container
           a == AddContainer(q, k)
           p == PushEntry(r, c)
           e == [chunk |-> c, slot |-> a.map[k]]
<1>1. /\ Sound(q) /\ q.ids = r.ids /\ q.recs = r.recs /\ q.bases = r.bases
      /\ q.query = IF AddrOf(c).base = NoChunk THEN r.query ELSE Append(r.query, AddrOf(c).base)
  BY QueueFacts
<1>2. k \in Containers
  BY AddrFacts
<1>3. p = [a EXCEPT !.recs = Append(@, e)]
  BY DEF PushEntry
<1> HIDE DEF q, p
<1>4. /\ Sound(a) /\ k \in DOMAIN a.map
      /\ Len(a.ids) \in {Len(q.ids), Len(q.ids) + 1}
      /\ a.query = q.query /\ a.recs = q.recs /\ a.bases = q.bases
  BY <1>1, <1>2, AddFacts
<1> HIDE DEF a
<1>5. a.map[k] \in Nat /\ a.map[k] < Len(a.ids) /\ a.ids[a.map[k] + 1] = k
  BY <1>4 DEF Sound, Linked
<1>6. e \in ChunkEntry /\ SlotOf(e, a.ids)
  BY <1>5 DEF ChunkEntry, SlotOf
<1>7. p = [ids |-> a.ids, map |-> a.map, query |-> a.query, recs |-> Append(a.recs, e), bases |-> a.bases]
  <2>1. a = [ids |-> a.ids, map |-> a.map, query |-> a.query, recs |-> a.recs, bases |-> a.bases]
    BY <1>4, SoundFields
  <2> HIDE DEF e
  <2> QED
    BY <1>3, <2>1
<1>8. e.chunk = c /\ e.slot \in Nat /\ e = [chunk |-> c, slot |-> e.slot]
  BY <1>5
<1> HIDE DEF e
<1>9. p \in RequestRecord
  BY <1>4, <1>6, <1>7, SoundFields DEF RequestRecord
<1>10. \A i \in 1..Len(Append(a.recs, e)) : SlotOf(Append(a.recs, e)[i], a.ids)
  <2>1. /\ a.recs \in Seq(ChunkEntry) /\ Len(a.recs) \in Nat
        /\ \A i \in 1..Len(a.recs) : SlotOf(a.recs[i], a.ids)
    BY <1>4, SoundFields DEF Sound, Linked
  <2> QED
    BY <1>6, <2>1
<1>11. Linked(p)
  BY <1>4, <1>7, <1>10 DEF Linked, Sound
<1> QED
  BY <1>1, <1>4, <1>7, <1>8, <1>9, <1>11 DEF Sound, p

\* A parsed entry keeps deltas and bases in step.
LEMMA PushEntryInStep ==
  ASSUME NEW r, Sound(r), InStep(r), NEW c \in Chunks
  PROVE  InStep(PushEntry(r, c))
<1> DEFINE p == PushEntry(r, c)
           n == Len(r.recs)
           lb == Len(r.bases)
           lq == Len(r.query)
           b == AddrOf(c).base
<1>1. /\ Sound(p) /\ p.bases = r.bases
      /\ p.query = IF b = NoChunk THEN r.query ELSE Append(r.query, b)
  BY PushEntryFacts
<1>2. PICK x \in Nat : p.recs = Append(r.recs, [chunk |-> c, slot |-> x])
  BY PushEntryFacts
<1> DEFINE e == [chunk |-> c, slot |-> x]
<1> HIDE DEF p
<1>3. /\ r.recs \in Seq(ChunkEntry) /\ n \in Nat /\ r.query \in Seq(Chunks) /\ r.bases \in Seq(ChunkEntry)
      /\ lq \in Nat /\ lb \in Nat
  BY SoundFields
<1> HIDE DEF lb, lq
<1>4. e \in ChunkEntry /\ e.chunk = c
  BY DEF ChunkEntry
<1> HIDE DEF e
<1>5. /\ Len(p.recs) = n + 1 /\ DOMAIN p.recs = 1..n + 1
      /\ p.recs[n + 1] = e /\ \A i \in 1..n : p.recs[i] = r.recs[i]
  BY <1>2, <1>3, <1>4 DEF e
<1>6. \A i \in 0..n : DeltasAmong(p.recs, i) = DeltasAmong(r.recs, i)
  BY <1>3, <1>5, DeltaPrefix
<1>7. /\ DeltasAmong(r.recs, n) \in Nat
      /\ DeltasAmong(p.recs, n + 1) = IF b # NoChunk THEN DeltasAmong(r.recs, n) + 1 ELSE DeltasAmong(r.recs, n)
  <2>1. IsDelta(p.recs[n + 1]) <=> b # NoChunk
    BY <1>4, <1>5 DEF IsDelta
  <2>2. DeltasAmong(p.recs, n + 1) = IF IsDelta(p.recs[n + 1]) THEN DeltasAmong(p.recs, n) + 1 ELSE DeltasAmong(p.recs, n)
    BY <1>3, DeltaCount
  <2>3. DeltasAmong(p.recs, n) = DeltasAmong(r.recs, n)
    BY <1>3, <1>6
  <2>4. DeltasAmong(r.recs, n) \in Nat
    BY <1>3, DeltaCount
  <2> QED
    BY <2>1, <2>2, <2>3, <2>4
<1>8. DeltasAmong(r.recs, n) = lb + lq
  BY DEF InStep, lb, lq
<1>9. b # NoChunk => b \in Chunks
  BY AddrFacts
<1>10. /\ Len(p.query) = IF b = NoChunk THEN lq ELSE lq + 1
       /\ \A j \in 1..lq : p.query[j] = r.query[j]
       /\ b # NoChunk => p.query[lq + 1] = b
  BY <1>1, <1>3, <1>9 DEF lb, lq
<1>11. DeltasAmong(p.recs, Len(p.recs)) = Len(p.bases) + Len(p.query)
  <2>1. DeltasAmong(p.recs, Len(p.recs)) = DeltasAmong(p.recs, n + 1) /\ Len(p.bases) = lb
    BY <1>1, <1>5 DEF lb, lq
  <2>2. CASE b = NoChunk
    BY <1>3, <1>7, <1>8, <1>10, <2>1, <2>2
  <2>3. CASE b # NoChunk
    BY <1>3, <1>7, <1>8, <1>10, <2>1, <2>3
  <2> QED
    BY <2>2, <2>3
<1>12. \A m \in 1..lb + lq : BaseNo(p, m) = BaseNo(r, m)
  <2> TAKE m \in 1..lb + lq
  <2>1. p.bases = r.bases
    BY <1>1
  <2>2. CASE m <= lb
    BY <2>1, <2>2 DEF BaseNo, lb, lq
  <2>3. CASE ~(m <= lb)
    <3>1. m - lb \in 1..lq
      BY <1>3, <2>3
    <3> QED
      BY <1>10, <2>1, <2>3, <3>1 DEF BaseNo, lb, lq
  <2> QED
    BY <2>2, <2>3
<1>13. ASSUME NEW i \in 1..n, IsDelta(p.recs[i])
       PROVE  BaseNo(p, DeltasAmong(p.recs, i)) = AddrOf(p.recs[i].chunk).base
  <2>1. IsDelta(r.recs[i]) /\ p.recs[i] = r.recs[i] /\ DeltasAmong(p.recs, i) = DeltasAmong(r.recs, i)
    BY <1>3, <1>5, <1>6, <1>13
  <2>2. DeltasAmong(r.recs, i) \in 1..DeltasAmong(r.recs, n)
    BY <1>3, <2>1, DeltaPlace
  <2>3. BaseNo(r, DeltasAmong(r.recs, i)) = AddrOf(r.recs[i].chunk).base
    BY <1>3, <2>1, SoundFields DEF InStep
  <2> QED
    BY <1>8, <1>12, <2>1, <2>2, <2>3
<1>14. ASSUME IsDelta(p.recs[n + 1])
       PROVE  BaseNo(p, DeltasAmong(p.recs, n + 1)) = AddrOf(p.recs[n + 1].chunk).base
  <2>1. b # NoChunk /\ AddrOf(p.recs[n + 1].chunk).base = b
    BY <1>4, <1>5, <1>14 DEF IsDelta
  <2>2. DeltasAmong(p.recs, n + 1) = lb + lq + 1
    BY <1>3, <1>7, <1>8, <2>1
  <2>3. BaseNo(p, lb + lq + 1) = p.query[lq + 1]
    <3>1. /\ ~(lb + lq + 1 <= lb)
          /\ (lb + lq + 1) - lb = lq + 1
      BY <1>3
    <3>2. p.bases = r.bases
      BY <1>1
    <3> QED
      BY <3>1, <3>2 DEF BaseNo, lb, lq
  <2> QED
    BY <1>10, <2>1, <2>2, <2>3
<1>15. ASSUME NEW i \in 1..n + 1 PROVE i \in 1..n \/ i = n + 1
  BY <1>3
<1>16. InStep(p)
  BY <1>5, <1>11, <1>13, <1>14, <1>15 DEF InStep
<1> QED
  BY <1>16 DEF p

\* A queried base gets a slot and an entry, and leaves the query.
LEMMA PushBaseFacts ==
  ASSUME NEW r, Sound(r), r.query # <<>>
  PROVE  LET p == PushBase(r)
         IN  /\ Sound(p)
             /\ Len(p.ids) \in {Len(r.ids), Len(r.ids) + 1}
             /\ p.query = Tail(r.query) /\ p.recs = r.recs
             /\ \E x \in Nat : p.bases = Append(r.bases, [chunk |-> Head(r.query), slot |-> x])
<1> DEFINE b == Head(r.query)
           k == AddrOf(b).container
           a == AddContainer(r, k)
           e == [chunk |-> b, slot |-> a.map[k]]
           p == PushBase(r)
<1>1. b \in Chunks /\ Tail(r.query) \in Seq(Chunks)
  BY SoundFields
<1>2. k \in Containers
  BY <1>1, AddrFacts
<1>3. p = [a EXCEPT !.query = Tail(@), !.bases = Append(@, e)]
  BY DEF PushBase
<1> HIDE DEF p, b
<1>4. /\ Sound(a) /\ k \in DOMAIN a.map
      /\ Len(a.ids) \in {Len(r.ids), Len(r.ids) + 1}
      /\ a.query = r.query /\ a.recs = r.recs /\ a.bases = r.bases
  BY <1>2, AddFacts
<1> HIDE DEF a
<1>5. a.map[k] \in Nat /\ a.map[k] < Len(a.ids) /\ a.ids[a.map[k] + 1] = k
  BY <1>4 DEF Sound, Linked
<1>6. e \in ChunkEntry /\ SlotOf(e, a.ids)
  BY <1>1, <1>5 DEF ChunkEntry, SlotOf
<1>7. p = [ids |-> a.ids, map |-> a.map, query |-> Tail(a.query), recs |-> a.recs, bases |-> Append(a.bases, e)]
  <2>1. a = [ids |-> a.ids, map |-> a.map, query |-> a.query, recs |-> a.recs, bases |-> a.bases]
    BY <1>4, SoundFields
  <2> HIDE DEF e
  <2> QED
    BY <1>3, <2>1
<1>8. e.chunk = b /\ e.slot \in Nat /\ e = [chunk |-> b, slot |-> e.slot]
  BY <1>5
<1> HIDE DEF e
<1>9. p \in RequestRecord
  BY <1>1, <1>4, <1>6, <1>7, SoundFields DEF RequestRecord
<1>10. \A i \in 1..Len(Append(a.bases, e)) : SlotOf(Append(a.bases, e)[i], a.ids)
  <2>1. /\ a.bases \in Seq(ChunkEntry) /\ Len(a.bases) \in Nat
        /\ \A i \in 1..Len(a.bases) : SlotOf(a.bases[i], a.ids)
    BY <1>4, SoundFields DEF Sound, Linked
  <2> QED
    BY <1>6, <2>1
<1>11. Linked(p)
  BY <1>4, <1>7, <1>10 DEF Linked, Sound
<1> QED
  BY <1>4, <1>7, <1>8, <1>9, <1>11 DEF Sound, p, b

\* Answering a query keeps deltas and bases in step: the base only moves.
LEMMA PushBaseInStep ==
  ASSUME NEW r, Sound(r), InStep(r), r.query # <<>>
  PROVE  InStep(PushBase(r))
<1> DEFINE p == PushBase(r)
           n == Len(r.recs)
           lb == Len(r.bases)
           lq == Len(r.query)
<1>1. Sound(p) /\ p.query = Tail(r.query) /\ p.recs = r.recs
  BY PushBaseFacts
<1>2. PICK x \in Nat : p.bases = Append(r.bases, [chunk |-> Head(r.query), slot |-> x])
  BY PushBaseFacts
<1> DEFINE e == [chunk |-> Head(r.query), slot |-> x]
<1> HIDE DEF p
<1>3. /\ r.query \in Seq(Chunks) /\ r.bases \in Seq(ChunkEntry) /\ Head(r.query) \in Chunks /\ n \in Nat
      /\ lq \in Nat /\ lb \in Nat /\ lq > 0
  BY SoundFields
<1> HIDE DEF lb, lq
<1>4. e \in ChunkEntry /\ e.chunk = r.query[1]
  BY <1>3 DEF ChunkEntry
<1> HIDE DEF e
<1>5. /\ Len(p.bases) = lb + 1 /\ p.bases[lb + 1] = e
      /\ \A i \in 1..lb : p.bases[i] = r.bases[i]
  BY <1>2, <1>3, <1>4 DEF e, lb, lq
<1>6. Len(p.query) = lq - 1 /\ \A i \in 1..lq - 1 : p.query[i] = r.query[i + 1]
  BY <1>1, <1>3 DEF lb, lq
<1>7. ASSUME NEW m \in 1..lb + lq PROVE BaseNo(p, m) = BaseNo(r, m)
  <2>1. CASE m <= lb
    <3>1. m \in 1..lb /\ m <= lb + 1
      BY <1>3, <2>1
    <3> QED
      BY <1>5, <2>1, <3>1 DEF BaseNo, lb, lq
  <2>2. CASE m = lb + 1
    <3>1. ~(m <= lb) /\ m - lb = 1 /\ m <= Len(p.bases)
      BY <1>3, <1>5, <2>2
    <3> QED
      BY <1>4, <1>5, <2>2, <3>1 DEF BaseNo, lb, lq
  <2>3. CASE m > lb + 1
    <3>1. /\ ~(m <= lb) /\ ~(m <= lb + 1)
          /\ m - (lb + 1) \in 1..lq - 1
          /\ (m - (lb + 1)) + 1 = m - lb
      BY <1>3, <2>3
    <3>2. Len(p.bases) = lb + 1
      BY <1>5
    <3> QED
      BY <1>6, <3>1, <3>2 DEF BaseNo, lb, lq
  <2> QED
    BY <1>3, <2>1, <2>2, <2>3
<1>8. DeltasAmong(r.recs, n) = lb + lq
  BY DEF InStep, lb, lq
<1>9. DeltasAmong(p.recs, Len(p.recs)) = Len(p.bases) + Len(p.query)
  <2>1. DeltasAmong(p.recs, Len(p.recs)) = DeltasAmong(r.recs, n)
    BY <1>1
  <2>2. (lb + 1) + (lq - 1) = lb + lq
    BY <1>3
  <2> QED
    BY <1>5, <1>6, <1>8, <2>1, <2>2
<1>10. ASSUME NEW i \in 1..n, IsDelta(r.recs[i])
       PROVE  BaseNo(p, DeltasAmong(r.recs, i)) = AddrOf(r.recs[i].chunk).base
  <2>1. DeltasAmong(r.recs, i) \in 1..DeltasAmong(r.recs, n)
    BY <1>3, <1>10, DeltaPlace
  <2>2. BaseNo(r, DeltasAmong(r.recs, i)) = AddrOf(r.recs[i].chunk).base
    BY <1>3, <1>10, SoundFields DEF InStep
  <2> QED
    BY <1>7, <1>8, <2>1, <2>2
<1>11. DOMAIN p.recs = 1..n
  BY <1>1, SoundFields
<1>12. InStep(p)
  BY <1>1, <1>9, <1>10, <1>11 DEF InStep
<1> QED
  BY <1>12 DEF p

\* An empty request, and one whose container map is forgotten.
LEMMA EmptyFacts == Sound(NoRequest) /\ InStep(NoRequest) /\ Len(NoRequest.ids) = 0 /\ NoRequest.query = <<>>
<1>1. NoRequest \in RequestRecord /\ Linked(NoRequest)
  BY DEF NoRequest, RequestRecord, SlotMaps, Linked
<1>2. DeltasAmong(<<>>, 0) = 0
  BY DeltaCount
<1>3. InStep(NoRequest)
  BY <1>2 DEF NoRequest, InStep
<1> QED
  BY <1>1, <1>3 DEF Sound, NoRequest

LEMMA ForgetFacts ==
  ASSUME NEW r, Sound(r), InStep(r)
  PROVE  LET f == [r EXCEPT !.map = <<>>]
         IN  /\ Sound(f) /\ InStep(f)
             /\ f.ids = r.ids /\ f.query = r.query /\ f.recs = r.recs /\ f.bases = r.bases
<1> DEFINE f == [r EXCEPT !.map = <<>>]
<1>1. f = [ids |-> r.ids, map |-> <<>>, query |-> r.query, recs |-> r.recs, bases |-> r.bases]
  <2>1. r = [ids |-> r.ids, map |-> r.map, query |-> r.query, recs |-> r.recs, bases |-> r.bases]
    BY SoundFields
  <2> QED
    BY <2>1
<1> HIDE DEF f
<1>2. <<>> \in SlotMaps
  BY DEF SlotMaps
<1>3. f \in RequestRecord
  BY <1>1, <1>2, SoundFields DEF RequestRecord
<1>4. Linked(f)
  BY <1>1 DEF Linked, Sound
<1>5. InStep(f)
  BY <1>1 DEF InStep, BaseNo
<1> QED
  BY <1>1, <1>3, <1>4, <1>5 DEF Sound, f

----------------------------------------------------------------------------
(* The inductive invariant. *)

SessTypes ==
  /\ recipe \in Recipes /\ rpos \in 0..Len(recipe) + 1
  /\ hpc \in {"respond", "join"}
  /\ cpc \in {"login", "recv", "push", "finished", "count", "checked", "exit"}
  /\ spc \in {"ready", "read", "scan", "full", "resolve", "fetch", "decode", "tail", "close", "over",
             "overrun"}
  /\ ready \in BOOLEAN

\* The decoder thread shares the recipe file with the session thread, and
\* reads it only after the client has answered the login response.
HandInv ==
  /\ SessTypes
  /\ hpc = "respond" => rpos = 0 /\ cpc = "login" /\ chan = <<>>
  /\ hpc = "join" => rpos >= 1
  /\ cpc = "login" => spc = "ready" /\ ~ready
  /\ cpc = "login" /\ hpc = "join" => rpos = 1 /\ chan = <<[type |-> "LOGIN", data |-> <<FileHead>>]>>
  /\ cpc # "login" => total = Len(recipe)
  /\ cpc # "login" /\ spc = "ready" => ready /\ chan = <<>>
  /\ ready => spc = "ready"

\* The request between two steps of the decoder.
RequestInv ==
  /\ Sound(req) /\ InStep(req)
  /\ Len(req.ids) + Len(req.query) <= Cap + 1 /\ Len(req.query) <= QueryMax
  /\ spc \in {"ready", "read", "scan", "full", "tail"} => Len(req.ids) + Len(req.query) < Cap
  /\ spc \in {"resolve", "fetch", "decode"} => req.recs # <<>>
  /\ spc \in {"fetch", "decode"} => req.query = <<>>

\* The first n buffers hold the first n containers of the request, if what
\* came from the cache is right.
Fetched(n) == PoolCoversMap => \A x \in 0..n - 1 : arr[x] = req.ids[x + 1]

\* Where the loops over the request stand.
LoopInv ==
  /\ batch \in Seq(Chunks) /\ arr \in [Slots -> Names] /\ got \in Nat /\ dec \in Nat /\ bidx \in Nat
  /\ spc = "fetch" => got < Len(req.ids) /\ Fetched(got)
  /\ spc # "fetch" => got = 0
  /\ spc = "decode" => /\ dec < Len(req.recs) /\ bidx = DeltasAmong(req.recs, dec)
                       /\ Fetched(Len(req.ids))
  /\ spc # "decode" => dec = 0 /\ bidx = 0

\* The server is stopped by its pool only if the map drops names too early.
StopInv == MapCoversPool => spc # "overrun"

RestoreInv == HandInv /\ CacheInv /\ RequestInv /\ LoopInv /\ StopInv

\* Reading up to n entries of the recipe file.
LEMMA ReadFacts ==
  ASSUME recipe \in Seq(Chunks), rpos \in 0..Len(recipe) + 1, NEW n \in Nat \ {0}
  PROVE  /\ Len(Read(n)) \in 0..n /\ rpos + Len(Read(n)) <= Len(recipe) + 1
         /\ Len(Read(n)) < n => rpos + Len(Read(n)) = Len(recipe) + 1
         /\ rpos >= 1 => /\ Read(n) \in Seq(Chunks)
                         /\ \A i \in 1..Len(Read(n)) : Read(n)[i] = recipe[rpos - 1 + i]
         /\ rpos = 0 /\ n = 1 => Read(n) = <<FileHead>>
<1> DEFINE S == Chunks \cup {FileHead}
           m == Len(recipe)
           e == IF rpos + n < m + 1 THEN rpos + n ELSE m + 1
<1>1. recipe \in Seq(S) /\ FileHead \in S /\ m \in Nat
  OBVIOUS
<1>2. /\ RecipeFile \in Seq(S) /\ Len(RecipeFile) = m + 1
      /\ \A j \in 1..m + 1 : RecipeFile[j] = IF j = 1 THEN FileHead ELSE recipe[j - 1]
  BY <1>1, ConsFacts DEF RecipeFile
<1>3. Read(n) = SubSeq(RecipeFile, rpos + 1, e)
  BY <1>2 DEF Read
<1>4. \A j \in 1..m : recipe[j] \in Chunks
  BY ElementOfSeq
<1> HIDE DEF S, m
<1>5. e \in Int /\ e <= m + 1 /\ e >= rpos /\ rpos \in Nat /\ e <= rpos + n /\ (e < rpos + n => e = m + 1)
  BY <1>1 DEF m
<1> HIDE DEF e
<1>6. \A j \in rpos + 1..e : RecipeFile[j] \in S
  <2>1. \A j \in rpos + 1..e : j \in 1..m + 1
    BY <1>1, <1>5
  <2> QED
    BY <1>2, <2>1, ElementOfSeq
<1>7. /\ Read(n) \in Seq(S)
      /\ Len(Read(n)) = IF rpos + 1 <= e THEN e - (rpos + 1) + 1 ELSE 0
      /\ \A i \in 1..e - (rpos + 1) + 1 : Read(n)[i] = RecipeFile[rpos + 1 + i - 1]
  BY <1>3, <1>5, <1>6, SubSeqProperties
<1>8. Len(Read(n)) = e - rpos
  BY <1>5, <1>7
<1>9. \A i \in 1..e - rpos : Read(n)[i] = RecipeFile[rpos + i]
  BY <1>5, <1>7
<1>10. /\ Len(Read(n)) \in 0..n /\ rpos + Len(Read(n)) <= m + 1
       /\ Len(Read(n)) < n => rpos + Len(Read(n)) = m + 1
  BY <1>1, <1>5, <1>8
<1>11. ASSUME rpos >= 1
       PROVE  /\ Read(n) \in Seq(Chunks)
              /\ \A i \in 1..Len(Read(n)) : Read(n)[i] = recipe[rpos - 1 + i]
  <2>1. ASSUME NEW i \in 1..e - rpos PROVE Read(n)[i] = recipe[rpos - 1 + i] /\ Read(n)[i] \in Chunks
    <3>1. rpos + i \in 1..m + 1 /\ rpos + i # 1 /\ (rpos + i) - 1 = rpos - 1 + i /\ rpos - 1 + i \in 1..m
      BY <1>1, <1>5, <1>11
    <3> QED
      BY <1>2, <1>4, <1>9, <3>1
  <2>2. Read(n) \in Seq(Chunks)
    <3> DEFINE t == Read(n)
    <3>1. t \in Seq(S) /\ \A i \in 1..Len(t) : t[i] \in Chunks
      BY <1>7, <1>8, <2>1
    <3> HIDE DEF t
    <3>2. t = [i \in 1..Len(t) |-> t[i]] /\ Len(t) \in Nat
      BY <3>1
    <3>3. t \in [1..Len(t) -> Chunks]
      BY <3>1, <3>2
    <3>4. t \in Seq(Chunks)
      BY <3>2, <3>3, SeqDef
    <3> QED
      BY <3>4 DEF t
  <2> QED
    BY <1>8, <2>1, <2>2
<1>12. ASSUME rpos = 0, n = 1 PROVE Read(n) = <<FileHead>>
  <2>1. e = 1
    BY <1>1, <1>5, <1>12
  <2>2. Len(Read(n)) = 1 /\ Read(n)[1] = FileHead
    BY <1>1, <1>2, <1>8, <1>9, <1>12, <2>1
  <2> QED
    BY <1>1, <1>7, <2>2
<1> QED
  BY <1>10, <1>11, <1>12 DEF m

\* The container fetched next has a file.
LEMMA NextContainer ==
  ASSUME RestoreInv, spc = "fetch"
  PROVE  req.ids[got + 1] \in Containers /\ got \in 0..Len(req.ids) - 1 /\ Len(req.ids) \in Nat
<1>1. req.ids \in Seq(Containers) /\ got \in Nat /\ got < Len(req.ids) /\ Len(req.ids) \in Nat
  BY SoundFields DEF RestoreInv, RequestInv, LoopInv
<1>2. got + 1 \in 1..Len(req.ids) /\ got \in 0..Len(req.ids) - 1
  BY <1>1
<1> QED
  BY <1>1, <1>2, ElementOfSeq

\* Handshake and session: the login response precedes every other message.
LEMMA HandStep == RestoreInv /\ [Next]_vars => HandInv'
<1> SUFFICES ASSUME RestoreInv, [Next]_vars PROVE HandInv'
  OBVIOUS
<1>0. HandInv /\ SessTypes /\ recipe \in Seq(Chunks)
  BY StoreAssumption DEF RestoreInv, HandInv, SessTypes
<1> USE <1>0 DEF HandInv, SessTypes, sessVars, decVars, retrVars, cacheVars, writeVars
<1>1. CASE LoginResponse
  <2>1. rpos = 0 /\ Read(1) = <<FileHead>> /\ Len(Read(1)) = 1
    BY <1>1, ReadFacts DEF LoginResponse
  <2>2. /\ rpos' = 1 /\ hpc' = "join" /\ chan = <<>> /\ chan' = Append(chan, [type |-> "LOGIN", data |-> <<FileHead>>])
        /\ UNCHANGED <<recipe, spc, ready, cpc, total>>
    BY <1>1, <2>1 DEF LoginResponse
  <2>3. chan' = <<[type |-> "LOGIN", data |-> <<FileHead>>]>>
    BY <2>2
  <2>4. cpc = "login" /\ spc = "ready" /\ ~ready
    BY <1>1 DEF LoginResponse
  <2>5. Len(recipe) \in Nat
    OBVIOUS
  <2>6. rpos' \in 0..Len(recipe) + 1
    BY <2>2, <2>5
  <2> QED
    BY <2>2, <2>3, <2>4, <2>6
<1>2. CASE RecvReady
  BY <1>2 DEF RecvReady
<1>3. CASE ReadBatch
  <2>0. RecipeBatch \in Nat \ {0}
    BY SizeAssumption
  <2>1. /\ Len(Read(RecipeBatch)) \in 0..RecipeBatch /\ rpos + Len(Read(RecipeBatch)) <= Len(recipe) + 1
    BY <2>0, ReadFacts
  <2> DEFINE m == Len(Read(RecipeBatch))
  <2>2. rpos' = rpos + m /\ m \in Nat /\ rpos + m <= Len(recipe) + 1
    BY <1>3, <2>0, <2>1 DEF ReadBatch
  <2> HIDE DEF m
  <2>3. rpos' \in 0..Len(recipe) + 1 /\ rpos' >= rpos
    BY <2>2
  <2>4. spc = "read" /\ spc' \in {"tail", "scan"} /\ UNCHANGED <<recipe, hpc, chan, ready, retrVars>>
    BY <1>3 DEF ReadBatch
  <2> QED
    BY <2>3, <2>4
<1>4. CASE QueryFull
  BY <1>4 DEF QueryFull
<1>5. CASE ParseEntry
  BY <1>5 DEF ParseEntry
<1>6. CASE ResolveBases
  BY <1>6 DEF ResolveBases
<1>7. CASE EndBatch
  BY <1>7 DEF EndBatch
<1>8. CASE FetchContainer
  <2>1. req.ids[got + 1] \in Containers
    BY <1>8, NextContainer DEF FetchContainer
  <2>2. spc = "fetch" /\ spc' \in {"fetch", "decode", "overrun"} /\ UNCHANGED <<sessVars, chan, ready, retrVars>>
    BY <1>8, <2>1 DEF FetchContainer
  <2> QED
    BY <2>2
<1>9. CASE DecodeEntry
  <2>1. spc = "decode" /\ spc' \in {"close", "scan", "decode"} /\ UNCHANGED <<sessVars, ready, retrVars>>
    BY <1>9 DEF DecodeEntry
  <2> QED
    BY <2>1
<1>10. CASE TailBatch
  <2>1. spc = "tail" /\ spc' \in {"close", "resolve"} /\ UNCHANGED <<sessVars, ready, retrVars>>
    BY <1>10 DEF TailBatch
  <2> QED
    BY <2>1
<1>11. CASE ClientClosed
  BY <1>11 DEF ClientClosed
<1>12. CASE RecvLogin
  <2>1. hpc = "join" /\ chan = <<[type |-> "LOGIN", data |-> <<FileHead>>]>>
    BY <1>12 DEF RecvLogin
  <2>2. Head(chan).data = <<FileHead>> /\ Tail(chan) = <<>>
    BY <2>1
  <2> QED
    BY <1>12, <2>1, <2>2 DEF RecvLogin
<1>13. CASE RecvMessage
  BY <1>13 DEF RecvMessage
<1>14. CASE PushChunk
  BY <1>14 DEF PushChunk
<1>15. CASE MessageDone
  BY <1>15 DEF MessageDone
<1>16. CASE SetDone
  BY <1>16 DEF SetDone
<1>17. CASE CheckCount
  BY <1>17 DEF CheckCount
<1>18. CASE WriterTest
  BY <1>18 DEF WriterTest
<1>19. CASE WriterPop
  BY <1>19 DEF WriterPop
<1>20. CASE UNCHANGED vars
  BY <1>20 DEF vars
<1> QED
  BY <1>1, <1>2, <1>3, <1>4, <1>5, <1>6, <1>7, <1>8, <1>9, <1>10, <1>11, <1>12, <1>13, <1>14,
     <1>15, <1>16, <1>17, <1>18, <1>19, <1>20 DEF Next, Decoder, Retriever, Writer

\* What every step but those of the decoder's loops leaves alone.
LEMMA LoopFrame ==
  ASSUME LoginResponse \/ Retriever \/ Writer \/ UNCHANGED vars
  PROVE  UNCHANGED <<decVars, cacheVars>>
<1> USE DEF vars
<1> QED
  BY DEF Retriever, Writer, LoginResponse, RecvLogin, RecvMessage, PushChunk, MessageDone, SetDone,
         CheckCount, WriterTest, WriterPop

\* The cache changes only when a container is fetched.
LEMMA CacheStep == RestoreInv /\ [Next]_vars => CacheInv'
<1> SUFFICES ASSUME RestoreInv, [Next]_vars PROVE CacheInv'
  OBVIOUS
<1>0. CacheInv
  BY DEF RestoreInv
<1>2. ASSUME UNCHANGED <<keys, pool, nextIdx>> PROVE CacheInv'
  BY <1>0, <1>2 DEF CacheInv, PoolCoversMap, MapCoversPool
<1>1. CASE FetchContainer
  <2> DEFINE k == req.ids[got + 1]
  <2>1. k \in Containers /\ k \in Names
    BY <1>1, NextContainer DEF FetchContainer, Names
  <2>2. CASE Cached(k)
    <3>1. KeyOf(k) \in DOMAIN keys
      BY <2>2 DEF Cached, KeyOf
    <3>2. keys' = ToFront(KeyOf(k)) /\ UNCHANGED <<pool, nextIdx>>
      BY <1>1, <2>2 DEF FetchContainer
    <3> HIDE DEF k
    <3> QED
      BY <1>0, <3>1, <3>2, ToFrontKeeps
  <2>3. CASE ~Cached(k)
    <3>1. IF PoolOverrun THEN UNCHANGED <<keys, pool, nextIdx>> ELSE InsertToCache(k)
      BY <1>1, <2>1, <2>3 DEF FetchContainer
    <3> HIDE DEF k
    <3>2. CASE PoolOverrun
      BY <1>2, <3>1, <3>2
    <3>3. CASE ~PoolOverrun
      BY <1>0, <2>1, <2>3, <3>1, <3>3, InsertKeeps
    <3> QED
      BY <3>2, <3>3
  <2> QED
    BY <2>2, <2>3
<1>3. ASSUME Next, ~FetchContainer PROVE UNCHANGED <<keys, pool, nextIdx>>
  <2>1. CASE LoginResponse \/ Retriever \/ Writer
    BY <2>1, LoopFrame DEF cacheVars
  <2>2. CASE Decoder
    BY <1>3, <2>2 DEF Decoder, cacheVars, RecvReady, ReadBatch, QueryFull, ParseEntry, ResolveBases, EndBatch,
       DecodeEntry, TailBatch, ClientClosed
  <2> QED
    BY <1>3, <2>1, <2>2 DEF Next
<1>4. ASSUME UNCHANGED vars PROVE UNCHANGED <<keys, pool, nextIdx>>
  BY <1>4 DEF vars, cacheVars
<1> QED
  BY <1>1, <1>2, <1>3, <1>4

\* The sizes, one by one.
LEMMA Sizes ==
  /\ RecipeBatch \in Nat \ {0} /\ SendBatch \in Nat \ {0} /\ QueryMax \in Nat \ {0}
  /\ Cap \in Nat /\ Cap > QueryMax /\ ArraySlots \in Nat /\ Cap + 1 <= ArraySlots
  BY SizeAssumption

\* A step that leaves the request and the loops alone.
LEMMA LoopKept ==
  ASSUME RequestInv, LoopInv, UNCHANGED <<decVars, cacheVars>>
  PROVE  RequestInv' /\ LoopInv'
  BY DEF RequestInv, LoopInv, Fetched, decVars, cacheVars

\* A step that only takes the decoder from one place to another.
LEMMA LoopMoved ==
  ASSUME RequestInv, LoopInv, UNCHANGED <<req, batch, arr, got, dec, bidx>>,
         spc' \notin {"fetch", "decode", "resolve"}, spc \notin {"fetch", "decode"},
         spc' \in {"ready", "read", "scan", "full", "tail"} => spc \in {"ready", "read", "scan", "full", "tail"}
  PROVE  RequestInv' /\ LoopInv'
<1>1. RequestInv'
  BY DEF RequestInv
<1>2. LoopInv'
  BY DEF LoopInv, Fetched
<1> QED
  BY <1>1, <1>2

LEMMA ReadBatchStep ==
  ASSUME RestoreInv, ReadBatch
  PROVE  RequestInv' /\ LoopInv'
<1>0. recipe \in Seq(Chunks) /\ rpos \in 0..Len(recipe) + 1 /\ rpos >= 1 /\ RequestInv /\ LoopInv /\ spc = "read"
  BY StoreAssumption DEF RestoreInv, HandInv, SessTypes, ReadBatch
<1>1. batch' \in Seq(Chunks)
  BY <1>0, Sizes, ReadFacts DEF ReadBatch
<1>2. CASE spc' = "tail" /\ UNCHANGED req
  BY <1>0, <1>1, <1>2 DEF RequestInv, LoopInv, ReadBatch, cacheVars, Fetched
<1>3. CASE spc' = "scan" /\ req' = [req EXCEPT !.map = <<>>]
  <2>1. /\ Sound(req') /\ InStep(req')
        /\ req'.ids = req.ids /\ req'.query = req.query
    BY <1>0, <1>3, ForgetFacts DEF RequestInv
  <2>2. RequestInv'
    BY <1>0, <1>3, <2>1 DEF RequestInv
  <2>3. LoopInv'
    BY <1>0, <1>1, <1>3 DEF LoopInv, ReadBatch, cacheVars
  <2> QED
    BY <2>2, <2>3
<1> QED
  BY <1>2, <1>3 DEF ReadBatch

LEMMA ParseEntryStep ==
  ASSUME RestoreInv, ParseEntry
  PROVE  RequestInv' /\ LoopInv'
<1> DEFINE c == Head(batch)
           li == Len(req.ids)
           lq == Len(req.query)
           mi == Len(req'.ids)
           mq1 == Len(req'.query)
<1>0. /\ RequestInv /\ LoopInv /\ spc = "scan" /\ req' = PushEntry(req, c)
      /\ spc' = IF Capped(req') THEN "resolve" ELSE "scan"
      /\ AddrOf(c).base = NoChunk \/ lq < QueryMax
      /\ batch # <<>> /\ batch' = Tail(batch) /\ UNCHANGED <<arr, got, dec, bidx>>
  BY DEF RestoreInv, ParseEntry, cacheVars
<1>1. c \in Chunks /\ batch' \in Seq(Chunks)
  BY <1>0 DEF LoopInv
<1>2. Sound(req) /\ InStep(req) /\ li \in Nat /\ lq \in Nat /\ li + lq < Cap /\ lq <= QueryMax
  BY <1>0, SoundFields DEF RequestInv
<1> HIDE DEF c
<1>3. /\ Sound(req')
      /\ mi \in {li, li + 1}
      /\ req'.query = IF AddrOf(c).base = NoChunk THEN req.query ELSE Append(req.query, AddrOf(c).base)
      /\ \E x \in Nat : req'.recs = Append(req.recs, [chunk |-> c, slot |-> x])
  BY <1>0, <1>1, <1>2, PushEntryFacts
<1>4. InStep(req')
  BY <1>0, <1>1, <1>2, PushEntryInStep
<1>5. mq1 = IF AddrOf(c).base = NoChunk THEN lq ELSE lq + 1
  <2>1. req.query \in Seq(Chunks) /\ (AddrOf(c).base # NoChunk => AddrOf(c).base \in Chunks)
    BY <1>1, <1>2, SoundFields, AddrFacts
  <2> QED
    BY <1>3, <2>1
<1>6. req'.recs # <<>>
  <2>1. req.recs \in Seq(ChunkEntry)
    BY <1>2, SoundFields
  <2>2. PICK x \in Nat : req'.recs = Append(req.recs, [chunk |-> c, slot |-> x])
    BY <1>3
  <2>3. [chunk |-> c, slot |-> x] \in ChunkEntry
    BY <1>1 DEF ChunkEntry
  <2> QED
    BY <2>1, <2>2, <2>3, AppendProperties
<1>7. Capped(req') <=> mi + mq1 >= Cap
  BY DEF Capped
<1> HIDE DEF li, lq, mi, mq1
<1>8. mi + mq1 <= Cap + 1 /\ mq1 <= QueryMax /\ (spc' = "scan" => mi + mq1 < Cap)
  BY <1>0, <1>2, <1>3, <1>5, <1>7, Sizes
<1>9. spc' \in {"resolve", "scan"}
  BY <1>0
<1>10. RequestInv'
  BY <1>3, <1>4, <1>6, <1>8, <1>9 DEF RequestInv, mi, mq1
<1>11. LoopInv'
  BY <1>0, <1>1, <1>9 DEF LoopInv
<1> QED
  BY <1>10, <1>11

LEMMA ResolveBasesStep ==
  ASSUME RestoreInv, ResolveBases
  PROVE  RequestInv' /\ LoopInv'
<1> DEFINE li == Len(req.ids)
           lq == Len(req.query)
           mi == Len(req'.ids)
           mq1 == Len(req'.query)
<1>0. /\ RequestInv /\ LoopInv /\ spc \in {"full", "resolve"}
      /\ UNCHANGED <<batch, arr, got, dec, bidx>>
  BY DEF RestoreInv, ResolveBases, cacheVars
<1>1. /\ Sound(req) /\ InStep(req) /\ li \in Nat /\ lq \in Nat /\ li + lq <= Cap + 1 /\ lq <= QueryMax
      /\ spc = "full" => li + lq < Cap
      /\ spc = "resolve" => req.recs # <<>>
  BY <1>0, SoundFields DEF RequestInv
<1>2. CASE req.query # <<>>
  <2>1. req' = PushBase(req) /\ spc' = spc
    BY <1>2 DEF ResolveBases
  <2>2. Sound(req') /\ mi \in {li, li + 1} /\ req'.query = Tail(req.query) /\ req'.recs = req.recs
    BY <1>1, <1>2, <2>1, PushBaseFacts
  <2>3. InStep(req')
    BY <1>1, <1>2, <2>1, PushBaseInStep
  <2>4. mq1 = lq - 1 /\ lq > 0
    <3>1. req.query \in Seq(Chunks)
      BY <1>1, SoundFields
    <3> QED
      BY <1>2, <2>2, <3>1
  <2> HIDE DEF li, lq, mi, mq1
  <2>5. mi + mq1 <= Cap + 1 /\ mq1 <= QueryMax /\ (spc = "full" => mi + mq1 < Cap)
    BY <1>1, <2>2, <2>4, Sizes
  <2>6. RequestInv'
    BY <1>0, <1>1, <2>1, <2>2, <2>3, <2>5 DEF RequestInv, mi, mq1
  <2>7. LoopInv'
    BY <1>0, <2>1 DEF LoopInv
  <2> QED
    BY <2>6, <2>7
<1>3. CASE req.query = <<>>
  <2>1. req' = req /\ spc' = IF spc = "full" THEN "scan" ELSE "fetch"
    BY <1>3 DEF ResolveBases
  <2>2. RequestInv'
    BY <1>0, <1>1, <1>3, <2>1 DEF RequestInv
  <2>3. ASSUME spc' = "fetch" PROVE got = 0 /\ got < li
    <3>1. spc = "resolve" /\ req.recs # <<>> /\ got = 0
      BY <1>0, <1>1, <2>1, <2>3 DEF LoopInv
    <3>2. req.recs \in Seq(ChunkEntry)
      BY <1>1, SoundFields
    <3>3. 1 \in 1..Len(req.recs) /\ req.recs[1] \in ChunkEntry
      BY <3>1, <3>2
    <3>4. req.recs[1].slot \in Nat /\ req.recs[1].slot < li
      BY <1>1, <3>3 DEF Sound, Linked, SlotOf, ChunkEntry
    <3> HIDE DEF li
    <3> QED
      BY <1>1, <3>1, <3>4
  <2>4. LoopInv'
    <3>1. spc' # "decode" /\ spc # "decode" /\ spc # "fetch"
      BY <1>0, <2>1
    <3>2. got = 0 /\ dec = 0 /\ bidx = 0
      BY <1>0, <3>1 DEF LoopInv
    <3> QED
      BY <1>0, <2>1, <2>3, <3>1, <3>2 DEF LoopInv, Fetched
  <2> QED
    BY <2>2, <2>4
<1> QED
  BY <1>2, <1>3

LEMMA FetchContainerStep ==
  ASSUME RestoreInv, FetchContainer
  PROVE  RequestInv' /\ LoopInv'
<1> DEFINE k == req.ids[got + 1]
           li == Len(req.ids)
<1>0. /\ RequestInv /\ LoopInv /\ CacheInv /\ spc = "fetch"
      /\ UNCHANGED <<req, batch, dec, bidx>>
  BY DEF RestoreInv, FetchContainer
<1>1. k \in Containers /\ k \in Names /\ got \in 0..li - 1 /\ li \in Nat
  BY <1>0, NextContainer DEF Names
<1>2. PICK v \in Names : arr' = [arr EXCEPT ![got] = v] /\ (PoolCoversMap => v = k)
  <2>1. CASE Cached(k)
    <3>1. KeyOf(k) \in DOMAIN keys /\ keys[KeyOf(k)].name = k
      BY <2>1 DEF Cached, KeyOf
    <3>2. arr' = [arr EXCEPT ![got] = pool[keys[KeyOf(k)].idx]]
      BY <2>1 DEF FetchContainer
    <3>3. PoolCoversMap => pool[keys[KeyOf(k)].idx] = k
      BY <1>0, <3>1, CacheInvBytes DEF CacheBytes
    <3>4. pool[keys[KeyOf(k)].idx] \in Names
      <4>1. keys \in Seq(Key) /\ pool \in [0..PoolSize - 1 -> Names] /\ KeyOf(k) \in 1..Len(keys)
        BY <1>0, <3>1 DEF CacheInv
      <4>2. keys[KeyOf(k)].idx \in 0..PoolSize - 1
        BY <4>1, KeyFacts
      <4> QED
        BY <4>1, <4>2
    <3> QED
      BY <3>2, <3>3, <3>4
  <2>2. CASE ~Cached(k)
    BY <1>1, <2>2 DEF FetchContainer
  <2> QED
    BY <2>1, <2>2
<1>3. /\ spc' \in {IF got + 1 = li THEN "decode" ELSE "fetch", "overrun"}
      /\ got' = IF spc' = "fetch" THEN got + 1 ELSE 0
  BY <1>1 DEF FetchContainer
<1>4. /\ arr \in [Slots -> Names] /\ batch \in Seq(Chunks) /\ Fetched(got) /\ dec = 0 /\ bidx = 0
      /\ Sound(req) /\ req.recs # <<>> /\ req.query = <<>> /\ li <= Cap + 1
  <2>1. Len(req.query) = 0 /\ li + Len(req.query) <= Cap + 1
    BY <1>0 DEF RequestInv
  <2>2. li <= Cap + 1
    BY <1>1, <2>1
  <2> QED
    BY <1>0, <2>2 DEF RequestInv, LoopInv
<1>5. Len(req.recs) > 0 /\ DeltasAmong(req.recs, 0) = 0
  <2>1. req.recs \in Seq(ChunkEntry)
    BY <1>4, SoundFields
  <2> QED
    BY <1>4, <2>1, DeltaCount
<1> HIDE DEF k
<1>6. RequestInv'
  <2>1. spc' \in {"fetch", "decode", "overrun"}
    BY <1>3
  <2> QED
    BY <1>0, <1>4, <2>1 DEF RequestInv
<1>7. ASSUME PoolCoversMap, NEW x \in 0..got PROVE arr'[x] = req.ids[x + 1]
  <2> HIDE DEF li
  <2>1. got \in Slots /\ x \in Slots
    BY <1>1, <1>4, Sizes DEF Slots
  <2>2. CASE x = got
    BY <1>2, <1>4, <1>7, <2>1, <2>2 DEF k
  <2>3. CASE x # got
    <3>1. x \in 0..got - 1
      BY <1>1, <2>3
    <3> QED
      BY <1>2, <1>4, <1>7, <2>1, <2>3, <3>1 DEF Fetched
  <2> QED
    BY <2>2, <2>3
<1>8. arr' \in [Slots -> Names]
  BY <1>1, <1>2, <1>4
<1>9. CASE spc' # "overrun" /\ got + 1 = li
  <2>1. spc' = "decode" /\ got' = 0
    BY <1>3, <1>9
  <2>2. li - 1 = got
    BY <1>1, <1>9
  <2>3. Fetched(Len(req.ids))'
    BY <1>0, <1>7, <2>2 DEF Fetched, PoolCoversMap
  <2> QED
    BY <1>0, <1>4, <1>5, <1>6, <1>8, <2>1, <2>3 DEF LoopInv
<1>10. CASE spc' # "overrun" /\ got + 1 # li
  <2>1. spc' = "fetch" /\ got' = got + 1
    BY <1>3, <1>10
  <2>2. got' \in Nat /\ got' < li /\ got' - 1 = got
    BY <1>1, <1>10, <2>1
  <2>3. Fetched(got)'
    BY <1>0, <1>7, <2>2 DEF Fetched, PoolCoversMap
  <2> QED
    BY <1>0, <1>4, <1>6, <1>8, <2>1, <2>2, <2>3 DEF LoopInv
<1>11. CASE spc' = "overrun"
  <2>1. got' = 0
    BY <1>3, <1>11
  <2> QED
    BY <1>0, <1>4, <1>6, <1>8, <1>11, <2>1 DEF LoopInv
<1> QED
  BY <1>9, <1>10, <1>11

\* The entry that is decoded next.
LEMMA NextEntry ==
  ASSUME RestoreInv, spc = "decode"
  PROVE  dec + 1 \in 1..Len(req.recs) /\ req.recs[dec + 1] \in ChunkEntry
<1> DEFINE n == Len(req.recs)
<1>1. req.recs \in Seq(ChunkEntry) /\ n \in Nat /\ dec \in Nat /\ dec < n
  BY SoundFields DEF RestoreInv, RequestInv, LoopInv
<1>2. dec + 1 \in 1..n
  <2> HIDE DEF n
  <2> QED
    BY <1>1
<1> QED
  BY <1>1, <1>2, ElementOfSeq

\* It yields its chunk, never something else.
LEMMA DecodedRight ==
  ASSUME RestoreInv, spc = "decode", PoolCoversMap
  PROVE  Decoded(req.recs[dec + 1]) = req.recs[dec + 1].chunk
<1> DEFINE e == req.recs[dec + 1]
           n == Len(req.recs)
           b == BaseOf[e.chunk]
           lb == Len(req.bases)
<1>0. /\ Sound(req) /\ InStep(req) /\ req.query = <<>>
      /\ dec \in Nat /\ dec < n /\ bidx = DeltasAmong(req.recs, dec) /\ Fetched(Len(req.ids))
  BY DEF RestoreInv, RequestInv, LoopInv
<1>1. /\ req.recs \in Seq(ChunkEntry) /\ req.bases \in Seq(ChunkEntry) /\ n \in Nat /\ lb \in Nat
      /\ req.ids \in Seq(Containers) /\ Len(req.ids) \in Nat /\ DOMAIN req.recs = 1..n
  BY <1>0, SoundFields
<1>2. dec + 1 \in 1..n
  BY NextEntry
<1>3. e \in ChunkEntry
  BY NextEntry
<1>4. e.chunk \in Chunks /\ e.slot \in Nat
  BY <1>3 DEF ChunkEntry
<1>5. ASSUME NEW f \in ChunkEntry, SlotOf(f, req.ids) PROVE arr[f.slot] = ContainerOf[f.chunk]
  <2> DEFINE li == Len(req.ids)
  <2>1. f.slot \in Nat /\ f.slot < li /\ f.chunk \in Chunks
    BY <1>5 DEF SlotOf, ChunkEntry
  <2>2. req.ids[f.slot + 1] = ContainerOf[f.chunk]
    BY <1>5, <2>1, AddrFacts DEF SlotOf
  <2>3. li \in Nat
    BY <1>1
  <2>4. f.slot \in 0..li - 1
    <3> HIDE DEF li
    <3> QED
      BY <2>1, <2>3
  <2> QED
    BY <1>0, <2>2, <2>4 DEF Fetched
<1>6. arr[e.slot] = ContainerOf[e.chunk]
  BY <1>0, <1>2, <1>3, <1>5 DEF Sound, Linked
<1>7. ASSUME b # NoChunk
      PROVE  /\ bidx < lb /\ req.bases[bidx + 1].chunk = b
             /\ arr[req.bases[bidx + 1].slot] = ContainerOf[b]
  <2>1. IsDelta(e) /\ AddrOf(e.chunk).base = b
    BY <1>4, <1>7, AddrFacts DEF IsDelta
  <2>2. DeltasAmong(req.recs, dec + 1) = bidx + 1 /\ bidx \in Nat
    BY <1>0, <2>1, DeltaCount
  <2>3. DeltasAmong(req.recs, dec + 1) \in 1..DeltasAmong(req.recs, n)
    BY <1>1, <1>2, <2>1, DeltaPlace
  <2>4. DeltasAmong(req.recs, n) = lb
    <3>1. DeltasAmong(req.recs, n) = lb + Len(req.query) /\ Len(req.query) = 0
      BY <1>0 DEF InStep
    <3> HIDE DEF lb
    <3> QED
      BY <1>1, <3>1
  <2>5. bidx + 1 \in 1..lb /\ bidx < lb /\ bidx + 1 <= lb
    <3> HIDE DEF lb
    <3> QED
      BY <1>1, <2>2, <2>3, <2>4
  <2>6. BaseNo(req, bidx + 1) = b
    BY <1>0, <1>1, <1>2, <2>1, <2>2 DEF InStep
  <2>7. req.bases[bidx + 1].chunk = b
    BY <2>5, <2>6 DEF BaseNo
  <2>8. req.bases[bidx + 1] \in ChunkEntry /\ SlotOf(req.bases[bidx + 1], req.ids)
    BY <1>0, <1>1, <2>5, ElementOfSeq DEF Sound, Linked
  <2>9. arr[req.bases[bidx + 1].slot] = ContainerOf[req.bases[bidx + 1].chunk]
    BY <1>5, <2>8
  <2> QED
    BY <2>5, <2>7, <2>9
<1>8. Decoded(e) = e.chunk
  BY <1>4, <1>6, <1>7 DEF Decoded
<1> QED
  BY <1>8

LEMMA DecodeEntryStep ==
  ASSUME RestoreInv, DecodeEntry
  PROVE  RequestInv' /\ LoopInv'
<1> DEFINE e == req.recs[dec + 1]
           n == Len(req.recs)
<1>0. /\ RequestInv /\ LoopInv /\ spc = "decode"
      /\ UNCHANGED <<batch, got, arr, tail>>
  BY DEF RestoreInv, DecodeEntry, cacheVars
<1>1. /\ Sound(req) /\ InStep(req) /\ req.query = <<>> /\ req.recs # <<>> /\ n \in Nat
      /\ dec \in Nat /\ bidx \in Nat /\ dec < n /\ bidx = DeltasAmong(req.recs, dec) /\ Fetched(Len(req.ids))
  BY <1>0, SoundFields DEF RequestInv, LoopInv
<1>2. CASE dec + 1 = n
  <2>1. /\ dec' = 0 /\ bidx' = 0 /\ spc' \in {"close", "scan"}
        /\ req' = IF tail THEN req ELSE NoRequest
        /\ spc' = IF tail THEN "close" ELSE "scan"
    BY <1>2 DEF DecodeEntry, Reset
  <2>2. LoopInv'
    BY <1>0, <2>1 DEF LoopInv
  <2>3. CASE tail
    BY <1>0, <2>1, <2>2, <2>3 DEF RequestInv
  <2>4. CASE ~tail
    <3>1. /\ Sound(req') /\ InStep(req') /\ Len(req'.ids) = 0 /\ Len(req'.query) = 0 /\ spc' = "scan"
      BY <2>1, <2>4, EmptyFacts
    <3>2. 0 + 0 <= Cap + 1 /\ 0 <= QueryMax /\ 0 + 0 < Cap
      BY Sizes
    <3> QED
      BY <2>2, <3>1, <3>2 DEF RequestInv
  <2> QED
    BY <2>2, <2>3, <2>4
<1>3. CASE dec + 1 # n
  <2>1. /\ dec' = dec + 1 /\ spc' = "decode" /\ req' = req
        /\ bidx' = IF AddrOf(e.chunk).base = NoChunk THEN bidx ELSE bidx + 1
    BY <1>3 DEF DecodeEntry
  <2>2. dec' \in Nat /\ dec' < n
    <3> HIDE DEF n
    <3> QED
      BY <1>1, <1>3, <2>1
  <2>3. bidx' = DeltasAmong(req.recs, dec') /\ bidx' \in Nat
    <3>1. /\ DeltasAmong(req.recs, dec) \in Nat
          /\ DeltasAmong(req.recs, dec + 1)
               = IF IsDelta(e) THEN DeltasAmong(req.recs, dec) + 1 ELSE DeltasAmong(req.recs, dec)
      BY <1>1, DeltaCount
    <3>2. IsDelta(e) <=> AddrOf(e.chunk).base # NoChunk
      BY DEF IsDelta
    <3> HIDE DEF e
    <3> QED
      BY <1>1, <2>1, <3>1, <3>2
  <2>4. RequestInv'
    BY <1>0, <2>1 DEF RequestInv
  <2>5. LoopInv'
    BY <1>0, <1>1, <2>1, <2>2, <2>3 DEF LoopInv, Fetched
  <2> QED
    BY <2>4, <2>5
<1> QED
  BY <1>2, <1>3

LEMMA TailBatchStep ==
  ASSUME RestoreInv, TailBatch
  PROVE  RequestInv' /\ LoopInv'
<1>0. /\ RequestInv /\ LoopInv /\ spc = "tail"
      /\ UNCHANGED <<batch, got, arr, dec, bidx>>
  BY DEF RestoreInv, TailBatch, cacheVars
<1>1. CASE req.recs # <<>>
  <2>1. req' = [req EXCEPT !.map = <<>>] /\ spc' = "resolve"
    BY <1>1 DEF TailBatch
  <2>2. /\ Sound(req') /\ InStep(req')
        /\ req'.ids = req.ids /\ req'.query = req.query /\ req'.recs = req.recs
    BY <1>0, <2>1, ForgetFacts DEF RequestInv
  <2>3. RequestInv'
    BY <1>0, <1>1, <2>1, <2>2 DEF RequestInv
  <2>4. LoopInv'
    BY <1>0, <2>1 DEF LoopInv
  <2> QED
    BY <2>3, <2>4
<1>2. CASE req.recs = <<>>
  <2>1. req' = req /\ spc' = "close"
    BY <1>2 DEF TailBatch
  <2> QED
    BY <1>0, <2>1, LoopMoved
<1> QED
  BY <1>1, <1>2

\* Every step keeps the request sound and the loops where they belong.
LEMMA LoopStep == RestoreInv /\ [Next]_vars => RequestInv' /\ LoopInv'
<1> SUFFICES ASSUME RestoreInv, [Next]_vars PROVE RequestInv' /\ LoopInv'
  OBVIOUS
<1>0. RequestInv /\ LoopInv
  BY DEF RestoreInv
<1>1. CASE LoginResponse \/ Retriever \/ Writer \/ UNCHANGED vars
  BY <1>0, <1>1, LoopFrame, LoopKept
<1>2. CASE RecvReady
  BY <1>0, <1>2, LoopMoved DEF RecvReady, cacheVars
<1>3. CASE QueryFull
  BY <1>0, <1>3, LoopMoved DEF QueryFull, cacheVars
<1>4. CASE EndBatch
  BY <1>0, <1>4, LoopMoved DEF EndBatch, cacheVars
<1>5. CASE ClientClosed
  BY <1>0, <1>5, LoopMoved DEF ClientClosed, cacheVars
<1> QED
  BY <1>1, <1>2, <1>3, <1>4, <1>5, ReadBatchStep, ParseEntryStep, ResolveBasesStep, FetchContainerStep,
     DecodeEntryStep, TailBatchStep DEF Next, Decoder

----------------------------------------------------------------------------
(* The theorems. *)

LEMMA RestoreInit == Init => RestoreInv
<1> SUFFICES ASSUME Init PROVE RestoreInv
  OBVIOUS
<1>1. HandInv
  <2>1. recipe \in Seq(Chunks)
    BY StoreAssumption DEF Init
  <2>2. Len(recipe) \in Nat
    BY <2>1
  <2>3. rpos \in 0..Len(recipe) + 1
    BY <2>2 DEF Init
  <2> QED
    BY <2>3 DEF Init, HandInv, SessTypes
<1>2. CacheInv
  <2>1. PoolSize \in Nat /\ keys = <<>> /\ Len(keys) = 0 /\ nextIdx = 0
    BY SizeAssumption DEF Init
  <2>2. pool \in [0..PoolSize - 1 -> Names] /\ keys \in Seq(Key)
    BY <2>1 DEF Init, Names
  <2>3. 0 <= LruMax /\ 0 \in 0..PoolSize /\ (0 = PoolSize => 0 >= PoolSize)
    BY CacheSizes
  <2> QED
    BY <2>1, <2>2, <2>3 DEF CacheInv, Coherent
<1>3. RequestInv
  <2>1. req = NoRequest /\ spc = "ready"
    BY DEF Init
  <2>2. Sound(req) /\ InStep(req) /\ Len(req.ids) = 0 /\ Len(req.query) = 0
    BY <2>1, EmptyFacts
  <2>3. 0 + 0 <= Cap + 1 /\ 0 <= QueryMax /\ 0 + 0 < Cap
    BY Sizes
  <2> QED
    BY <2>1, <2>2, <2>3 DEF RequestInv
<1>4. LoopInv
  <2>1. arr \in [Slots -> Names] /\ batch \in Seq(Chunks)
    BY DEF Init, Slots, Names
  <2> QED
    BY <2>1 DEF Init, LoopInv
<1>5. StopInv
  BY DEF Init, StopInv
<1> QED
  BY <1>1, <1>2, <1>3, <1>4, <1>5 DEF RestoreInv

\* The pool stops the server only where it is overrun.
LEMMA StopStep == RestoreInv /\ [Next]_vars => StopInv'
<1> SUFFICES ASSUME RestoreInv, [Next]_vars, MapCoversPool PROVE spc' # "overrun"
  BY DEF StopInv, MapCoversPool
<1>0. spc # "overrun" /\ ~PoolOverrun
  BY CacheInvBounds DEF RestoreInv, StopInv
<1>1. CASE LoginResponse \/ Retriever \/ Writer \/ UNCHANGED vars
  BY <1>0, <1>1, LoopFrame DEF decVars
<1>2. CASE FetchContainer
  BY <1>0, <1>2 DEF FetchContainer
<1>3. CASE Decoder /\ ~FetchContainer
  BY <1>0, <1>3 DEF Decoder, RecvReady, ReadBatch, QueryFull, ParseEntry, ResolveBases, EndBatch,
     DecodeEntry, TailBatch, ClientClosed
<1> QED
  BY <1>1, <1>2, <1>3 DEF Next

LEMMA RestoreStep == RestoreInv /\ [Next]_vars => RestoreInv'
  BY HandStep, CacheStep, LoopStep, StopStep DEF RestoreInv

LEMMA RestoreAlways == Spec => []RestoreInv
<1>1. Init => RestoreInv
  BY RestoreInit
<1>2. RestoreInv /\ [Next]_vars => RestoreInv'
  BY RestoreStep
<1> QED
  BY <1>1, <1>2, PTL DEF Spec

\* A pool with a buffer for every name of the map: a hit yields the bytes of
\* the container that was asked for.  InsertToCache overwrites a buffer
\* only in the step in which the map drops its name.
THEOREM CacheHitsRight == PoolCoversMap => (Spec => []CacheBytes)
<1> SUFFICES ASSUME PoolCoversMap PROVE Spec => []CacheBytes
  OBVIOUS
<1>1. RestoreInv => CacheBytes
  BY CacheInvBytes DEF RestoreInv
<1> QED
  BY <1>1, RestoreAlways, PTL

\* A map with a name for every buffer of the pool: currentIndex_ never runs
\* past the end of containerPool_, because InsertToCache finds the pool full
\* first.
THEOREM PoolStaysInBounds == MapCoversPool => (Spec => []PoolInBounds)
<1> SUFFICES ASSUME MapCoversPool PROVE Spec => []PoolInBounds
  OBVIOUS
<1>1. RestoreInv => PoolInBounds
  BY CacheInvBounds DEF RestoreInv, StopInv, PoolInBounds
<1> QED
  BY <1>1, RestoreAlways, PTL

\* With readCacheSize_ equal to the capacity of the map, whatever is
\* downloaded, the read cache of a client is coherent at every step.
THEOREM CacheCoherence == SizesAgree => (Spec => []CacheCoherent)
<1> SUFFICES ASSUME SizesAgree PROVE Spec => []CacheCoherent
  OBVIOUS
<1>1. PoolCoversMap /\ MapCoversPool
  BY CacheSizes DEF SizesAgree, PoolCoversMap, MapCoversPool
<1>2. RestoreInv => CacheCoherent
  BY <1>1, CacheInvBytes, CacheInvBounds DEF RestoreInv, StopInv, PoolInBounds, CacheCoherent
<1> QED
  BY <1>2, RestoreAlways, PTL

\* The capping test of ProcRecipeBatch keeps a request within one container
\* of CONTAINER_CAPPING_VALUE, for every recipe and every store.
THEOREM RequestsBounded == Spec => []RequestBounded
<1>1. RestoreInv => RequestBounded
  <2> SUFFICES ASSUME RequestInv PROVE RequestBounded
    BY DEF RestoreInv
  <2>1. Len(req.ids) \in Nat /\ Len(req.query) \in Nat /\ Cap \in Nat
    BY SoundFields, Sizes DEF RequestInv
  <2>2. Len(req.ids) + Len(req.query) <= Cap + 1
    BY DEF RequestInv
  <2> DEFINE a == Len(req.ids)
             b == Len(req.query)
  <2>3. a <= Cap + 1
    <3> HIDE DEF a, b
    <3>1. a \in Nat /\ b \in Nat /\ a + b <= Cap + 1 /\ Cap \in Nat
      BY <2>1, <2>2 DEF a, b
    <3> QED
      BY <3>1
  <2> QED
    BY <2>3 DEF RequestInv, RequestBounded
<1> QED
  BY <1>1, RestoreAlways, PTL

\* Deltas and their bases run in step through full queries, recipe batches
\* and resets, so that the decoding loop takes the right base.
THEOREM BasesStayInStep == Spec => []BasesInStep
<1>1. RestoreInv => BasesInStep
  BY DEF RestoreInv, RequestInv, LoopInv, BasesInStep
<1> QED
  BY <1>1, RestoreAlways, PTL

\* Every entry of a request points at the buffer that will hold, and when
\* it is decoded does hold, the container the index names, if the pool has
\* a buffer for every name of the map.
THEOREM SlotsAreRight == PoolCoversMap => (Spec => []SlotsRight)
<1> SUFFICES ASSUME PoolCoversMap PROVE Spec => []SlotsRight
  OBVIOUS
<1>1. RestoreInv => SlotsRight
  <2> SUFFICES ASSUME RestoreInv,
                      NEW s \in {req.recs, req.bases}, NEW i \in DOMAIN s
               PROVE  /\ s[i].slot < Len(req.ids)
                      /\ req.ids[s[i].slot + 1] = AddrOf(s[i].chunk).container
                      /\ spc = "decode" => arr[s[i].slot] = AddrOf(s[i].chunk).container
    BY DEF SlotsRight
  <2>1. Sound(req) /\ (spc = "decode" => Fetched(Len(req.ids)))
    BY DEF RestoreInv, RequestInv, LoopInv
  <2>2. /\ s \in Seq(ChunkEntry) /\ DOMAIN s = 1..Len(s) /\ Len(req.ids) \in Nat
        /\ \A j \in 1..Len(s) : SlotOf(s[j], req.ids)
    BY <2>1, SoundFields DEF Sound, Linked
  <2>3. s[i] \in ChunkEntry /\ SlotOf(s[i], req.ids)
    BY <2>2, ElementOfSeq
  <2>4. s[i].slot \in Nat
    BY <2>3 DEF ChunkEntry
  <2>5. s[i].slot < Len(req.ids) /\ req.ids[s[i].slot + 1] = AddrOf(s[i].chunk).container
    BY <2>3 DEF SlotOf
  <2>6. s[i].slot \in 0..Len(req.ids) - 1
    BY <2>2, <2>4, <2>5
  <2> QED
    BY <2>1, <2>5, <2>6 DEF Fetched
<1> QED
  BY <1>1, RestoreAlways, PTL

=============================================================================
