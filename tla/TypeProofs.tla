------------------------------ MODULE TypeProofs ------------------------------
(***************************************************************************)
(* Type correctness of ShieldReduce.  TypeOK alone is not inductive: the   *)
(* delta sizes looked up while the deltas of an old base are moved need    *)
(* the pair at hand to be a pair of chunks (PairAtHand).                   *)
(***************************************************************************)
EXTENDS ShieldReduce, SequenceTheorems, WellFoundedInduction, TLAPS

LEMMA InitTypes == Init => TypeOK
  <1> SUFFICES ASSUME Init PROVE TypeOK
      OBVIOUS
  <1>1. IndexTypes
        BY DEF Init, IndexTypes, Addr, NoAddr, ChunkOrNone
  <1>2. ContainerTypes
        BY DEF Init, ContainerTypes, File, NoFile, Container, EmptyContainer, Cids, Kinds, Cached, QueuedContainer
  <1>3. SessionTypes
    <2>1. session \in Session
          BY DEF Init, Session, NoSession
    <2>2. batch \in Batch
          BY DEF Init, Batch, NoBatch
    <2>3. staleUse \in BOOLEAN
          BY DEF Init
    <2> QED BY <2>1, <2>2, <2>3 DEF Init, SessionTypes, Phases
  <1>4. OfflineTypes
        BY DEF Init, OfflineTypes, Work, NoWork, Walk, NoWalk, ChunkOrNone
  <1> QED BY <1>1, <1>2, <1>3, <1>4 DEF TypeOK

-----------------------------------------------------------------------------
(* Least and greatest elements: Min and Max of FiniteSetsExt choose.       *)

\* A non-empty set of naturals has a least element, which Min returns.
LEMMA MinIn ==
  ASSUME NEW S \in SUBSET Nat, S # {}
  PROVE  Min(S) \in S /\ \A y \in S : Min(S) <= y
  <1>1. PICK x \in S : \A y \in S : ~(<<y, x>> \in OpToRel(<, Nat))
        BY WFMin, NatLessThanWellFounded
  <1>2. \A y \in S : ~(y < x)
        BY <1>1, Zenon DEF OpToRel
  <1>3. \A y \in S : x <= y
        BY <1>2
  <1> QED BY <1>3 DEF Min

\* A non-empty set of positions of a sequence has a greatest element.
LEMMA MaxIn ==
  ASSUME NEW n \in Nat, NEW S \in SUBSET (1 .. n), S # {}
  PROVE  Max(S) \in S /\ \A y \in S : Max(S) >= y
  <1> DEFINE T == {n - i : i \in S}
  <1>1. T \in SUBSET Nat
    <2> SUFFICES ASSUME NEW i \in S PROVE n - i \in Nat
        OBVIOUS
    <2> QED OBVIOUS
  <1>a. T # {}
        OBVIOUS
  <1>2. Min(T) \in T /\ \A y \in T : Min(T) <= y
        BY <1>1, <1>a, MinIn
  <1> HIDE DEF T
  <1>3. PICK x \in S : Min(T) = n - x
        BY <1>2 DEF T
  <1>4. \A y \in S : n - x <= n - y
        BY <1>2, <1>3 DEF T
  <1>5. \A y \in S : x >= y
        BY <1>4
  <1> QED BY <1>5 DEF Max

-----------------------------------------------------------------------------
(* What the operators of the model return.                                 *)

LEMMA HdrType == Hdr \in Nat
  BY ContainerAssumption

LEMMA EmptyContainerType ==
  ASSUME NEW k \in Nat
  PROVE  EmptyContainer(k) \in Container
  BY DEF EmptyContainer, Container

LEMMA NoAddrType == NoAddr \in Addr
  BY DEF NoAddr, Addr, ChunkOrNone

\* A record with a well-typed header is a record.
LEMMA RecType ==
  ASSUME NEW pos \in Int, NEW fp \in Chunks, NEW a \in Addr,
         NEW src \in Chunks \cup {NoChunk, Garbage}
  PROVE  [pos |-> pos, fp |-> fp, addr |-> a, src |-> src] \in Rec
  BY DEF Rec

\* Adding records and bytes to a container gives a container.
LEMMA GrowType ==
  ASSUME NEW d \in Container, NEW r \in Rec, NEW h \in Int, NEW n \in Int
  PROVE  [d EXCEPT !.recs = @ \cup {r}, !.size = @ + h + n] \in Container
  <1>1. d.recs \cup {r} \in SUBSET Rec /\ d.size + h + n \in Int
        BY DEF Container
  <1> QED BY <1>1 DEF Container

\* SaveRecord yields a container and the address of the new record in it.
LEMMA SaveRecordType ==
  ASSUME NEW c \in Container, NEW fp \in Chunks, NEW len \in Nat,
         NEW base \in ChunkOrNone, NEW src \in Chunks \cup {NoChunk, Garbage},
         nextCid \in Nat
  PROVE  /\ SaveRecord(c, fp, len, base, src).cont \in Container
         /\ SaveRecord(c, fp, len, base, src).addr \in Addr
         /\ SaveRecord(c, fp, len, base, src).addr.len = len
  <1> DEFINE d == IF Fits(c, len) THEN c ELSE EmptyContainer(nextCid)
             a == [cid |-> d.cid, off |-> d.size, len |-> len, base |-> base]
             r == [pos |-> d.size, fp |-> fp, addr |-> a, src |-> src]
             e == [d EXCEPT !.recs = @ \cup {r}, !.size = @ + Hdr + len]
  <1>1. d \in Container
        BY EmptyContainerType
  <1> HIDE DEF d
  <1>2. a \in Addr
        BY <1>1 DEF Addr, Container
  <1> HIDE DEF a
  <1>3. r \in Rec
        BY <1>1, <1>2 DEF Rec, Container
  <1> HIDE DEF r
  <1>b. Hdr \in Int /\ len \in Int
        BY HdrType
  <1>4. e \in Container
        BY <1>1, <1>3, <1>b, GrowType, Zenon
  <1>5. SaveRecord(c, fp, len, base, src) = [cont |-> e, addr |-> a]
        BY DEF SaveRecord, d, a, r
  <1>6. a.len = len
        BY DEF a
  <1> QED BY <1>2, <1>4, <1>5, <1>6

LEMMA LoadType ==
  ASSUME NEW f \in File, ocall \in SUBSET Rec
  PROVE  Load(f) \in SUBSET Rec
  BY DEF Load, File

LEMMA ContentAtType ==
  ASSUME NEW buf \in SUBSET Rec, NEW a
  PROVE  ContentAt(buf, a) \in Chunks \cup {Garbage}
  BY DEF ContentAt, Rec

\* A container handed to the writer is queued, and the next name is taken.
LEMMA WriteContainerType ==
  ASSUME TypeOK, NEW c \in Container, NEW kind \in Kinds, NEW len, WriteContainer(c, kind, len)
  PROVE  queue' \in Seq(QueuedContainer) /\ nextCid' \in Nat
  <1>1. [cid |-> c.cid, recs |-> c.recs, size |-> c.size, kind |-> kind] \in QueuedContainer
        BY DEF Container, QueuedContainer
  <1>2. queue \in Seq(QueuedContainer) /\ nextCid \in Nat
        BY DEF TypeOK, ContainerTypes
  <1> QED BY <1>1, <1>2, AppendProperties DEF WriteContainer

-----------------------------------------------------------------------------
(* Storing one chunk.  StoredTypes says what a stored chunk can change.    *)

StoredTypes ==
    /\ queue \in Seq(QueuedContainer) /\ nextCid \in Nat
    /\ inBase \in Container /\ inDelta \in Container
    /\ session \in Session /\ batch \in Batch /\ backup \in Int /\ staleUse \in BOOLEAN

LEMMA AddToRecipeType ==
  ASSUME session \in Session, NEW fp \in Chunks, AddToRecipe(fp)
  PROVE  session' \in Session
  <1>1. session.recipe \cup {fp} \in SUBSET Chunks
        BY DEF Session
  <1> QED BY <1>1 DEF AddToRecipe, Session

\* The loop of ProcessOneBatch looks at a well-typed entry.
LEMMA HeadEntryType ==
  ASSUME batch \in Batch, batch.todo # <<>>
  PROVE  /\ Head(batch.todo) \in Entry
         /\ Tail(batch.todo) \in Seq(Entry)
  BY HeadTailProperties DEF Batch

LEMMA StoreNextType ==
  ASSUME TypeOK, NEW fp \in Chunks, NEW a \in Addr, NEW old \in ChunkOrNone,
         batch.todo # <<>>, StoreNext(fp, a, old)
  PROVE  session' \in Session /\ batch' \in Batch /\ backup' \in Int
  <1>1. session \in Session /\ batch \in Batch /\ backup \in Int
        BY DEF TypeOK, SessionTypes
  <1>2. session' \in Session
        BY <1>1, AddToRecipeType DEF StoreNext
  <1>3. [fp |-> fp, addr |-> a, old |-> old] \in Done
        BY DEF Done
  <1>4. Append(batch.done, [fp |-> fp, addr |-> a, old |-> old]) \in Seq(Done)
        BY <1>1, <1>3, AppendProperties DEF Batch
  <1>5. Tail(batch.todo) \in Seq(Entry)
        BY <1>1, HeadEntryType
  <1>6. batch' \in Batch
        BY <1>1, <1>4, <1>5 DEF StoreNext, Batch
  <1>7. backup' \in Int
        BY <1>1 DEF StoreNext, Addr
  <1> QED BY <1>2, <1>6, <1>7

LEMMA SavebaseChunkType ==
  ASSUME TypeOK, NEW fp \in Chunks, NEW old \in ChunkOrNone, batch.todo # <<>>,
         SavebaseChunk(fp, old)
  PROVE  StoredTypes'
  <1> DEFINE s == SaveRecord(inBase, fp, CLen[fp], NoChunk, NoChunk)
  <1>1. inBase \in Container /\ inDelta \in Container /\ nextCid \in Nat /\ staleUse \in BOOLEAN
        BY DEF TypeOK, ContainerTypes, SessionTypes
  <1>2. CLen[fp] \in Nat
        BY SizeAssumption
  <1>a. NoChunk \in ChunkOrNone /\ NoChunk \in Chunks \cup {NoChunk, Garbage} /\ "base" \in Kinds
        BY DEF ChunkOrNone, Kinds
  <1>3. s.cont \in Container /\ s.addr \in Addr
        BY <1>1, <1>2, <1>a, SaveRecordType
  <1>4. queue' \in Seq(QueuedContainer) /\ nextCid' \in Nat
        BY <1>1, <1>a, WriteContainerType DEF SavebaseChunk
  <1>5. inBase' = s.cont /\ StoreNext(fp, s.addr, old) /\ inDelta' = inDelta /\ staleUse' = staleUse
        BY DEF SavebaseChunk
  <1> HIDE DEF s
  <1>6. session' \in Session /\ batch' \in Batch /\ backup' \in Int
        BY <1>3, <1>5, StoreNextType
  <1> QED BY <1>1, <1>3, <1>4, <1>5, <1>6 DEF StoredTypes

LEMMA SavedeltaChunkType ==
  ASSUME TypeOK, NEW fp \in Chunks, NEW len \in Nat, NEW base \in ChunkOrNone,
         NEW src \in Chunks \cup {Garbage}, batch.todo # <<>>,
         SavedeltaChunk(fp, len, base, src)
  PROVE  StoredTypes'
  <1> DEFINE s == SaveRecord(inDelta, fp, len, base, src)
  <1>1. inBase \in Container /\ inDelta \in Container /\ nextCid \in Nat /\ staleUse \in BOOLEAN
        BY DEF TypeOK, ContainerTypes, SessionTypes
  <1>a. NoChunk \in ChunkOrNone /\ src \in Chunks \cup {NoChunk, Garbage} /\ "delta" \in Kinds
        BY DEF ChunkOrNone, Kinds
  <1>3. s.cont \in Container /\ s.addr \in Addr
        BY <1>1, <1>a, SaveRecordType
  <1>4. queue' \in Seq(QueuedContainer) /\ nextCid' \in Nat
        BY <1>1, <1>a, WriteContainerType DEF SavedeltaChunk
  <1>5. /\ inDelta' = s.cont /\ StoreNext(fp, s.addr, NoChunk)
        /\ inBase' = inBase /\ staleUse' \in BOOLEAN
        BY <1>1 DEF SavedeltaChunk
  <1> HIDE DEF s
  <1>6. session' \in Session /\ batch' \in Batch /\ backup' \in Int
        BY <1>3, <1>5, <1>a, StoreNextType
  <1> QED BY <1>1, <1>3, <1>4, <1>5, <1>6 DEF StoredTypes

\* Coding a chunk against what was read stores it as a delta or as a base.
LEMMA CodeAgainstType ==
  ASSUME TypeOK, NEW e \in Entry, NEW content \in Chunks \cup {Garbage}, batch.todo # <<>>,
         e.base # NoChunk, CodeAgainst(e, content)
  PROVE  StoredTypes'
  <1> DEFINE len == DSize[e.fp][IF content = Garbage THEN e.base ELSE content]
  <1>1. e.fp \in Chunks /\ e.base \in Chunks /\ e.base \in ChunkOrNone /\ NoChunk \in ChunkOrNone
        BY DEF Entry, ChunkOrNone
  <1>2. len \in Nat
        BY <1>1, SizeAssumption
  <1>3. \/ SavedeltaChunk(e.fp, len, e.base, content)
        \/ SavebaseChunk(e.fp, NoChunk)
        BY DEF CodeAgainst
  <1> HIDE DEF len
  <1>4. CASE SavedeltaChunk(e.fp, len, e.base, content)
        BY <1>1, <1>2, <1>4, SavedeltaChunkType
  <1>5. CASE SavebaseChunk(e.fp, NoChunk)
        BY <1>1, <1>5, SavebaseChunkType
  <1> QED BY <1>3, <1>4, <1>5

-----------------------------------------------------------------------------
(* Type correctness of the upload path.                                    *)

LEMMA StoreFrame ==
  ASSUME TypeOK, StoredTypes', cache' \in Seq(Cached), ocall' \in SUBSET Rec,
         UNCHANGED <<indexVars, localVars, file, writing, phase,
                     offlineVars, final, broken, sessions, nbatches>>
  PROVE  TypeOK'
  BY DEF TypeOK, StoredTypes, IndexTypes, ContainerTypes, SessionTypes, OfflineTypes,
         indexVars, localVars, offlineVars

LEMMA StartSessionTypes ==
  ASSUME TypeOK, NEW op \in {"upload", "offline"}, StartSession(op)
  PROVE  TypeOK'
  <1>1. nextCid \in Nat /\ sessions \in Nat
        BY DEF TypeOK, ContainerTypes, SessionTypes
  <1>2. session' \in Session
        BY DEF StartSession, Session, NoSession
  <1>3. inBase' \in Container /\ inDelta' \in Container
        BY <1>1, EmptyContainerType DEF StartSession
  <1>4. nextCid' \in Nat /\ sessions' \in Nat /\ phase' \in Phases
        BY <1>1 DEF StartSession, Phases
  <1> QED BY <1>2, <1>3, <1>4 DEF TypeOK, IndexTypes, ContainerTypes, SessionTypes, OfflineTypes,
          StartSession, indexVars, localVars, writerVars, bufferVars, offlineVars

\* A chunk the super-feature index offers is a chunk.
LEMMA QuerySFType ==
  ASSUME sfIndex \in [Features -> ChunkOrNone], NEW c \in Chunks
  PROVE  QuerySF(c) \in ChunkOrNone
  <1> DEFINE hits == {i \in DOMAIN SFs[c] : sfIndex[SFs[c][i]] # NoChunk}
  <1>1. SFs[c] \in Seq(Features)
        BY SizeAssumption
  <1>2. DOMAIN SFs[c] = 1 .. Len(SFs[c]) /\ Len(SFs[c]) \in Nat
        BY <1>1, LenProperties
  <1>3. CASE hits = {}
        BY <1>3 DEF QuerySF, ChunkOrNone
  <1>4. CASE hits # {}
    <2>1. hits \in SUBSET Nat
          BY <1>2
    <2>2. Min(hits) \in 1 .. Len(SFs[c])
          BY <2>1, <1>2, <1>4, MinIn
    <2>3. SFs[c][Min(hits)] \in Features
          BY <2>2, <1>1, ElementOfSeq
    <2>4. QuerySF(c) = sfIndex[SFs[c][Min(hits)]]
          BY <1>4 DEF QuerySF
    <2> QED BY <2>3, <2>4
  <1> QED BY <1>3, <1>4

LEMMA RecvBatchTypes ==
  ASSUME TypeOK, NEW b \in Batches, RecvBatch(b)
  PROVE  TypeOK'
  <1>1. fpIndex \in [Chunks -> Addr] /\ sfIndex \in [Features -> ChunkOrNone] /\ nbatches \in Nat
        BY DEF TypeOK, IndexTypes, SessionTypes
  <1>2. b \in Seq(Chunks)
        BY BoundAssumption
  <1>3. ASSUME NEW i \in 1 .. Len(b) PROVE QueryEntry(b, i) \in Entry
    <2>1. b[i] \in Chunks
          BY <1>2, ElementOfSeq
    <2> DEFINE base == IF IsNew(b, i) THEN QuerySF(b[i]) ELSE NoChunk
               baddr == IF base = NoChunk THEN NoAddr ELSE fpIndex[base]
    <2>2. base \in ChunkOrNone
          BY <1>1, <2>1, QuerySFType DEF ChunkOrNone
    <2>3. QueryEntry(b, i) = [fp |-> b[i], new |-> IsNew(b, i), base |-> base, baddr |-> baddr]
          BY DEF QueryEntry
    <2> HIDE DEF base
    <2>4. baddr \in Addr
          BY <1>1, <2>2, NoAddrType DEF ChunkOrNone
    <2> HIDE DEF baddr
    <2>5. IsNew(b, i) \in BOOLEAN
          BY DEF IsNew
    <2> QED BY <2>1, <2>2, <2>3, <2>4, <2>5 DEF Entry
  <1>4. Entries(b) \in Seq(Entry)
        BY <1>2, <1>3, LenProperties DEF Entries
  <1>5. LocalChecker(b) \in BOOLEAN
        BY DEF LocalChecker
  <1>6. batch' \in Batch
        BY <1>4, <1>5 DEF RecvBatch, Batch
  <1>7. nbatches' \in Nat /\ phase' \in Phases
        BY <1>1 DEF RecvBatch, Phases
  <1> QED BY <1>6, <1>7 DEF TypeOK, IndexTypes, ContainerTypes, SessionTypes, OfflineTypes,
          RecvBatch, indexVars, localVars, writerVars, enclaveVars, bufferVars, offlineVars

LEMMA SkipDuplicateTypes ==
  ASSUME TypeOK, SkipDuplicate
  PROVE  TypeOK'
  <1>1. session \in Session /\ batch \in Batch /\ batch.todo # <<>>
        BY DEF TypeOK, SessionTypes, SkipDuplicate
  <1>2. Head(batch.todo) \in Entry /\ Tail(batch.todo) \in Seq(Entry)
        BY <1>1, HeadEntryType
  <1>3. Head(batch.todo).fp \in Chunks
        BY <1>2 DEF Entry
  <1>4. session' \in Session
        BY <1>1, <1>3, AddToRecipeType DEF SkipDuplicate
  <1>5. batch' \in Batch
        BY <1>1, <1>2 DEF SkipDuplicate, Batch
  <1> QED BY <1>4, <1>5 DEF TypeOK, IndexTypes, ContainerTypes, SessionTypes, OfflineTypes,
          SkipDuplicate, indexVars, localVars, writerVars, enclaveVars, bufferVars, offlineVars,
          historyVars

\* The chunk a storing action works on.
LEMMA AtNewChunkType ==
  ASSUME TypeOK, AtNewChunk
  PROVE  /\ batch.todo # <<>> /\ Head(batch.todo) \in Entry
         /\ Head(batch.todo).fp \in Chunks /\ Head(batch.todo).base \in ChunkOrNone
         /\ NoChunk \in ChunkOrNone
  <1>1. batch \in Batch /\ batch.todo # <<>>
        BY DEF TypeOK, SessionTypes, AtNewChunk
  <1>2. Head(batch.todo) \in Entry
        BY <1>1, HeadEntryType
  <1> QED BY <1>1, <1>2 DEF Entry, ChunkOrNone

LEMMA StoreUniqueTypes ==
  ASSUME TypeOK, StoreUnique
  PROVE  TypeOK'
  <1>1. StoredTypes'
        BY AtNewChunkType, SavebaseChunkType DEF StoreUnique
  <1>2. cache' \in Seq(Cached) /\ ocall' \in SUBSET Rec
        BY DEF TypeOK, ContainerTypes, StoreUnique, bufferVars
  <1> QED BY <1>1, <1>2, StoreFrame DEF StoreUnique

LEMMA StoreDeferredTypes ==
  ASSUME TypeOK, StoreDeferred
  PROVE  TypeOK'
  <1>1. StoredTypes'
        BY AtNewChunkType, SavebaseChunkType DEF StoreDeferred
  <1>2. cache' \in Seq(Cached) /\ ocall' \in SUBSET Rec
        BY DEF TypeOK, ContainerTypes, StoreDeferred, bufferVars
  <1> QED BY <1>1, <1>2, StoreFrame DEF StoreDeferred

LEMMA StoreSimilarMissingTypes ==
  ASSUME TypeOK, StoreSimilarMissing
  PROVE  TypeOK'
  <1>1. StoredTypes'
        BY AtNewChunkType, SavebaseChunkType DEF StoreSimilarMissing
  <1>2. cache' \in Seq(Cached) /\ ocall' \in SUBSET Rec
        BY DEF TypeOK, ContainerTypes, StoreSimilarMissing, bufferVars
  <1> QED BY <1>1, <1>2, StoreFrame DEF StoreSimilarMissing

LEMMA StoreSimilarCachedTypes ==
  ASSUME TypeOK, StoreSimilarCached
  PROVE  TypeOK'
  <1> DEFINE e == Head(batch.todo)
  <1>1. PICK i \in CachePos(e.baddr.cid) :
           /\ cache' = Append(CacheBut(i), cache[i])
           /\ CodeAgainst(e, ContentAt(cache[i].buf, e.baddr))
        BY DEF StoreSimilarCached
  <1>2. cache \in Seq(Cached) /\ ocall \in SUBSET Rec
        BY DEF TypeOK, ContainerTypes
  <1>3. i \in 1 .. Len(cache) /\ Len(cache) \in Nat
        BY <1>2, LenProperties DEF CachePos
  <1>4. cache[i] \in Cached /\ \A j \in 1 .. Len(cache) : cache[j] \in Cached
        BY <1>2, <1>3, ElementOfSeq
  <1>5. SubSeq(cache, 1, i - 1) \in Seq(Cached) /\ SubSeq(cache, i + 1, Len(cache)) \in Seq(Cached)
    <2>1. /\ \A j \in 1 .. i - 1 : cache[j] \in Cached
          /\ \A j \in i + 1 .. Len(cache) : cache[j] \in Cached
          BY <1>3, <1>4
    <2> QED BY <1>3, <2>1, SubSeqProperties
  <1>6. CacheBut(i) \in Seq(Cached)
        BY <1>5, ConcatProperties DEF CacheBut
  <1>7. cache' \in Seq(Cached)
        BY <1>1, <1>4, <1>6, AppendProperties
  <1>8. ContentAt(cache[i].buf, e.baddr) \in Chunks \cup {Garbage}
        BY <1>4, ContentAtType DEF Cached
  <1>9. StoredTypes'
        BY <1>1, <1>8, AtNewChunkType, CodeAgainstType DEF StoreSimilarCached
  <1>10. ocall' \in SUBSET Rec
        BY <1>2 DEF StoreSimilarCached
  <1> QED BY <1>7, <1>9, <1>10, StoreFrame DEF StoreSimilarCached

LEMMA StoreSimilarLoadedTypes ==
  ASSUME TypeOK, StoreSimilarLoaded
  PROVE  TypeOK'
  <1> DEFINE e == Head(batch.todo)
             k == e.baddr.cid
  <1>1. e \in Entry
        BY AtNewChunkType DEF StoreSimilarLoaded
  <1>2. /\ ocall' = Load(file[k]) /\ cache' = CacheInsert(k, ocall')
        /\ CodeAgainst(e, ContentAt(ocall', e.baddr))
        BY DEF StoreSimilarLoaded
  <1>3. k \in Nat
        BY <1>1 DEF Entry, Addr
  <1>4. cache \in Seq(Cached) /\ ocall \in SUBSET Rec /\ file \in [Cids -> File]
        BY DEF TypeOK, ContainerTypes
  <1>5. file[k] \in File
        BY <1>4 DEF StoreSimilarLoaded, HasFile
  <1>6. ocall' \in SUBSET Rec
        BY <1>2, <1>4, <1>5, LoadType
  <1>7. [cid |-> k, buf |-> ocall'] \in Cached
        BY <1>3, <1>6 DEF Cached
  <1>8. cache' \in Seq(Cached)
    <2> DEFINE c == IF Len(cache) + 1 > CacheSize THEN Tail(cache) ELSE cache
    <2>1. CASE Len(cache) + 1 > CacheSize
      <3>1. cache # <<>>
            BY <2>1, BoundAssumption
      <3> QED BY <1>2, <1>4, <1>7, <2>1, <3>1, HeadTailProperties, AppendProperties DEF CacheInsert
    <2>2. CASE ~(Len(cache) + 1 > CacheSize)
          BY <1>2, <1>4, <1>7, <2>2, AppendProperties DEF CacheInsert
    <2> QED BY <2>1, <2>2
  <1>9. ContentAt(ocall', e.baddr) \in Chunks \cup {Garbage}
        BY <1>6, ContentAtType
  <1>10. StoredTypes'
        BY <1>2, <1>9, AtNewChunkType, CodeAgainstType DEF StoreSimilarLoaded
  <1> QED BY <1>6, <1>8, <1>10, StoreFrame DEF StoreSimilarLoaded

LEMMA EndBatchTypes ==
  ASSUME TypeOK, EndBatch
  PROVE  TypeOK'
  <1>1. /\ fpIndex \in [Chunks -> Addr] /\ sfIndex \in [Features -> ChunkOrNone]
        /\ deltaIndex \in [Chunks -> SUBSET Chunks] /\ localTmp \in [Chunks -> ChunkOrNone]
        /\ skipMap \in [Chunks -> SUBSET Chunks] /\ batch.done \in Seq(Done)
        BY DEF TypeOK, IndexTypes, SessionTypes, Batch
  <1> DEFINE n == Len(batch.done)
  <1>2. n \in Nat /\ DOMAIN batch.done = 1 .. n
        BY <1>1, LenProperties
  <1>3. \A i \in 1 .. n : /\ batch.done[i].fp \in Chunks /\ batch.done[i].addr \in Addr
                          /\ batch.done[i].old \in ChunkOrNone
    <2>1. \A i \in 1 .. n : batch.done[i] \in Done
          BY <1>1, ElementOfSeq
    <2> QED BY <2>1 DEF Done
  <1> HIDE DEF n
  <1>4. fpIndex' \in [Chunks -> Addr]
    <2> DEFINE at(c) == batch.done[Min(DoneOf(c))].addr
    <2> SUFFICES ASSUME NEW c \in Chunks, DoneOf(c) # {}
                 PROVE  at(c) \in Addr
      <3>1. fpIndex' = [c \in Chunks |-> IF DoneOf(c) = {} THEN fpIndex[c] ELSE at(c)]
            BY DEF EndBatch, UpdateOutIndex
      <3> HIDE DEF at
      <3> QED BY <1>1, <3>1
    <2>1. DoneOf(c) \in SUBSET (1 .. n) /\ DoneOf(c) \in SUBSET Nat
          BY <1>2 DEF DoneOf
    <2>2. Min(DoneOf(c)) \in DoneOf(c)
          BY <2>1, MinIn
    <2> QED BY <1>3, <2>1, <2>2
  <1>5. sfIndex' \in [Features -> ChunkOrNone]
    <2> DEFINE front(f) == batch.done[Min(NewBases(f))].fp
    <2> SUFFICES ASSUME NEW f \in Features, NewBases(f) # {}
                 PROVE  front(f) \in ChunkOrNone
      <3>1. sfIndex' = [f \in Features |-> IF sfIndex[f] # NoChunk \/ NewBases(f) = {}
                                           THEN sfIndex[f] ELSE front(f)]
            BY DEF EndBatch, UpdateOutIndex
      <3> HIDE DEF front
      <3> QED BY <1>1, <3>1
    <2>1. NewBases(f) \in SUBSET (1 .. n) /\ NewBases(f) \in SUBSET Nat
          BY <1>2 DEF NewBases
    <2>2. Min(NewBases(f)) \in NewBases(f)
          BY <2>1, MinIn
    <2> QED BY <1>3, <2>1, <2>2 DEF ChunkOrNone
  <1>6. deltaIndex' \in [Chunks -> SUBSET Chunks]
        BY <1>1 DEF EndBatch, UpdateDeltaIndex
  <1>7. ASSUME NEW o \in Chunks, DeferredOn(o) # {}
        PROVE  /\ batch.done[Max(DeferredOn(o))].fp \in Chunks
               /\ \A i \in DeferredOn(o) : batch.done[i].fp \in Chunks
    <2>1. DeferredOn(o) \in SUBSET (1 .. n)
          BY <1>2 DEF DeferredOn
    <2>2. Max(DeferredOn(o)) \in DeferredOn(o)
          BY <1>2, <1>7, <2>1, MaxIn
    <2> QED BY <1>3, <2>1, <2>2
  <1>8. localTmp' \in [Chunks -> ChunkOrNone]
        BY <1>1, <1>7 DEF EndBatch, LocalInsert, ChunkOrNone
  <1>9. skipMap' \in [Chunks -> SUBSET Chunks]
    <2> DEFINE earlier(o) == ({localTmp[o]} \ {NoChunk})
                               \cup {batch.done[i].fp : i \in DeferredOn(o) \ {Max(DeferredOn(o))}}
    <2>1. ASSUME NEW o \in Chunks, DeferredOn(o) # {} PROVE earlier(o) \in SUBSET Chunks
          BY <1>1, <1>7, <2>1 DEF ChunkOrNone
    <2>2. skipMap' = [o \in Chunks |-> IF DeferredOn(o) = {} THEN skipMap[o]
                                       ELSE skipMap[o] \cup earlier(o)]
          BY DEF EndBatch, LocalInsert
    <2> HIDE DEF earlier
    <2> QED BY <1>1, <2>1, <2>2
  <1>10. batch' \in Batch /\ phase' \in Phases
        BY DEF EndBatch, Batch, NoBatch, Phases
  <1>11. IndexTypes'
        BY <1>4, <1>5, <1>6, <1>8, <1>9 DEF TypeOK, IndexTypes, EndBatch
  <1> QED BY <1>10, <1>11 DEF TypeOK, ContainerTypes, SessionTypes, OfflineTypes,
          EndBatch, writerVars, enclaveVars, bufferVars, offlineVars, historyVars

LEMMA RecipeEndTypes ==
  ASSUME TypeOK, RecipeEnd
  PROVE  TypeOK'
  <1>1. session \in Session /\ final \in SUBSET Chunks
        BY DEF TypeOK, SessionTypes
  <1>2. session' \in Session /\ final' \in SUBSET Chunks /\ phase' \in Phases
        BY <1>1 DEF RecipeEnd, Session, Phases
  <1> QED BY <1>2 DEF TypeOK, IndexTypes, ContainerTypes, SessionTypes, OfflineTypes,
          RecipeEnd, indexVars, localVars, writerVars, enclaveVars, bufferVars, offlineVars

\* What the receiver pushes at the end is a sequence of at most two containers.
LEMMA TailContainersType ==
  ASSUME inBase \in Container, inDelta \in Container
  PROVE  TailContainers \in Seq(QueuedContainer) /\ Len(TailContainers) \in Nat
  <1>1. ASSUME NEW c \in Container, NEW kind \in Kinds
        PROVE  TailOf(c, kind) \in Seq(QueuedContainer)
    <2>1. [cid |-> c.cid, recs |-> c.recs, size |-> c.size, kind |-> kind] \in QueuedContainer
          BY DEF Container, QueuedContainer
    <2> QED BY <2>1 DEF TailOf
  <1>2. "base" \in Kinds /\ "delta" \in Kinds
        BY DEF Kinds
  <1>3. TailContainers \in Seq(QueuedContainer)
        BY <1>1, <1>2, ConcatProperties DEF TailContainers
  <1> QED BY <1>3, LenProperties

LEMMA CloseSessionTypes ==
  ASSUME TypeOK, CloseSession
  PROVE  TypeOK'
  <1>1. /\ inBase \in Container /\ inDelta \in Container /\ nextCid \in Nat
        /\ queue \in Seq(QueuedContainer)
        BY DEF TypeOK, ContainerTypes
  <1>2. queue' \in Seq(QueuedContainer) /\ nextCid' \in Nat
        BY <1>1, TailContainersType, ConcatProperties DEF CloseSession
  <1>3. inBase' \in Container /\ inDelta' \in Container /\ phase' \in Phases
        BY EmptyContainerType DEF CloseSession, Phases
  <1> QED BY <1>2, <1>3 DEF TypeOK, IndexTypes, ContainerTypes, SessionTypes, OfflineTypes,
          CloseSession, indexVars, localVars, bufferVars, offlineVars, historyVars

LEMMA DisconnectTypes ==
  ASSUME TypeOK, Disconnect
  PROVE  TypeOK'
  <1>1. broken \in Nat
        BY DEF TypeOK, SessionTypes
  <1>2. inBase' \in Container /\ inDelta' \in Container /\ phase' \in Phases /\ broken' \in Nat
        BY <1>1, EmptyContainerType DEF Disconnect, Phases
  <1> QED BY <1>2 DEF TypeOK, IndexTypes, ContainerTypes, SessionTypes, OfflineTypes,
          Disconnect, indexVars, localVars, writerVars, bufferVars, offlineVars

LEMMA WriterTypes ==
  ASSUME TypeOK, WriterOpen \/ WriterSave
  PROVE  TypeOK'
  <1>1. /\ file \in [Cids -> File] /\ queue \in Seq(QueuedContainer)
        /\ writing \in Seq(QueuedContainer)
        BY DEF TypeOK, ContainerTypes
  <1>2. CASE WriterOpen
    <2>1. Head(queue) \in QueuedContainer /\ Tail(queue) \in Seq(QueuedContainer)
          BY <1>1, <1>2, HeadTailProperties DEF WriterOpen
    <2>2. [kind |-> Head(queue).kind, recs |-> {}, size |-> 0] \in File
          BY <2>1 DEF QueuedContainer, File
    <2>3. file' \in [Cids -> File]
          BY <1>1, <1>2, <2>2 DEF WriterOpen
    <2>4. queue' \in Seq(QueuedContainer) /\ writing' \in Seq(QueuedContainer)
          BY <1>2, <2>1 DEF WriterOpen
    <2> QED BY <1>2, <2>3, <2>4 DEF TypeOK, IndexTypes, ContainerTypes, SessionTypes, OfflineTypes,
            WriterOpen, indexVars, localVars, enclaveVars, bufferVars, offlineVars, historyVars
  <1>3. CASE WriterSave
    <2>1. writing[1] \in QueuedContainer
      <3>1. writing # <<>>
            BY <1>3 DEF WriterSave
      <3>2. 1 \in 1 .. Len(writing)
            BY <1>1, <3>1, EmptySeq
      <3> QED BY <1>1, <3>2, ElementOfSeq
    <2> DEFINE f == [kind |-> writing[1].kind, recs |-> writing[1].recs, size |-> writing[1].size]
    <2>2. f \in File
          BY <2>1 DEF QueuedContainer, File
    <2>4. file' = [file EXCEPT ![writing[1].cid] = f] /\ writing' = <<>>
          BY <1>3 DEF WriterSave
    <2> HIDE DEF f
    <2>5. file' \in [Cids -> File]
          BY <1>1, <2>2, <2>4
    <2>3. file' \in [Cids -> File] /\ writing' \in Seq(QueuedContainer)
          BY <2>4, <2>5, EmptySeq, Zenon
    <2> QED BY <1>3, <2>3 DEF TypeOK, IndexTypes, ContainerTypes, SessionTypes, OfflineTypes,
            WriterSave, indexVars, localVars, enclaveVars, bufferVars, offlineVars, historyVars
  <1> QED BY <1>2, <1>3

LEMMA EndUploadTypes ==
  ASSUME TypeOK, EndUpload
  PROVE  TypeOK'
  <1>1. session' \in Session /\ backup' \in Int /\ phase' \in Phases
        BY DEF EndUpload, Session, NoSession, Phases
  <1> QED BY <1>1 DEF TypeOK, IndexTypes, ContainerTypes, SessionTypes, OfflineTypes,
          EndUpload, indexVars, localVars, writerVars, enclaveVars, bufferVars, offlineVars,
          historyVars

-----------------------------------------------------------------------------
(* Type correctness of the offline path.                                   *)

LEMMA StartOfflineTypes ==
  ASSUME TypeOK, StartOffline
  PROVE  TypeOK'
  <1>1. /\ localTmp \in [Chunks -> ChunkOrNone] /\ skipMap \in [Chunks -> SUBSET Chunks]
        /\ localMap \in SUBSET (Chunks \X Chunks) /\ nextCid \in Nat
        BY DEF TypeOK, IndexTypes, ContainerTypes
  <1>2. RevisedPairs \in SUBSET (Chunks \X Chunks)
    <2> SUFFICES ASSUME NEW q \in RevisedPairs PROVE q \in Chunks \X Chunks
        OBVIOUS
    <2>1. PICK o \in Chunks : /\ localTmp[o] # NoChunk
                              /\ q = <<o, localTmp[o]>> \/ \E p \in skipMap[o] : q = <<p, localTmp[o]>>
          BY DEF RevisedPairs
    <2>2. localTmp[o] \in Chunks
          BY <1>1, <2>1 DEF ChunkOrNone
    <2> QED BY <1>1, <2>1, <2>2
  <1>3. localMap' \in SUBSET (Chunks \X Chunks)
        BY <1>1, <1>2 DEF StartOffline
  <1>4. localTmp' \in [Chunks -> ChunkOrNone] /\ skipMap' \in [Chunks -> SUBSET Chunks]
        BY DEF StartOffline, ClearLocal, ChunkOrNone
  <1>5. hot' \in Container /\ nextCid' \in Nat /\ phase' \in Phases
        BY <1>1, EmptyContainerType DEF StartOffline, Phases
  <1> QED BY <1>3, <1>4, <1>5 DEF TypeOK, IndexTypes, ContainerTypes, SessionTypes, OfflineTypes,
          StartOffline, indexVars, writerVars, bufferVars, historyVars

LEMMA CleanLocalIndexTypes ==
  ASSUME TypeOK, CleanLocalIndex
  PROVE  TypeOK'
  <1>1. nextCid \in Nat
        BY DEF TypeOK, ContainerTypes
  <1>2. /\ localTmp' \in [Chunks -> ChunkOrNone] /\ skipMap' \in [Chunks -> SUBSET Chunks]
        /\ localMap' \in SUBSET (Chunks \X Chunks)
        BY DEF CleanLocalIndex, ClearLocal, ChunkOrNone
  <1>3. session' \in Session /\ nextCid' \in Nat /\ phase' \in Phases /\ backup' \in Int
        BY <1>1 DEF CleanLocalIndex, Session, NoSession, Phases
  <1> QED BY <1>2, <1>3 DEF TypeOK, IndexTypes, ContainerTypes, SessionTypes, OfflineTypes,
          CleanLocalIndex, indexVars, writerVars, bufferVars, offlineVars, historyVars

\* Both ways to rewrite the super-feature index keep its type.
LEMMA SFTypes ==
  ASSUME NEW sf \in [Features -> ChunkOrNone], NEW c \in Chunks
  PROVE  EraseSF(sf, c) \in [Features -> ChunkOrNone] /\ ReplaceSF(sf, c) \in [Features -> ChunkOrNone]
  BY DEF EraseSF, ReplaceSF, ChunkOrNone

LEMMA PairTypes ==
  ASSUME TypeOK, NEW q \in localMap
  PROVE  /\ q[1] \in Chunks /\ q[2] \in Chunks
         /\ localMap \ {<<q[1], q[2]>>} \in SUBSET (Chunks \X Chunks)
         /\ EraseSF(sfIndex, q[1]) \in [Features -> ChunkOrNone]
         /\ ReplaceSF(EraseSF(sfIndex, q[1]), q[2]) \in [Features -> ChunkOrNone]
         /\ TakeDeltas(q[1]) \in [Chunks -> SUBSET Chunks]
  <1>1. /\ localMap \in SUBSET (Chunks \X Chunks) /\ sfIndex \in [Features -> ChunkOrNone]
        /\ deltaIndex \in [Chunks -> SUBSET Chunks]
        BY DEF TypeOK, IndexTypes
  <1>2. q[1] \in Chunks /\ q[2] \in Chunks
        BY <1>1
  <1>3. TakeDeltas(q[1]) \in [Chunks -> SUBSET Chunks]
        BY <1>1 DEF TakeDeltas
  <1> QED BY <1>1, <1>2, <1>3, SFTypes

LEMMA SkipPairTypes ==
  ASSUME TypeOK, NEW q \in localMap,
         SkipGreedy(q[1], q[2]) \/ SkipOldMissing(q[1], q[2]) \/ SkipNewMissing(q[1], q[2])
  PROVE  TypeOK'
  <1>1. CASE SkipGreedy(q[1], q[2])
    <2>1. IndexTypes'
          BY <1>1, PairTypes DEF TypeOK, IndexTypes, SkipGreedy
    <2> QED BY <1>1, <2>1 DEF TypeOK, ContainerTypes, SessionTypes, OfflineTypes,
            SkipGreedy, writerVars, enclaveVars, bufferVars, offlineVars, historyVars
  <1>2. CASE SkipOldMissing(q[1], q[2])
    <2>1. IndexTypes'
          BY <1>2, PairTypes DEF TypeOK, IndexTypes, SkipOldMissing, indexVars
    <2> QED BY <1>2, <2>1 DEF TypeOK, ContainerTypes, SessionTypes, OfflineTypes,
            SkipOldMissing, writerVars, enclaveVars, bufferVars, offlineVars, historyVars
  <1>3. CASE SkipNewMissing(q[1], q[2])
    <2>1. IndexTypes'
          BY <1>3, PairTypes DEF TypeOK, IndexTypes, SkipNewMissing
    <2>2. ocall \in SUBSET Rec /\ file \in [Cids -> File]
          BY DEF TypeOK, ContainerTypes
    <2>3. BaseFileOf(q[1]) \in File
          BY <1>3, <2>2 DEF SkipNewMissing, HasBaseFile, HasFile, BaseFileOf
    <2>4. ocall' \in SUBSET Rec
          BY <1>3, <2>2, <2>3, LoadType DEF SkipNewMissing
    <2> QED BY <1>3, <2>1, <2>4 DEF TypeOK, ContainerTypes, SessionTypes, OfflineTypes,
            SkipNewMissing, writerVars, enclaveVars, offlineVars, historyVars
  <1> QED BY <1>1, <1>2, <1>3

LEMMA BeginPairTypes ==
  ASSUME TypeOK, NEW q \in localMap, BeginPair(q[1], q[2])
  PROVE  TypeOK' /\ work'.old \in Chunks /\ work'.new \in Chunks
  <1> DEFINE o == q[1]
             n == q[2]
             oldbuf == Load(BaseFileOf(o))
             newbuf == BaseFileOf(n).recs \cup {r \in oldbuf : r.pos >= BaseFileOf(n).size}
  <1>1. o \in Chunks /\ n \in Chunks
        BY PairTypes
  <1>2. IndexTypes'
        BY PairTypes DEF TypeOK, IndexTypes, BeginPair
  <1>3. ocall \in SUBSET Rec /\ file \in [Cids -> File] /\ deltaIndex \in [Chunks -> SUBSET Chunks]
        BY DEF TypeOK, ContainerTypes, IndexTypes
  <1>4. BaseFileOf(o) \in File /\ BaseFileOf(n) \in File
        BY <1>3 DEF BeginPair, HasBaseFile, HasFile, BaseFileOf
  <1>5. oldbuf \in SUBSET Rec
        BY <1>3, <1>4, LoadType
  <1>6. /\ ocall' = newbuf /\ phase' = "deltas"
        /\ work' = [old |-> o, new |-> n, oldc |-> ContentAt(oldbuf, fpIndex[o]),
                    newc |-> ContentAt(newbuf, fpIndex[n]), deltas |-> deltaIndex[o], flag |-> TRUE]
        BY DEF BeginPair
  <1> HIDE DEF oldbuf
  <1>7. newbuf \in SUBSET Rec
        BY <1>4, <1>5 DEF File
  <1> HIDE DEF newbuf
  <1>8. /\ ContentAt(oldbuf, fpIndex[o]) \in Chunks \cup {Garbage}
        /\ ContentAt(newbuf, fpIndex[n]) \in Chunks \cup {Garbage}
        BY <1>5, <1>7, ContentAtType
  <1>9. work' \in Work /\ work'.old \in Chunks /\ work'.new \in Chunks
        BY <1>1, <1>3, <1>6, <1>8 DEF Work, ChunkOrNone
  <1>10. phase' \in Phases
        BY <1>6 DEF Phases
  <1> QED BY <1>2, <1>6, <1>7, <1>9, <1>10 DEF TypeOK, ContainerTypes, SessionTypes, OfflineTypes,
          BeginPair, writerVars, enclaveVars, historyVars

LEMMA HotFileType ==
  ASSUME hot \in Container
  PROVE  HotFile \in File
  BY DEF HotFile, Container, File, Kinds

\* A chunk written to the hot container: its new entry, its place in the
\* delta index and the mark on the container it leaves.
LEMMA MoveToHotType ==
  ASSUME TypeOK, NEW c \in Chunks, NEW len \in Nat, NEW src \in Chunks \cup {Garbage},
         MoveToHot(c, len, src)
  PROVE  /\ file' \in [Cids -> File] /\ nextCid' \in Nat /\ hot' \in Container
         /\ fpIndex' \in [Chunks -> Addr] /\ deltaIndex' \in [Chunks -> SUBSET Chunks]
         /\ cold' \in [Cids -> SUBSET (Int \X Int)]
  <1> DEFINE fits == Hdr + len + hot.size < MaxContainer
             h == IF fits THEN hot ELSE EmptyContainer(nextCid)
             a == [cid |-> h.cid, off |-> h.size, len |-> len, base |-> work.new]
             r == [pos |-> h.size, fp |-> c, addr |-> a, src |-> src]
             was == fpIndex[c]
  <1>1. /\ file \in [Cids -> File] /\ nextCid \in Nat /\ hot \in Container
        /\ fpIndex \in [Chunks -> Addr] /\ deltaIndex \in [Chunks -> SUBSET Chunks]
        /\ cold \in [Cids -> SUBSET (Int \X Int)] /\ work.new \in ChunkOrNone
        BY DEF TypeOK, IndexTypes, ContainerTypes, OfflineTypes, Work
  <1>2. /\ IF fits THEN UNCHANGED <<file, nextCid>>
           ELSE file' = [file EXCEPT ![hot.cid] = HotFile] /\ nextCid' = nextCid + 1
        /\ hot' = [h EXCEPT !.recs = @ \cup {r}, !.size = @ + Hdr + len]
        /\ fpIndex' = [fpIndex EXCEPT ![c] = a]
        /\ deltaIndex' = [deltaIndex EXCEPT ![work.new] = @ \cup {c}]
        /\ cold' = [cold EXCEPT ![was.cid] = @ \cup {ColdMark(was)}]
        BY DEF MoveToHot
  <1>3. file' \in [Cids -> File] /\ nextCid' \in Nat
        BY <1>1, <1>2, HotFileType
  <1>4. h \in Container
        BY <1>1, EmptyContainerType
  <1> HIDE DEF h
  <1>5. a \in Addr
        BY <1>1, <1>4 DEF Addr, Container
  <1> HIDE DEF a
  <1>6. r \in Rec
        BY <1>4, <1>5 DEF Rec, Container
  <1> HIDE DEF r
  <1>7. Hdr \in Int /\ len \in Int
        BY HdrType
  <1>8. hot' \in Container
        BY <1>2, <1>4, <1>6, <1>7, GrowType, Zenon
  <1>9. fpIndex' \in [Chunks -> Addr]
        BY <1>1, <1>2, <1>5
  <1>10. deltaIndex' \in [Chunks -> SUBSET Chunks]
        BY <1>1, <1>2
  <1>11. was \in Addr
        BY <1>1
  <1> HIDE DEF was
  <1>12. ColdMark(was) \in Int \X Int
        BY <1>11, HdrType DEF ColdMark, Addr
  <1>13. cold' \in [Cids -> SUBSET (Int \X Int)]
    <2>1. \A k \in Cids : cold[k] \cup {ColdMark(was)} \in SUBSET (Int \X Int)
          BY <1>1, <1>12
    <2> QED BY <1>1, <1>2, <2>1
  <1> QED BY <1>3, <1>8, <1>9, <1>10, <1>13

LEMMA RecodedType ==
  ASSUME work \in Work, NEW buf, NEW a
  PROVE  Recoded(buf, a) \in Chunks \cup {Garbage}
  BY DEF Recoded, Work

\* While the deltas of an old base are moved, the pair is a pair of chunks.
PairAtHand == phase = "deltas" => work.old \in Chunks /\ work.new \in Chunks

LEMMA MoveDeltaTypes ==
  ASSUME TypeOK, PairAtHand, NEW d \in work.deltas, MoveDelta(d)
  PROVE  TypeOK' /\ work'.old = work.old /\ work'.new = work.new
  <1> DEFINE buf == Load(file[fpIndex[d].cid])
             content == Recoded(buf, fpIndex[d])
  <1>1. /\ file \in [Cids -> File] /\ ocall \in SUBSET Rec /\ nextCid \in Nat /\ hot \in Container
        /\ fpIndex \in [Chunks -> Addr] /\ deltaIndex \in [Chunks -> SUBSET Chunks]
        /\ cold \in [Cids -> SUBSET (Int \X Int)] /\ work \in Work /\ backup \in Int
        BY DEF TypeOK, IndexTypes, ContainerTypes, OfflineTypes, SessionTypes
  <1>2. d \in Chunks /\ work.new \in Chunks
        BY <1>1 DEF Work, MoveDelta, PairAtHand
  <1>3. buf \in SUBSET Rec
        BY <1>1, LoadType DEF MoveDelta, HasDeltaFile, HasFile
  <1>4. content \in Chunks \cup {Garbage}
        BY <1>1, RecodedType
  <1>5. PICK len \in RecodedLens(d, content) :
          IF len > Size[d]
          THEN /\ work' = [work EXCEPT !.deltas = @ \ {d}, !.flag = FALSE]
               /\ UNCHANGED <<file, nextCid, hot, fpIndex, deltaIndex, cold, backup>>
          ELSE /\ work' = [work EXCEPT !.deltas = @ \ {d}]
               /\ backup' = backup - fpIndex[d].len + len
               /\ MoveToHot(d, len, content)
        BY DEF MoveDelta
  <1>6. ocall' = buf
        BY DEF MoveDelta
  <1> HIDE DEF buf, content
  <1>7. len \in Nat
        BY <1>2, <1>5, SizeAssumption DEF RecodedLens
  <1>8. work' \in Work /\ work'.old = work.old /\ work'.new = work.new
    <2>1. work.deltas \ {d} \in SUBSET Chunks
          BY <1>1 DEF Work
    <2>2. CASE work' = [work EXCEPT !.deltas = @ \ {d}, !.flag = FALSE]
          BY <1>1, <2>1, <2>2 DEF Work
    <2>3. CASE work' = [work EXCEPT !.deltas = @ \ {d}]
          BY <1>1, <2>1, <2>3 DEF Work
    <2> QED BY <1>5, <2>2, <2>3
  <1>9. /\ file' \in [Cids -> File] /\ nextCid' \in Nat /\ hot' \in Container
        /\ fpIndex' \in [Chunks -> Addr] /\ deltaIndex' \in [Chunks -> SUBSET Chunks]
        /\ cold' \in [Cids -> SUBSET (Int \X Int)]
        BY <1>1, <1>2, <1>4, <1>5, <1>7, MoveToHotType
  <1>10. backup' \in Int
        BY <1>1, <1>2, <1>5, <1>7 DEF Addr
  <1> QED BY <1>3, <1>6, <1>8, <1>9, <1>10 DEF TypeOK, IndexTypes, ContainerTypes, SessionTypes,
          OfflineTypes, MoveDelta, localVars, writerVars, historyVars

LEMMA MoveBaseTypes ==
  ASSUME TypeOK, PairAtHand, MoveBase
  PROVE  TypeOK'
  <1> DEFINE o == work.old
             len == DSize[o][work.new]
             src == IF work.oldc = o THEN work.newc ELSE Garbage
  <1>1. /\ file \in [Cids -> File] /\ nextCid \in Nat /\ hot \in Container
        /\ fpIndex \in [Chunks -> Addr] /\ deltaIndex \in [Chunks -> SUBSET Chunks]
        /\ cold \in [Cids -> SUBSET (Int \X Int)] /\ work \in Work /\ backup \in Int
        BY DEF TypeOK, IndexTypes, ContainerTypes, OfflineTypes, SessionTypes
  <1>2. o \in Chunks /\ work.new \in Chunks
        BY DEF MoveBase, PairAtHand
  <1>3. len \in Nat /\ src \in Chunks \cup {Garbage}
        BY <1>1, <1>2, SizeAssumption DEF Work
  <1>4. /\ backup' = IF len > Size[o] THEN backup ELSE backup - fpIndex[o].len + len
        /\ IF BaseMoves(len) THEN MoveToHot(o, len, src)
           ELSE UNCHANGED <<file, nextCid, hot, fpIndex, deltaIndex, cold>>
        BY DEF MoveBase
  <1> HIDE DEF len, src
  <1>5. /\ file' \in [Cids -> File] /\ nextCid' \in Nat /\ hot' \in Container
        /\ fpIndex' \in [Chunks -> Addr] /\ deltaIndex' \in [Chunks -> SUBSET Chunks]
        /\ cold' \in [Cids -> SUBSET (Int \X Int)]
        BY <1>1, <1>2, <1>3, <1>4, MoveToHotType
  <1>6. backup' \in Int
        BY <1>1, <1>2, <1>3, <1>4 DEF Addr
  <1>7. work' \in Work /\ phase' \in Phases
        BY DEF MoveBase, Work, NoWork, ChunkOrNone, Phases
  <1> QED BY <1>5, <1>6, <1>7 DEF TypeOK, IndexTypes, ContainerTypes, SessionTypes,
          OfflineTypes, MoveBase, localVars, writerVars, bufferVars, historyVars

LEMMA ReadStaleDeltaTypes ==
  ASSUME TypeOK, NEW d, ReadStaleDelta(d)
  PROVE  TypeOK'
  BY DEF TypeOK, IndexTypes, ContainerTypes, SessionTypes, OfflineTypes, ReadStaleDelta, Phases,
         indexVars, localVars, writerVars, enclaveVars, bufferVars, offlineVars, historyVars

LEMMA SaveHotTypes ==
  ASSUME TypeOK, SaveHot
  PROVE  TypeOK'
  <1>1. hot \in Container /\ file \in [Cids -> File]
        BY DEF TypeOK, ContainerTypes
  <1>2. file' \in [Cids -> File] /\ hot' \in Container /\ phase' \in Phases
        BY <1>1, HotFileType, EmptyContainerType DEF SaveHot, Phases
  <1> QED BY <1>2 DEF TypeOK, IndexTypes, ContainerTypes, SessionTypes, OfflineTypes,
          SaveHot, indexVars, localVars, writerVars, enclaveVars, bufferVars, historyVars

LEMMA BeginColdTypes ==
  ASSUME TypeOK, NEW k \in Cids, BeginCold(k)
  PROVE  TypeOK'
  <1>1. /\ file \in [Cids -> File] /\ ocall \in SUBSET Rec
        /\ cold \in [Cids -> SUBSET (Int \X Int)]
        BY DEF TypeOK, ContainerTypes, OfflineTypes
  <1>2. file[k] \in File /\ k \in Nat /\ cold[k] \in SUBSET (Int \X Int)
        BY <1>1 DEF Cids
  <1>3. ocall' \in SUBSET Rec
        BY <1>1, <1>2, LoadType DEF BeginCold
  <1>4. walk' = [cid |-> k, buf |-> ocall', size |-> file[k].size, rest |-> cold[k], saveset |-> 0,
                 newset |-> 0, coldset |-> 0, recs |-> {}]
        BY DEF BeginCold, NoWalk
  <1>7. file[k].size \in Int
        BY <1>2 DEF File
  <1>5. walk' \in Walk
        BY <1>2, <1>3, <1>4, <1>7 DEF Walk
  <1>6. cold' \in [Cids -> SUBSET (Int \X Int)] /\ phase' \in Phases
        BY <1>1 DEF BeginCold, Phases
  <1> QED BY <1>3, <1>5, <1>6 DEF TypeOK, IndexTypes, ContainerTypes, SessionTypes,
          OfflineTypes, BeginCold, indexVars, localVars, writerVars, enclaveVars, historyVars

LEMMA CopyRecordTypes ==
  ASSUME TypeOK, NEW r \in walk.buf, CopyRecord(r)
  PROVE  TypeOK'
  <1> DEFINE a == Lowered(r.addr)
             s == [r EXCEPT !.pos = walk.newset, !.addr = a]
  <1>1. walk \in Walk /\ fpIndex \in [Chunks -> Addr]
        BY DEF TypeOK, IndexTypes, OfflineTypes
  <1>2. /\ r \in Rec /\ walk.newset \in Int /\ walk.coldset \in Int /\ walk.saveset \in Int
        /\ walk.recs \in SUBSET Rec
        BY <1>1 DEF Walk
  <1>3. r.addr \in Addr /\ r.addr.len \in Int /\ r.fp \in Chunks
        BY <1>2 DEF Rec, Addr
  <1>4. a \in Addr
        BY <1>2, <1>3 DEF Lowered, Addr
  <1>5. /\ walk' = [walk EXCEPT !.recs = @ \cup {s}, !.saveset = @ + Hdr + r.addr.len,
                                !.newset = @ + Hdr + r.addr.len]
        /\ fpIndex' = [fpIndex EXCEPT ![r.fp] = a]
        BY DEF CopyRecord
  <1> HIDE DEF a
  <1>6. s \in Rec
        BY <1>2, <1>4 DEF Rec
  <1> HIDE DEF s
  <1>7. /\ walk.recs \cup {s} \in SUBSET Rec
        /\ walk.saveset + Hdr + r.addr.len \in Int /\ walk.newset + Hdr + r.addr.len \in Int
        BY <1>2, <1>3, <1>6, HdrType
  <1>8. walk' \in Walk
        BY <1>1, <1>5, <1>7 DEF Walk
  <1>9. fpIndex' \in [Chunks -> Addr]
        BY <1>1, <1>4, <1>5
  <1> QED BY <1>8, <1>9 DEF TypeOK, IndexTypes, ContainerTypes, SessionTypes, OfflineTypes,
          CopyRecord, localVars, writerVars, enclaveVars, bufferVars, historyVars

LEMMA DropRecordTypes ==
  ASSUME TypeOK, NEW q \in walk.rest, DropRecord(q)
  PROVE  TypeOK'
  <1>1. walk \in Walk
        BY DEF TypeOK, OfflineTypes
  <1>2. q[2] \in Int
        BY <1>1 DEF Walk
  <1>4. /\ walk.rest \ {q} \in SUBSET (Int \X Int)
        /\ walk.coldset + q[2] \in Int /\ walk.saveset + q[2] \in Int
        BY <1>1, <1>2 DEF Walk
  <1>3. walk' \in Walk
        BY <1>1, <1>4 DEF Walk, DropRecord
  <1> QED BY <1>3 DEF TypeOK, IndexTypes, ContainerTypes, SessionTypes, OfflineTypes,
          DropRecord, indexVars, localVars, writerVars, enclaveVars, bufferVars, historyVars

LEMMA EndColdTypes ==
  ASSUME TypeOK, EndCold
  PROVE  TypeOK'
  <1>1. walk \in Walk /\ file \in [Cids -> File]
        BY DEF TypeOK, ContainerTypes, OfflineTypes
  <1>2. walk.recs \in SUBSET Rec /\ walk.size - walk.coldset \in Int
        BY <1>1 DEF Walk
  <1>3. file' = [file EXCEPT ![walk.cid].recs = walk.recs,
                             ![walk.cid].size = walk.size - walk.coldset]
        BY DEF EndCold
  <1>4. file' \in [Cids -> File]
        BY <1>1, <1>2, <1>3 DEF File
  <1>5. walk' \in Walk /\ phase' \in Phases
        BY DEF EndCold, Walk, NoWalk, Phases
  <1> QED BY <1>4, <1>5 DEF TypeOK, IndexTypes, ContainerTypes, SessionTypes, OfflineTypes,
          EndCold, indexVars, localVars, writerVars, enclaveVars, bufferVars, historyVars

LEMMA GetMergeContainerTypes ==
  ASSUME TypeOK, GetMergeContainer
  PROVE  TypeOK'
  <1>1. merges' \in SUBSET (Cids \X Cids) /\ phase' \in Phases
        BY DEF GetMergeContainer, MergePairs, Neighbours, BaseCids, Phases
  <1> QED BY <1>1 DEF TypeOK, IndexTypes, ContainerTypes, SessionTypes, OfflineTypes,
          GetMergeContainer, indexVars, localVars, writerVars, enclaveVars, bufferVars, historyVars

\* A record moved to the end of another container is a record.
LEMMA ShiftedType ==
  ASSUME NEW r \in Rec, NEW k \in Nat, NEW by \in Int
  PROVE  Shifted(r, k, by) \in Rec /\ Shifted(r, k, by).addr \in Addr
  <1>1. r.addr \in Addr /\ r.pos + by \in Int
        BY DEF Rec
  <1>3. r.addr.off + by \in Int
        BY <1>1 DEF Addr
  <1>2. [r.addr EXCEPT !.cid = k, !.off = @ + by] \in Addr
        BY <1>1, <1>3 DEF Addr
  <1> QED BY <1>1, <1>2 DEF Shifted, Rec

LEMMA MergePairTypes ==
  ASSUME TypeOK, NEW q \in merges, MergePair(q)
  PROVE  TypeOK'
  <1> DEFINE by == file[q[1]].size
             moved(c) == {r \in file[q[2]].recs : r.fp = c}
             more == {Shifted(r, q[1], by) : r \in file[q[2]].recs}
             at(c) == Shifted(CHOOSE r \in moved(c) : TRUE, q[1], by).addr
  <1>1. /\ file \in [Cids -> File] /\ fpIndex \in [Chunks -> Addr]
        /\ merges \in SUBSET (Cids \X Cids)
        BY DEF TypeOK, IndexTypes, ContainerTypes, OfflineTypes
  <1>2. q[1] \in Cids /\ q[2] \in Cids /\ q[1] \in Nat
        BY <1>1 DEF Cids
  <1>3. file[q[1]] \in File /\ file[q[2]] \in File
        BY <1>1, <1>2
  <1>4. by \in Int /\ file[q[2]].recs \in SUBSET Rec /\ file[q[2]].size \in Int
        BY <1>3 DEF File
  <1>5. /\ file' = [file EXCEPT ![q[1]].recs = @ \cup more, ![q[1]].size = @ + file[q[2]].size,
                                ![q[2]] = NoFile]
        /\ fpIndex' = [c \in Chunks |-> IF moved(c) = {} THEN fpIndex[c] ELSE at(c)]
        /\ merges' = merges \ {q}
        BY DEF MergePair
  <1> HIDE DEF by
  <1>6. more \in SUBSET Rec
        BY <1>2, <1>4, ShiftedType
  <1>7. ASSUME NEW c \in Chunks, moved(c) # {} PROVE at(c) \in Addr
    <2>1. (CHOOSE r \in moved(c) : TRUE) \in Rec
          BY <1>4, <1>7
    <2> QED BY <1>2, <1>4, <2>1, ShiftedType
  <1> HIDE DEF more, at, moved
  <1>8. fpIndex' \in [Chunks -> Addr]
        BY <1>1, <1>5, <1>7
  <1>9. file' \in [Cids -> File]
    <2>1. file[q[1]].recs \cup more \in SUBSET Rec /\ file[q[1]].size + file[q[2]].size \in Int
          BY <1>3, <1>6 DEF File
    <2>2. NoFile \in File
          BY DEF NoFile, File
    <2> DEFINE f1 == [file EXCEPT ![q[1]].recs = @ \cup more]
               f2 == [f1 EXCEPT ![q[1]].size = @ + file[q[2]].size]
    <2>3. f1 \in [Cids -> File] /\ f1[q[1]].size = file[q[1]].size
          BY <1>1, <1>2, <1>3, <2>1 DEF File
    <2>4. file' = [f2 EXCEPT ![q[2]] = NoFile]
          BY <1>5
    <2> HIDE DEF f1
    <2>5. f2 \in [Cids -> File]
          BY <1>2, <2>1, <2>3 DEF File
    <2> HIDE DEF f2
    <2> QED BY <2>2, <2>4, <2>5
  <1>10. merges' \in SUBSET (Cids \X Cids)
        BY <1>1, <1>5
  <1> QED BY <1>8, <1>9, <1>10 DEF TypeOK, IndexTypes, ContainerTypes, SessionTypes, OfflineTypes,
          MergePair, localVars, writerVars, enclaveVars, bufferVars, historyVars

LEMMA EndOfflineTypes ==
  ASSUME TypeOK, EndOffline
  PROVE  TypeOK'
  <1>1. session' \in Session /\ backup' \in Int /\ phase' \in Phases
        BY DEF EndOffline, Session, NoSession, Phases
  <1> QED BY <1>1 DEF TypeOK, IndexTypes, ContainerTypes, SessionTypes, OfflineTypes,
          EndOffline, indexVars, localVars, writerVars, enclaveVars, bufferVars, offlineVars,
          historyVars

-----------------------------------------------------------------------------
(* What the five actions that store a chunk have in common.                *)

StoreNew == StoreUnique \/ StoreDeferred \/ StoreSimilarCached \/ StoreSimilarLoaded
              \/ StoreSimilarMissing

\* Coding against what was read keeps the chunk as a base or as a delta.
LEMMA CodeAgainstCases ==
  ASSUME NEW e \in Entry, e.base # NoChunk, NEW content \in Chunks \cup {Garbage},
         CodeAgainst(e, content)
  PROVE  \/ SavebaseChunk(e.fp, NoChunk)
         \/ \E len \in Nat : len < Size[e.fp] /\ SavedeltaChunk(e.fp, len, e.base, content)
  <1> DEFINE len == DSize[e.fp][IF content = Garbage THEN e.base ELSE content]
  <1>1. e.fp \in Chunks /\ e.base \in Chunks
        BY DEF Entry, ChunkOrNone
  <1>2. len \in Nat
        BY <1>1, SizeAssumption
  <1>3. \/ len < Size[e.fp] /\ SavedeltaChunk(e.fp, len, e.base, content)
        \/ SavebaseChunk(e.fp, NoChunk)
        BY DEF CodeAgainst
  <1> HIDE DEF len
  <1> QED BY <1>2, <1>3

LEMMA StoreCases ==
  ASSUME TypeOK, TypeOK', StoreNew
  PROVE  /\ AtNewChunk /\ UNCHANGED <<phase, hot, writing, file, fpIndex>>
         /\ \/ \E old \in ChunkOrNone :
                  /\ old = NoChunk \/ old = Head(batch.todo).base
                  /\ SavebaseChunk(Head(batch.todo).fp, old)
            \/ \E len \in Nat, src \in Chunks \cup {Garbage} :
                  /\ Head(batch.todo).base # NoChunk /\ len < Size[Head(batch.todo).fp]
                  /\ SavedeltaChunk(Head(batch.todo).fp, len, Head(batch.todo).base, src)
  <1> DEFINE e == Head(batch.todo)
  <1>1. AtNewChunk /\ UNCHANGED <<phase, hot, writing, file, fpIndex>>
        BY DEF StoreNew, StoreUnique, StoreDeferred, StoreSimilarCached, StoreSimilarLoaded,
               StoreSimilarMissing, offlineVars, indexVars
  <1>2. e \in Entry /\ e.base \in ChunkOrNone /\ NoChunk \in ChunkOrNone
        BY <1>1, AtNewChunkType
  <1>3. CASE StoreUnique \/ StoreDeferred \/ StoreSimilarMissing
        BY <1>1, <1>2, <1>3 DEF StoreUnique, StoreDeferred, StoreSimilarMissing
  <1>4. CASE StoreSimilarCached
    <2>1. PICK i \in CachePos(e.baddr.cid) : CodeAgainst(e, ContentAt(cache[i].buf, e.baddr))
          BY <1>4 DEF StoreSimilarCached
    <2>2. cache \in Seq(Cached)
          BY DEF TypeOK, ContainerTypes
    <2>3. i \in 1 .. Len(cache)
          BY <2>2, LenProperties DEF CachePos
    <2>4. cache[i] \in Cached
          BY <2>2, <2>3, ElementOfSeq
    <2>5. cache[i].buf \in SUBSET Rec
          BY <2>4 DEF Cached
    <2>6. ContentAt(cache[i].buf, e.baddr) \in Chunks \cup {Garbage}
          BY <2>5, ContentAtType
    <2>7. e.base # NoChunk
          BY <1>4 DEF StoreSimilarCached
    <2> HIDE DEF e
    <2>8. \/ SavebaseChunk(e.fp, NoChunk)
          \/ \E len \in Nat, src \in Chunks \cup {Garbage} :
                len < Size[e.fp] /\ SavedeltaChunk(e.fp, len, e.base, src)
          BY <1>2, <2>1, <2>6, <2>7, CodeAgainstCases
    <2> QED BY <1>1, <1>2, <2>7, <2>8 DEF e
  <1>5. CASE StoreSimilarLoaded
    <2>1. CodeAgainst(e, ContentAt(ocall', e.baddr)) /\ e.base # NoChunk
          BY <1>5 DEF StoreSimilarLoaded
    <2>2. ContentAt(ocall', e.baddr) \in Chunks \cup {Garbage}
          BY ContentAtType DEF TypeOK, ContainerTypes
    <2> HIDE DEF e
    <2>3. \/ SavebaseChunk(e.fp, NoChunk)
          \/ \E len \in Nat, src \in Chunks \cup {Garbage} :
                len < Size[e.fp] /\ SavedeltaChunk(e.fp, len, e.base, src)
          BY <1>2, <2>1, <2>2, CodeAgainstCases
    <2> QED BY <1>1, <1>2, <2>1, <2>3 DEF e
  <1> QED BY <1>3, <1>4, <1>5 DEF StoreNew

-----------------------------------------------------------------------------
(* The inductive invariant of type correctness.                            *)

TypeInv == TypeOK /\ PairAtHand

LEMMA TypeInvInit == Init => TypeInv
  <1>1. Init => PairAtHand
        BY DEF Init, PairAtHand
  <1> QED BY <1>1, InitTypes DEF TypeInv

LEMMA TypeInvNext ==
  ASSUME TypeInv, [Next]_vars
  PROVE  TypeInv'
  <1> USE DEF TypeInv
  <1>1. CASE \E op \in {"upload", "offline"} : StartSession(op)
        BY <1>1, StartSessionTypes DEF PairAtHand, StartSession
  <1>2. CASE Receive
    <2>1. PICK b \in Batches : RecvBatch(b)
          BY <1>2 DEF Receive
    <2> QED BY <2>1, RecvBatchTypes DEF PairAtHand, RecvBatch
  <1>3. CASE SkipDuplicate
        BY <1>3, SkipDuplicateTypes DEF PairAtHand, SkipDuplicate, offlineVars
  <1>4. CASE StoreUnique
        BY <1>4, StoreUniqueTypes DEF PairAtHand, StoreUnique, offlineVars
  <1>5. CASE StoreDeferred
        BY <1>5, StoreDeferredTypes DEF PairAtHand, StoreDeferred, offlineVars
  <1>6. CASE StoreSimilarCached
        BY <1>6, StoreSimilarCachedTypes DEF PairAtHand, StoreSimilarCached, offlineVars
  <1>7. CASE StoreSimilarLoaded
        BY <1>7, StoreSimilarLoadedTypes DEF PairAtHand, StoreSimilarLoaded, offlineVars
  <1>8. CASE StoreSimilarMissing
        BY <1>8, StoreSimilarMissingTypes DEF PairAtHand, StoreSimilarMissing, offlineVars
  <1>9. CASE EndBatch
        BY <1>9, EndBatchTypes DEF PairAtHand, EndBatch
  <1>10. CASE RecipeEnd
        BY <1>10, RecipeEndTypes DEF PairAtHand, RecipeEnd
  <1>11. CASE CloseSession
        BY <1>11, CloseSessionTypes DEF PairAtHand, CloseSession
  <1>12. CASE Disconnect
        BY <1>12, DisconnectTypes DEF PairAtHand, Disconnect
  <1>13. CASE WriterOpen
        BY <1>13, WriterTypes DEF PairAtHand, WriterOpen, offlineVars
  <1>14. CASE WriterSave
        BY <1>14, WriterTypes DEF PairAtHand, WriterSave, offlineVars
  <1>15. CASE EndUpload
        BY <1>15, EndUploadTypes DEF PairAtHand, EndUpload
  <1>16. CASE StartOffline
        BY <1>16, StartOfflineTypes DEF PairAtHand, StartOffline
  <1>17. CASE CleanLocalIndex
        BY <1>17, CleanLocalIndexTypes DEF PairAtHand, CleanLocalIndex
  <1>18. CASE \E p \in localMap : SkipGreedy(p[1], p[2])
        BY <1>18, SkipPairTypes DEF PairAtHand, SkipGreedy, offlineVars
  <1>19. CASE \E p \in localMap : SkipOldMissing(p[1], p[2])
        BY <1>19, SkipPairTypes DEF PairAtHand, SkipOldMissing, offlineVars
  <1>20. CASE \E p \in localMap : SkipNewMissing(p[1], p[2])
        BY <1>20, SkipPairTypes DEF PairAtHand, SkipNewMissing, offlineVars
  <1>21. CASE \E p \in localMap : BeginPair(p[1], p[2])
        BY <1>21, BeginPairTypes DEF PairAtHand
  <1>22. CASE \E d \in work.deltas : MoveDelta(d)
        BY <1>22, MoveDeltaTypes DEF PairAtHand, MoveDelta
  <1>23. CASE \E d \in work.deltas : ReadStaleDelta(d)
        BY <1>23, ReadStaleDeltaTypes DEF PairAtHand, ReadStaleDelta
  <1>24. CASE MoveBase
        BY <1>24, MoveBaseTypes DEF PairAtHand, MoveBase
  <1>25. CASE SaveHot
        BY <1>25, SaveHotTypes DEF PairAtHand, SaveHot
  <1>26. CASE \E k \in Cids : BeginCold(k)
        BY <1>26, BeginColdTypes DEF PairAtHand, BeginCold
  <1>27. CASE \E r \in walk.buf : CopyRecord(r)
        BY <1>27, CopyRecordTypes DEF PairAtHand, CopyRecord
  <1>28. CASE \E q \in walk.rest : DropRecord(q)
        BY <1>28, DropRecordTypes DEF PairAtHand, DropRecord
  <1>29. CASE EndCold
        BY <1>29, EndColdTypes DEF PairAtHand, EndCold
  <1>30. CASE GetMergeContainer
        BY <1>30, GetMergeContainerTypes DEF PairAtHand, GetMergeContainer
  <1>31. CASE \E q \in merges : MergePair(q)
        BY <1>31, MergePairTypes DEF PairAtHand, MergePair
  <1>32. CASE EndOffline
        BY <1>32, EndOfflineTypes DEF PairAtHand, EndOffline
  <1>33. CASE UNCHANGED vars
        BY <1>33 DEF PairAtHand, TypeOK, IndexTypes, ContainerTypes, SessionTypes, OfflineTypes,
           vars, indexVars, localVars, writerVars, enclaveVars, bufferVars, offlineVars, historyVars
  <1> QED BY <1>1, <1>2, <1>3, <1>4, <1>5, <1>6, <1>7, <1>8, <1>9, <1>10, <1>11, <1>12, <1>13,
         <1>14, <1>15, <1>16, <1>17, <1>18, <1>19, <1>20, <1>21, <1>22, <1>23, <1>24, <1>25,
         <1>26, <1>27, <1>28, <1>29, <1>30, <1>31, <1>32, <1>33 DEF Next

\* Every variable keeps its type whatever the chunks, sizes and bounds: what
\* LocalInsert, InsertSF, the offline pass and the container walks store are
\* chunks, addresses and records, never the marks for "none" or "garbage".
THEOREM TypeCorrect == Spec => []TypeOK
  <1>1. TypeInv /\ [Next]_vars => TypeInv'
        BY TypeInvNext
  <1>2. TypeInv => TypeOK
        BY DEF TypeInv
  <1> QED BY <1>1, <1>2, TypeInvInit, PTL DEF Spec
=============================================================================
