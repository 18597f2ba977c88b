---------------------------- MODULE InlineUpload ----------------------------
(***************************************************************************)
(* The upload path: the DataReceiver thread that hands every batch to the  *)
(* enclave (ProcessOneBatch), the enclave's deduplication and inline delta *)
(* compression, and the DataWriter thread that saves full containers while *)
(* the receiver goes on.                                                   *)
(***************************************************************************)
EXTENDS ShieldStore, FiniteSetsExt

\* Batch_ContainerIDset.size() > thresold
LocalThreshold(n) ==
    IF IndexType = "FORWORD" THEN n * 128 ELSE (n * ThNum) \div ThDen

\* QuerySF: the front of the first of the maps that has the key.
QuerySF(c) ==
    LET hits == {i \in DOMAIN SFs[c] : sfIndex[SFs[c][i]] # NoChunk}
    IN  IF hits = {} THEN NoChunk
        ELSE sfIndex[SFs[c][Min(hits)]]

\* A chunk is new when it is in no index (Ocall_QueryOutIndex, the top-k
\* index) and its first occurrence in the batch (the local index).
IsNew(b, i) == ~Indexed(b[i]) /\ \A j \in 1 .. i - 1 : b[j] # b[i]

\* Ocall_QueryOutBasechunk: a new chunk's similar base and where it is.
QueryEntry(b, i) ==
    LET base == IF IsNew(b, i) THEN QuerySF(b[i]) ELSE NoChunk
    IN  [fp |-> b[i], new |-> IsNew(b, i), base |-> base,
         baddr |-> IF base = NoChunk THEN NoAddr ELSE fpIndex[base]]
Entries(b) == [i \in 1 .. Len(b) |-> QueryEntry(b, i)]

\* LocalChecker: too many distinct base containers defer the whole batch.
LocalChecker(b) ==
    LET similar == {i \in DOMAIN b : QueryEntry(b, i).base # NoChunk}
    IN  Cardinality({QueryEntry(b, i).baddr.cid : i \in similar}) > LocalThreshold(Len(b))

-----------------------------------------------------------------------------
(* The session thread and the receiver.                                    *)

\* A client logs in; ClientVar::InitUploadBuffer names two containers.
StartSession(op) ==
    /\ phase = "idle" /\ sessions < MaxSessions /\ nextCid + 1 <= MaxCid
    /\ phase' = "recv"
    /\ session' = [NoSession EXCEPT !.op = op]
    /\ inBase' = EmptyContainer(nextCid)
    /\ inDelta' = EmptyContainer(nextCid + 1)
    /\ nextCid' = nextCid + 2
    /\ sessions' = sessions + 1
    /\ UNCHANGED <<indexVars, localVars, file, writerVars, bufferVars, batch, backup,
                   offlineVars, final, broken, staleUse, nbatches>>

\* CLIENT_UPLOAD_CHUNK: deduplicate, look for similar bases, check the
\* number of base containers.  The enclave works on this snapshot.
RecvBatch(b) ==
    /\ phase = "recv" /\ nbatches < MaxBatches
    /\ phase' = "batch"
    /\ batch' = [todo |-> Entries(b), done |-> <<>>, local |-> LocalChecker(b)]
    /\ nbatches' = nbatches + 1
    /\ UNCHANGED <<indexVars, localVars, file, writerVars, enclaveVars, bufferVars, session, backup,
                   offlineVars, final, broken, staleUse, sessions>>

\* Mutant: only what is in the container already is compared.
FitsBefore(c, len) == c.size < MaxContainer

\* saveOffset + the record < MAX_CONTAINER_SIZE
Fits(c, len) == Hdr + len + c.size < MaxContainer

\* Mutant: the entry names the container that was just handed over.
SaveRecordOldName(c, fp, len, base, src) ==
    LET d == IF Fits(c, len) THEN c ELSE EmptyContainer(nextCid)
        a == [cid |-> c.cid, off |-> d.size, len |-> len, base |-> base]
    IN  [cont |-> [d EXCEPT !.recs = @ \cup {[pos |-> d.size, fp |-> fp, addr |-> a, src |-> src]},
                            !.size = @ + Hdr + len],
         addr |-> a]

\* SavebaseChunk and SavedeltaChunk: append a record to the in-enclave
\* container, or first hand the full one to the DataWriter (Push spins
\* while the queue is full) and go on with a new container.
SaveRecord(c, fp, len, base, src) ==
    LET d == IF Fits(c, len) THEN c ELSE EmptyContainer(nextCid)
        a == [cid |-> d.cid, off |-> d.size, len |-> len, base |-> base]
    IN  [cont |-> [d EXCEPT !.recs = @ \cup {[pos |-> d.size, fp |-> fp, addr |-> a, src |-> src]},
                            !.size = @ + Hdr + len],
         addr |-> a]

\* Mutant: con_times does not advance.
WriteContainerSameName(c, kind, len) ==
    IF Fits(c, len)
    THEN UNCHANGED <<queue, nextCid>>
    ELSE /\ Len(queue) < QueueCap
         /\ queue' = Append(queue, [cid |-> c.cid, recs |-> c.recs, size |-> c.size, kind |-> kind])
         /\ UNCHANGED nextCid

\* Ocall_WriteContainer / Ocall_WriteDeltaContainer when c is full for len.
WriteContainer(c, kind, len) ==
    IF Fits(c, len)
    THEN UNCHANGED <<queue, nextCid>>
    ELSE /\ Len(queue) < QueueCap /\ nextCid <= MaxCid
         /\ queue' = Append(queue, [cid |-> c.cid, recs |-> c.recs, size |-> c.size, kind |-> kind])
         /\ nextCid' = nextCid + 1

\* UpdateFileRecipe for the chunk at hand.
AddToRecipe(fp) == session' = [session EXCEPT !.recipe = @ \cup {fp}]

\* The enclave leaves a stored chunk and takes the next one.
StoreNext(fp, a, old) ==
    /\ AddToRecipe(fp)
    /\ batch' = [batch EXCEPT !.todo = Tail(@),
                              !.done = Append(@, [fp |-> fp, addr |-> a, old |-> old])]
    /\ backup' = backup + a.len

\* ProcessSheUniqueChunk for a chunk kept as a base chunk.
SavebaseChunk(fp, old) ==
    LET s == SaveRecord(inBase, fp, CLen[fp], NoChunk, NoChunk)
    IN  /\ WriteContainer(inBase, "base", CLen[fp])
        /\ inBase' = s.cont
        /\ StoreNext(fp, s.addr, old)
        /\ UNCHANGED <<inDelta, staleUse>>

\* ProcessSheUniqueChunk for a delta; src is the content it was coded against.
SavedeltaChunk(fp, len, base, src) ==
    LET s == SaveRecord(inDelta, fp, len, base, src)
    IN  /\ WriteContainer(inDelta, "delta", len)
        /\ inDelta' = s.cont
        /\ StoreNext(fp, s.addr, NoChunk)
        /\ staleUse' = (staleUse \/ src # base)
        /\ UNCHANGED inBase

\* ProcessDeltachunk: keep the delta only when it is smaller than the chunk.
\* When the bytes are not a chunk the coder works on what the decompressor
\* left behind, and the delta may (GarbleSmall) or may not come out small.
CodeAgainst(e, content) ==
    LET garbled == content = Garbage
        len == DSize[e.fp][IF garbled THEN e.base ELSE content]
    IN  \/ /\ len < Size[e.fp] /\ (garbled => GarbleSmall)
           /\ SavedeltaChunk(e.fp, len, e.base, content)
        \/ (len >= Size[e.fp] \/ garbled) /\ SavebaseChunk(e.fp, NoChunk)

CachePos(k) == {i \in DOMAIN cache : cache[i].cid = k}
CacheBut(i) == SubSeq(cache, 1, i - 1) \o SubSeq(cache, i + 1, Len(cache))

\* InsertToCache_Offline: evict the least recently used container if full.
CacheInsert(k, buf) ==
    Append(IF Len(cache) + 1 > CacheSize THEN Tail(cache) ELSE cache, [cid |-> k, buf |-> buf])

\* The loop of ProcessOneBatch is at a new chunk.
AtNewChunk == phase = "batch" /\ batch.todo # <<>> /\ Head(batch.todo).new

\* DUPLICATE, TMP_DUPLICATE and TMP_UNIQUE chunks only go into the recipe.
SkipDuplicate ==
    /\ phase = "batch" /\ batch.todo # <<>> /\ ~Head(batch.todo).new
    /\ AddToRecipe(Head(batch.todo).fp)
    /\ batch' = [batch EXCEPT !.todo = Tail(@)]
    /\ UNCHANGED <<indexVars, localVars, file, writerVars, enclaveVars, bufferVars, phase, backup,
                   offlineVars, historyVars>>

\* OfflinedeltaTure without a similar base.
StoreUnique ==
    /\ AtNewChunk /\ Head(batch.todo).base = NoChunk
    /\ SavebaseChunk(Head(batch.todo).fp, NoChunk)
    /\ UNCHANGED <<indexVars, localVars, file, writing, bufferVars, phase,
                   offlineVars, final, broken, sessions, nbatches>>

\* OfflinedeltaTure in a deferred batch: keep the chunk, remember the pair.
StoreDeferred ==
    /\ AtNewChunk /\ Head(batch.todo).base # NoChunk /\ batch.local
    /\ SavebaseChunk(Head(batch.todo).fp, Head(batch.todo).base)
    /\ UNCHANGED <<indexVars, localVars, file, writing, bufferVars, phase,
                   offlineVars, final, broken, sessions, nbatches>>

\* The base container is in the in-enclave cache.
StoreSimilarCached ==
    LET e == Head(batch.todo) IN
    /\ AtNewChunk /\ e.base # NoChunk /\ ~batch.local
    /\ \E i \in CachePos(e.baddr.cid) :
        /\ cache' = Append(CacheBut(i), cache[i])
        /\ CodeAgainst(e, ContentAt(cache[i].buf, e.baddr))
    /\ UNCHANGED <<indexVars, localVars, file, writing, ocall, phase,
                   offlineVars, final, broken, sessions, nbatches>>

\* Ocall_getRefContainer reads the file as it is now, complete or just
\* created by the DataWriter, and the buffer goes into the cache.
StoreSimilarLoaded ==
    LET e == Head(batch.todo) IN
    /\ AtNewChunk /\ e.base # NoChunk /\ ~batch.local
    /\ CachePos(e.baddr.cid) = {} /\ HasFile(e.baddr.cid, "base")
    /\ ocall' = Load(file[e.baddr.cid])
    /\ cache' = CacheInsert(e.baddr.cid, ocall')
    /\ CodeAgainst(e, ContentAt(ocall', e.baddr))
    /\ UNCHANGED <<indexVars, localVars, file, writing, phase,
                   offlineVars, final, broken, sessions, nbatches>>

\* Ocall_getRefContainer cannot open the file: the chunk becomes a base.
StoreSimilarMissing ==
    LET e == Head(batch.todo) IN
    /\ AtNewChunk /\ e.base # NoChunk /\ ~batch.local
    /\ CachePos(e.baddr.cid) = {} /\ ~HasFile(e.baddr.cid, "base")
    /\ SavebaseChunk(e.fp, NoChunk)
    /\ UNCHANGED <<indexVars, localVars, file, writing, bufferVars, phase,
                   offlineVars, final, broken, sessions, nbatches>>

-----------------------------------------------------------------------------
(* The end of a batch: Ocall_UpdateDeltaIndex or Ocall_LocalInsert, then   *)
(* Ocall_UpdateOutIndex.                                                   *)

DoneOf(c) == {i \in DOMAIN batch.done : batch.done[i].fp = c}
DeferredOn(o) == {i \in DOMAIN batch.done : batch.done[i].old = o}
\* New base chunks that go into the super-feature index.
NewBases(f) ==
    {i \in DOMAIN batch.done :
        /\ batch.done[i].addr.base = NoChunk /\ batch.done[i].old = NoChunk
        /\ \E j \in DOMAIN SFs[batch.done[i].fp] : SFs[batch.done[i].fp][j] = f}

UpdateOutIndex ==
    /\ fpIndex' = [c \in Chunks |->
                     IF DoneOf(c) = {} THEN fpIndex[c] ELSE batch.done[Min(DoneOf(c))].addr]
    /\ sfIndex' = [f \in Features |->
                     IF sfIndex[f] # NoChunk \/ NewBases(f) = {} THEN sfIndex[f]
                     ELSE batch.done[Min(NewBases(f))].fp]

\* Mutant: the deltas of a batch are not listed.
ForgetDeltas == UNCHANGED deltaIndex

UpdateDeltaIndex ==
    deltaIndex' = [b \in Chunks |->
        deltaIndex[b] \cup {c \in Chunks : \E i \in DoneOf(c) : batch.done[i].addr.base = b}]

\* Mutant: the absence of an earlier pair is pushed as if it were a chunk.
LocalInsertUnchecked ==
    /\ localTmp' = [o \in Chunks |->
                     IF DeferredOn(o) = {} THEN localTmp[o] ELSE batch.done[Max(DeferredOn(o))].fp]
    /\ skipMap' = [o \in Chunks |->
                     IF DeferredOn(o) = {} THEN skipMap[o] ELSE skipMap[o] \cup {localTmp[o]}]

LocalInsert ==
    /\ localTmp' = [o \in Chunks |->
                     IF DeferredOn(o) = {} THEN localTmp[o] ELSE batch.done[Max(DeferredOn(o))].fp]
    /\ skipMap' = [o \in Chunks |->
                     IF DeferredOn(o) = {} THEN skipMap[o]
                     ELSE skipMap[o] \cup ({localTmp[o]} \ {NoChunk})
                            \cup {batch.done[i].fp : i \in DeferredOn(o) \ {Max(DeferredOn(o))}}]

EndBatch ==
    /\ phase = "batch" /\ batch.todo = <<>>
    /\ UpdateOutIndex /\ UpdateDeltaIndex /\ LocalInsert
    /\ phase' = "recv" /\ batch' = NoBatch
    /\ UNCHANGED <<localMap, file, writerVars, enclaveVars, bufferVars, session, backup,
                   offlineVars, historyVars>>

\* CLIENT_UPLOAD_RECIPE_END: ProcessTailBatch copies the open containers
\* out of the enclave, FinalizeRecipe completes the file recipe.
RecipeEnd ==
    /\ phase = "recv"
    /\ phase' = "ended"
    /\ session' = [session EXCEPT !.tail = TRUE]
    /\ final' = final \cup session.recipe
    /\ UNCHANGED <<indexVars, localVars, file, writerVars, enclaveVars, bufferVars, batch, backup,
                   offlineVars, broken, staleUse, sessions, nbatches>>

\* The containers the receiver pushes when the connection is closed.
TailOf(c, kind) ==
    IF c.size = 0 THEN <<>>
    ELSE <<[cid |-> c.cid, recs |-> c.recs, size |-> c.size, kind |-> kind]>>
\* Mutant: the open delta container is forgotten.
TailBaseOnly == TailOf(inBase, "base")

TailContainers == TailOf(inBase, "base") \o TailOf(inDelta, "delta")

\* The client closes the connection after the recipe end: the receiver
\* pushes what ProcessTailBatch copied out, then sets done_.
CloseSession ==
    /\ phase = "ended" /\ Len(queue) + Len(TailContainers) <= QueueCap
    /\ phase' = "drain"
    /\ queue' = queue \o TailContainers
    /\ nextCid' = nextCid + Len(TailContainers)
    /\ inBase' = EmptyContainer(0) /\ inDelta' = EmptyContainer(0)
    /\ UNCHANGED <<indexVars, localVars, file, writing, bufferVars, session, batch, backup,
                   offlineVars, historyVars>>

\* The client closes the connection before the recipe end: nothing was
\* copied out of the enclave, and the open containers go with the client.
Disconnect ==
    /\ phase = "recv" /\ broken < MaxBroken
    /\ phase' = "drain"
    /\ broken' = broken + 1
    /\ inBase' = EmptyContainer(0) /\ inDelta' = EmptyContainer(0)
    /\ UNCHANGED <<indexVars, localVars, file, writerVars, nextCid, bufferVars, session, batch,
                   backup, offlineVars, final, staleUse, sessions, nbatches>>

-----------------------------------------------------------------------------
(* The DataWriter thread.                                                  *)

\* Pop a container; fopen(..., "wb") creates or truncates its file.
WriterOpen ==
    /\ writing = <<>> /\ queue # <<>>
    /\ writing' = <<Head(queue)>>
    /\ queue' = Tail(queue)
    /\ file' = [file EXCEPT ![Head(queue).cid] = [kind |-> Head(queue).kind, recs |-> {}, size |-> 0]]
    /\ UNCHANGED <<indexVars, localVars, enclaveVars, bufferVars, phase, session, batch, backup,
                   offlineVars, historyVars>>

\* fwrite and fclose.
WriterSave ==
    /\ writing # <<>>
    /\ writing' = <<>>
    /\ file' = [file EXCEPT ![writing[1].cid] = [kind |-> writing[1].kind, recs |-> writing[1].recs,
                                                 size |-> writing[1].size]]
    /\ UNCHANGED <<indexVars, localVars, queue, enclaveVars, bufferVars, phase, session, batch,
                   backup, offlineVars, historyVars>>

\* Both threads are joined and an UPLOAD session ends: Ecall_UpdateOnlineInfo
\* resets the backup size, the client's variables are deleted.
EndUpload ==
    /\ phase = "drain" /\ queue = <<>> /\ writing = <<>> /\ session.op = "upload"
    /\ phase' = "idle"
    /\ session' = NoSession
    /\ backup' = 0
    /\ UNCHANGED <<indexVars, localVars, file, writerVars, enclaveVars, bufferVars, batch,
                   offlineVars, historyVars>>

Receive == \E b \in Batches : RecvBatch(b)
StoreChunk == SkipDuplicate \/ StoreUnique \/ StoreDeferred \/ StoreSimilarCached \/ StoreSimilarLoaded
                \/ StoreSimilarMissing
Writer == WriterOpen \/ WriterSave
=============================================================================
