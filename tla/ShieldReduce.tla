----------------------------- MODULE ShieldReduce -----------------------------
(***************************************************************************)
(* The upload path and the offline path composed: one session at a time    *)
(* (the client lock), its receiver and writer threads interleaved, then    *)
(* the offline pass of an OFFLINE session.                                 *)
(***************************************************************************)
EXTENDS InlineUpload, OfflineUpdate

Next ==
    \/ \E op \in {"upload", "offline"} : StartSession(op)
    \/ Receive
    \/ SkipDuplicate
    \/ StoreUnique
    \/ StoreDeferred
    \/ StoreSimilarCached
    \/ StoreSimilarLoaded
    \/ StoreSimilarMissing
    \/ EndBatch
    \/ RecipeEnd
    \/ CloseSession
    \/ Disconnect
    \/ WriterOpen
    \/ WriterSave
    \/ EndUpload
    \/ StartOffline
    \/ CleanLocalIndex
    \/ \E p \in localMap : SkipGreedy(p[1], p[2])
    \/ \E p \in localMap : SkipOldMissing(p[1], p[2])
    \/ \E p \in localMap : SkipNewMissing(p[1], p[2])
    \/ \E p \in localMap : BeginPair(p[1], p[2])
    \/ \E d \in work.deltas : MoveDelta(d)
    \/ \E d \in work.deltas : ReadStaleDelta(d)
    \/ MoveBase
    \/ SaveHot
    \/ \E k \in Cids : BeginCold(k)
    \/ \E r \in walk.buf : CopyRecord(r)
    \/ \E q \in walk.rest : DropRecord(q)
    \/ EndCold
    \/ GetMergeContainer
    \/ \E q \in merges : MergePair(q)
    \/ EndOffline

Spec == Init /\ [][Next]_vars

\* The session thread: the receiver, the enclave it calls and the offline
\* pass.  RecipeEnd and CloseSession need the client to finish its upload.
SessionThread ==
    \/ StoreChunk \/ EndBatch \/ RecipeEnd \/ CloseSession \/ EndUpload
    \/ StartOffline \/ CleanLocalIndex
    \/ \E p \in localMap : OfflinePair(p[1], p[2])
    \/ (\E d \in work.deltas : MoveDelta(d)) \/ MoveBase \/ SaveHot
    \/ (\E k \in Cids : BeginCold(k)) \/ (\E r \in walk.buf : CopyRecord(r))
    \/ (\E q \in walk.rest : DropRecord(q)) \/ EndCold
    \/ GetMergeContainer \/ (\E q \in merges : MergePair(q)) \/ EndOffline

FairSpec == Spec /\ WF_vars(SessionThread) /\ WF_vars(Writer)

-----------------------------------------------------------------------------
(* Where a container lives, and which of its records count.                *)

AsContainer(c) == [cid |-> c.cid, recs |-> c.recs, size |-> c.size]
Queued == {queue[i] : i \in DOMAIN queue} \cup {writing[i] : i \in DOMAIN writing}

\* What a container on disk holds.  While Update_cold_container rewrites it,
\* that is what was copied so far plus what the loop has yet to visit.
Disk(k) ==
    IF walk.cid = k THEN walk.recs \cup {r \in file[k].recs : r.pos >= walk.saveset}
    ELSE file[k].recs

\* The records of container k, wherever the container is now.
Held(k) ==
    (IF k \in Cids THEN Disk(k) ELSE {})
      \cup UNION {h.recs : h \in {g \in {inBase, inDelta, hot} \cup Queued : g.cid = k}}

\* The offsets in container k whose records have been moved to a hot one.
ColdOffsets(k) == {q[1] : q \in (IF k \in Cids THEN cold[k] ELSE {})
                                  \cup (IF walk.cid = k THEN walk.rest ELSE {})}

\* The record is fresh: its batch has not reached the fingerprint index.
InBatch(r) == \E i \in DOMAIN batch.done : batch.done[i].fp = r.fp /\ batch.done[i].addr = r.addr

-----------------------------------------------------------------------------
(* Invariants.                                                             *)

IndexTypes ==
    /\ fpIndex \in [Chunks -> Addr]
    /\ sfIndex \in [Features -> ChunkOrNone]
    /\ deltaIndex \in [Chunks -> SUBSET Chunks]
    /\ localTmp \in [Chunks -> ChunkOrNone]
    /\ skipMap \in [Chunks -> SUBSET Chunks]
    /\ localMap \in SUBSET (Chunks \X Chunks)
ContainerTypes ==
    /\ file \in [Cids -> File]
    /\ queue \in Seq(QueuedContainer) /\ writing \in Seq(QueuedContainer)
    /\ inBase \in Container /\ inDelta \in Container /\ hot \in Container
    /\ nextCid \in Nat
    /\ cache \in Seq(Cached) /\ ocall \in SUBSET Rec
SessionTypes ==
    /\ phase \in Phases /\ session \in Session /\ batch \in Batch /\ backup \in Int
    /\ final \in SUBSET Chunks /\ broken \in Nat /\ staleUse \in BOOLEAN
    /\ sessions \in Nat /\ nbatches \in Nat
OfflineTypes ==
    /\ cold \in [Cids -> SUBSET (Int \X Int)]
    /\ work \in Work /\ walk \in Walk
    /\ merges \in SUBSET (Cids \X Cids)

\* Every variable has the type its comment in ShieldStore gives it.  In
\* particular what InsertSF, LocalInsert and the delta index hold are chunks,
\* never the value that stands for "no entry".
TypeOK == IndexTypes /\ ContainerTypes /\ SessionTypes /\ OfflineTypes

\* A record that has not been moved is the one the fingerprint index points
\* at: the recipe entry in its header is the entry of the index.  This is
\* what lets Update_cold_container and MergeContainer rebuild the index from
\* the headers they find in a container.
HeadersCurrent ==
    \A k \in Cids : \A r \in Held(k) :
        /\ r.addr.cid = k /\ r.addr.off = r.pos
        /\ \/ r.pos \in ColdOffsets(k) /\ r \notin walk.recs
           \/ fpIndex[r.fp] = r.addr
           \/ InBatch(r)

\* An index entry finds its record: the container it names, if it is still
\* anywhere, holds that chunk at that offset with that header.  Only a client
\* that disconnects early can make a container vanish.
EntriesFound ==
    \A c \in Chunks : Indexed(c) =>
        LET a == fpIndex[c] IN
        \/ \E r \in Held(a.cid) : r.pos = a.off /\ r.fp = c /\ r.addr = a
        \/ broken > 0 /\ Held(a.cid) = {}

\* The base of a delta is a chunk stored in full: restoring decodes one
\* level and never follows a chain, however bases are replaced offline.
NoChain == \A c \in Chunks : fpIndex[c].base # NoChunk => IsBase(fpIndex[c].base)

\* Only chunks stored in full are offered as bases of new deltas.
SimilarAreBases == \A f \in Features : sfIndex[f] # NoChunk => IsBase(sfIndex[f])

\* What the delta index lists under a base are deltas of that base now.
DeltaIndexExact == \A b \in Chunks : \A c \in deltaIndex[b] : fpIndex[c].base = b

\* The pairs an offline pass may still be asked to process.
AllPairs == localMap \cup RevisedPairs

\* A base that can still be replaced has all of its deltas listed, so none
\* is left behind with a base that turned into a delta.
Replaceable(b) ==
    \/ \E f \in Features : sfIndex[f] = b
    \/ \E q \in AllPairs : q[1] = b
    \/ \E i \in DOMAIN batch.todo : batch.todo[i].base = b
DeltasTracked ==
    \A c \in Chunks : LET b == fpIndex[c].base IN
        (b # NoChunk /\ Replaceable(b)) => c \in deltaIndex[b]

\* The deferred pairs form one level: what replaces an old base is not
\* itself going to be replaced in the same pass, and both are full chunks.
PairsFlat ==
    \A q \in AllPairs :
        /\ IsBase(q[1]) /\ IsBase(q[2])
        /\ \A s \in AllPairs : s[1] # q[2] /\ (s[1] = q[1] => s = q)

\* The records of a container cover it without gap or overlap, and it stays
\* below MAX_CONTAINER_SIZE: every walk over its headers stays in step.
Tiles(recs, size) ==
    /\ size < MaxContainer
    /\ recs = {} => size = 0
    /\ recs # {} => \E r \in recs : r.pos = 0
    /\ \A r \in recs : LET end == r.pos + Hdr + r.addr.len IN
        /\ end = size \/ \E s \in recs : s.pos = end
        /\ end <= size /\ \A s \in recs : s # r => s.pos < r.pos \/ s.pos >= end
Tiled ==
    /\ \A h \in {inBase, inDelta, hot} \cup Queued : Tiles(h.recs, h.size)
    /\ \A k \in Cids : Tiles(file[k].recs, file[k].size)

\* One container per name: a container on its way to disk never overwrites
\* a file, and no two containers share a name.
OneHolder ==
    /\ \A h \in ({inBase, inDelta, hot} \cup {queue[i] : i \in DOMAIN queue}) :
          h.cid \in Cids => file[h.cid].kind = "none"
    /\ \A g, h \in {inBase, inDelta, hot} \cup {AsContainer(q) : q \in Queued} :
          g.cid = h.cid /\ g.cid # 0 => g = h
    /\ \A i, j \in DOMAIN queue : queue[i].cid = queue[j].cid => i = j

\* What Update_cold_container is told to remove is exactly a record of the
\* container, header included, whose chunk now lives elsewhere: it adds up
\* these lengths to find the next header.
ColdMarksExact ==
    \A k \in Cids : \A q \in cold[k] \cup (IF walk.cid = k THEN walk.rest ELSE {}) :
        \E r \in file[k].recs : q = <<r.pos, r.addr.len + Hdr>> /\ fpIndex[r.fp].cid # k

\* Every delta was coded against the base its header names, unless a wrong
\* buffer was used: re-coding offline loses nothing.
CodedAgainstBase ==
    ~staleUse => \A k \in Cids : \A r \in Held(k) : r.src = r.addr.base

\* The stored form of a chunk can be read back from disk.
OnDisk(c) ==
    LET a == fpIndex[c]
        kind == IF a.base = NoChunk THEN "base" ELSE "delta"
    IN  /\ Indexed(c) /\ a.cid \in Cids /\ file[a.cid].kind = kind
        /\ \E r \in file[a.cid].recs : r.pos = a.off /\ r.fp = c /\ r.addr = a /\ r.src = a.base
Restores(c) == OnDisk(c) /\ (fpIndex[c].base # NoChunk => OnDisk(fpIndex[c].base))

\* Between sessions, every chunk of every finalised recipe can be restored,
\* unless a wrong buffer was used or a client disconnected early.
Restorable == phase = "idle" /\ ~staleUse /\ broken = 0 => \A c \in final : Restores(c)

\* README: "same chunksums mean they are identical" - a downloaded file is
\* the uploaded file, without exceptions.
DownloadIdentical == phase = "idle" => \A c \in final : Restores(c)

\* The offline pass reads the delta containers it means to read.
NoStaleRead == broken = 0 => phase # "stale"

-----------------------------------------------------------------------------
(* Action properties.                                                      *)

\* A stored chunk is never dropped from the index, and a delta never turns
\* back into a full chunk.
IndexMonotone ==
    [][\A c \in Chunks : Indexed(c) =>
          fpIndex'[c] # NoAddr /\ (fpIndex[c].base # NoChunk => fpIndex'[c].base # NoChunk)]_vars

\* Without the offline flag (ONLY_FORWORD) no session ever rewrites what an
\* earlier one stored: every index entry is final.
NoRewrite ==
    [][IndexType = "ONLY_FORWORD" =>
          \A c \in Chunks : Indexed(c) => fpIndex'[c] = fpIndex[c]]_vars

\* Every session ends: no thread waits for ever for another one.
SessionEnds == phase # "idle" ~> phase = "idle"
=============================================================================
