--------------------------- MODULE RestoreDecoder ---------------------------
(* One DOWNLOAD session: the session thread that answers the login, the    *)
(* EnclaveRecvDecoder thread that turns the file recipe into chunks, the   *)
(* per-client read cache of containers, and the client's DataRetriever and *)
(* RestoreWriter threads with the message queue between them.              *)
(*                                                                         *)
(* Indexes and container files do not change during the session. What is   *)
(* stored is what the upload and offline paths leave behind: every chunk   *)
(* has an entry, and the base of a delta is no delta itself (NoChain and   *)
(* EntriesFound of module ShieldReduce).                                   *)
EXTENDS Naturals, Sequences, FiniteSets, SequencesExt

CONSTANTS
  Chunks,      \* fingerprints
  NoChunk,     \* base of a chunk that is no delta
  FileHead,    \* the FileRecipeHead_t at the front of a recipe file
  Garbage,     \* what decoding yields from the wrong bytes
  Containers,  \* container names with a file
  NoContainer, \* the name in an index entry that was not found
  ContainerOf, \* fingerprint -> container, as the index says
  BaseOf,      \* fingerprint -> base fingerprint or NoChunk
  Recipes,     \* the file recipes a client may ask for
  RecipeBatch, \* sendRecipeBatchSize_
  SendBatch,   \* sendChunkBatchSize_
  Cap,         \* CONTAINER_CAPPING_VALUE
  QueryMax,    \* entries of baseQuery: 5 in the code
  ArraySlots,  \* CONTAINERARRAY_VALUE: buffers of containerArray
  LruMax,      \* capacity of the LRU map, fixed: 64 in readCache.h
  PoolSize,    \* readCacheSize_, configured: buffers of containerPool_
  NetMax,      \* messages the connection holds before a send blocks
  QueueMax     \* chunks outputMQ_ holds before a push spins

ASSUME StoreAssumption ==
  /\ ContainerOf \in [Chunks -> Containers]
  /\ BaseOf \in [Chunks -> Chunks \cup {NoChunk}]
  /\ \A c \in Chunks : BaseOf[c] # NoChunk => BaseOf[BaseOf[c]] = NoChunk
  /\ NoChunk \notin Chunks /\ FileHead \notin Chunks /\ Garbage \notin Chunks
  /\ NoContainer \notin Containers
  /\ Recipes \subseteq Seq(Chunks)

ASSUME SizeAssumption ==
  /\ {RecipeBatch, SendBatch, QueryMax, LruMax, PoolSize, NetMax, QueueMax} \subseteq Nat \ {0}
  /\ Cap \in Nat /\ Cap > QueryMax
  /\ ArraySlots \in Nat /\ ArraySlots > Cap

VARIABLES
  recipe,    \* chunks of the requested file
  rpos,      \* entries of the recipe file read so far, the head included
  hpc,       \* session thread: "respond", "join"
  spc,       \* decoder thread
  end,       \* the recipe handler has hit the end of the file
  tail,      \* inside ProcRecipeTailBatch
  batch,     \* recipe entries of this ecall still to be parsed
  req,       \* the containers and entries collected since the last reset
  arr,       \* containerArray: slot -> container whose bytes it holds
  got,       \* containers of the request already fetched
  dec,       \* entries of the request already decoded
  bidx,      \* base entries used so far
  keys,      \* LRU list of the read cache, most recent first
  pool,      \* containerPool_: index -> container whose bytes it holds
  nextIdx,   \* currentIndex_
  restoreBuf,\* chunks decoded and not sent
  chan,      \* connection, server to client
  ready,     \* CLIENT_RESTORE_READY is on its way
  cpc,       \* retriever thread
  total,     \* totalChunkNum from the login response
  inbox,     \* chunks of the last message still to be pushed
  last,      \* that message was SERVER_RESTORE_FINAL
  recvNum,   \* _totalRecvChunkNum
  mq,        \* outputMQ_
  done,      \* outputMQ_->done_
  wpc,       \* writer thread
  jobDone,   \* its jobDoneFlag
  out        \* chunks written to the restored file

sessVars  == <<recipe, rpos, hpc, end>>
decVars   == <<spc, tail, batch, req, got, dec, bidx, restoreBuf>>
cacheVars == <<arr, keys, pool, nextIdx>>
retrVars  == <<cpc, total, inbox, last, recvNum>>
writeVars == <<wpc, jobDone, out>>
vars == <<sessVars, decVars, cacheVars, chan, ready, retrVars, mq, done, writeVars>>

----------------------------------------------------------------------------
(* The index and the request. *)

\* Ocall_ReadIndexStoreBatch and Ocall_QueryBaseIndex: a missing entry is
\* returned as zeroes.
AddrOf(c) ==
  IF c \in Chunks THEN [container |-> ContainerOf[c], base |-> BaseOf[c]]
  ELSE [container |-> NoContainer, base |-> NoChunk]

\* ids is idBuffer (its length is idNum), map tmpContainerMap, query
\* baseQuery, recs _enclaveRecipeBuffer and bases _baseRecipeBuffer.
NoRequest == [ids |-> <<>>, map |-> <<>>, query |-> <<>>, recs |-> <<>>, bases |-> <<>>]

\* Find the container in tmpContainerMap or give it the next slot.
AddContainer(r, k) ==
  IF k \in DOMAIN r.map THEN r
  ELSE [r EXCEPT !.map = [x \in DOMAIN r.map \cup {k} |-> IF x = k THEN Len(r.ids) ELSE r.map[x]],
                 !.ids = Append(@, k)]

\* Mutant: a base whose container is known gets no entry of its own.
PushBaseOnce(r) ==
  LET b == Head(r.query)
      k == AddrOf(b).container
      a == AddContainer(r, k)
  IN  [a EXCEPT !.query = Tail(@),
                !.bases = IF k \in DOMAIN r.map THEN @ ELSE Append(@, [chunk |-> b, slot |-> a.map[k]])]

\* One round of the loop after Ocall_QueryBaseIndex: a slot and an entry
\* for the next queried base.
PushBase(r) ==
  LET b == Head(r.query)
      k == AddrOf(b).container
      a == AddContainer(r, k)
  IN  [a EXCEPT !.query = Tail(@),
                !.bases = Append(@, [chunk |-> b, slot |-> a.map[k]])]

\* The base of a delta joins the query.
QueueBase(r, b) == IF b = NoChunk THEN r ELSE [r EXCEPT !.query = Append(@, b)]

\* One iteration of the loop over the recipe batch, up to the capping test.
PushEntry(r, c) ==
  LET k == AddrOf(c).container
      a == AddContainer(QueueBase(r, AddrOf(c).base), k)
  IN  [a EXCEPT !.recs = Append(@, [chunk |-> c, slot |-> a.map[k]])]

\* Mutant: the bases still to be queried are not counted.
CappedWithoutQuery(r) == Len(r.ids) >= Cap

Capped(r) == Len(r.ids) + Len(r.query) >= Cap

----------------------------------------------------------------------------
(* The read cache: containerPool_ under an LRU map of names to indexes. *)

Cached(k) == \E i \in DOMAIN keys : keys[i].name = k

KeyOf(k) == CHOOSE i \in DOMAIN keys : keys[i].name = k

\* lru11::Cache::get: the key moves to the front.
ToFront(i) == <<keys[i]>> \o RemoveAt(keys, i)

\* lru11::Cache::insert of a key that is not there, with its prune.
Inserted(k, i) ==
  LET s == <<[name |-> k, idx |-> i]>> \o keys
  IN  IF Len(s) < LruMax THEN s ELSE SubSeq(s, 1, LruMax)

\* The test of InsertToCache: the map has a name for every buffer.
PoolFull == Len(keys) + 1 > PoolSize

\* Names the map dropped took no buffer back: by the test there is one left,
\* by currentIndex_ there is none.
PoolOverrun == ~PoolFull /\ nextIdx >= PoolSize

\* Mutant: the map is pruned one key later than the pool is reused.
InsertToCacheLate(k) ==
  LET i == IF PoolFull THEN keys[Len(keys)].idx ELSE nextIdx
  IN  /\ pool' = [pool EXCEPT ![i] = k]
      /\ keys' = IF PoolFull THEN SubSeq(<<[name |-> k, idx |-> i]>> \o keys, 1, LruMax + 1) ELSE Inserted(k, i)
      /\ nextIdx' = IF PoolFull THEN nextIdx ELSE nextIdx + 1

\* ReadCache::InsertToCache: when the pool is full the buffer of the least
\* recent key is overwritten; whether the map forgets that key depends on
\* its own capacity.
InsertToCache(k) ==
  LET i == IF PoolFull THEN keys[Len(keys)].idx ELSE nextIdx
  IN  /\ pool' = [pool EXCEPT ![i] = k]
      /\ keys' = Inserted(k, i)
      /\ nextIdx' = IF PoolFull THEN nextIdx ELSE nextIdx + 1

----------------------------------------------------------------------------
(* The server. *)

Init ==
  /\ recipe \in Recipes
  /\ rpos = 0 /\ hpc = "respond" /\ spc = "ready" /\ end = FALSE /\ tail = FALSE
  /\ batch = <<>> /\ req = NoRequest /\ got = 0 /\ dec = 0 /\ bidx = 0
  /\ arr = [s \in 0..ArraySlots - 1 |-> NoContainer]
  /\ keys = <<>> /\ pool = [i \in 0..PoolSize - 1 |-> NoContainer] /\ nextIdx = 0
  /\ restoreBuf = <<>> /\ chan = <<>> /\ ready = FALSE
  /\ cpc = "login" /\ total = 0 /\ inbox = <<>> /\ last = FALSE /\ recvNum = 0
  /\ mq = <<>> /\ done = FALSE /\ wpc = "done" /\ jobDone = FALSE /\ out = <<>>

RecipeFile == <<FileHead>> \o recipe

\* Up to n entries of the recipe file from where the handler stands.
Read(n) == SubSeq(RecipeFile, rpos + 1, IF rpos + n < Len(RecipeFile) THEN rpos + n ELSE Len(RecipeFile))

\* The session thread reads the head, after it has started the decoder
\* thread on the same file handler, and answers the login with it.
LoginResponse ==
  /\ hpc = "respond"
  /\ hpc' = "join"
  /\ rpos' = rpos + Len(Read(1))
  /\ chan' = Append(chan, [type |-> "LOGIN", data |-> Read(1)])
  /\ UNCHANGED <<recipe, end, decVars, cacheVars, ready, retrVars, mq, done, writeVars>>

\* EnclaveRecvDecoder::Run waits for CLIENT_RESTORE_READY.
RecvReady ==
  /\ spc = "ready" /\ ready
  /\ ready' = FALSE
  /\ spc' = "read"
  /\ UNCHANGED <<sessVars, tail, batch, req, got, dec, bidx, restoreBuf, cacheVars>>
  /\ UNCHANGED <<chan, retrVars, mq, done, writeVars>>

\* Read a recipe batch and enter ProcRecipeBatch, whose container map is
\* fresh while the rest of the request is what the last batch left.
ReadBatch ==
  /\ spc = "read"
  /\ rpos' = rpos + Len(Read(RecipeBatch))
  /\ end' = (Len(Read(RecipeBatch)) < RecipeBatch)
  /\ batch' = Read(RecipeBatch)
  /\ IF batch' = <<>>
       THEN spc' = "tail" /\ UNCHANGED req
       ELSE spc' = "scan" /\ req' = [req EXCEPT !.map = <<>>]
  /\ UNCHANGED <<recipe, hpc, tail, got, dec, bidx, restoreBuf, cacheVars>>
  /\ UNCHANGED <<chan, ready, retrVars, mq, done, writeVars>>

\* A delta finds the query full: it is answered before anything else.
QueryFull ==
  /\ spc = "scan" /\ batch # <<>>
  /\ AddrOf(Head(batch)).base # NoChunk /\ Len(req.query) >= QueryMax
  /\ spc' = "full"
  /\ UNCHANGED <<sessVars, tail, batch, req, got, dec, bidx, restoreBuf, cacheVars>>
  /\ UNCHANGED <<chan, ready, retrVars, mq, done, writeVars>>

\* Parse one recipe entry; at the capping value the request is closed.
ParseEntry ==
  /\ spc = "scan" /\ batch # <<>>
  /\ AddrOf(Head(batch)).base = NoChunk \/ Len(req.query) < QueryMax
  /\ batch' = Tail(batch)
  /\ req' = PushEntry(req, Head(batch))
  /\ spc' = IF Capped(req') THEN "resolve" ELSE "scan"
  /\ UNCHANGED <<sessVars, tail, got, dec, bidx, restoreBuf, cacheVars>>
  /\ UNCHANGED <<chan, ready, retrVars, mq, done, writeVars>>

\* The answer to a query, base by base, in the middle of the batch or for
\* a request that is closed.  The loop sees nothing but the request.
ResolveBases ==
  /\ spc \in {"full", "resolve"}
  /\ IF req.query # <<>>
       THEN req' = PushBase(req) /\ UNCHANGED spc
       ELSE spc' = (IF spc = "full" THEN "scan" ELSE "fetch") /\ UNCHANGED req
  /\ UNCHANGED <<sessVars, tail, batch, got, dec, bidx, restoreBuf, cacheVars>>
  /\ UNCHANGED <<chan, ready, retrVars, mq, done, writeVars>>

\* ProcRecipeBatch returns.
EndBatch ==
  /\ spc = "scan" /\ batch = <<>>
  /\ spc' = IF end THEN "tail" ELSE "read"
  /\ UNCHANGED <<sessVars, tail, batch, req, got, dec, bidx, restoreBuf, cacheVars>>
  /\ UNCHANGED <<chan, ready, retrVars, mq, done, writeVars>>

\* GetReqContainers, one container: from the cache, or from its file and
\* into the cache. A name without a file ends the server, and so does a
\* copy to a buffer past the end of containerPool_, which has no address.
FetchContainer ==
  /\ spc = "fetch"
  /\ LET k == req.ids[got + 1]
     IN  /\ CASE Cached(k) ->
                  /\ arr' = [arr EXCEPT ![got] = pool[keys[KeyOf(k)].idx]]
                  /\ keys' = ToFront(KeyOf(k))
                  /\ UNCHANGED <<pool, nextIdx>>
             [] ~Cached(k) /\ k \in Containers ->
                  /\ arr' = [arr EXCEPT ![got] = k]
                  /\ IF PoolOverrun THEN UNCHANGED <<keys, pool, nextIdx>> ELSE InsertToCache(k)
             [] OTHER -> UNCHANGED cacheVars
         /\ spc' = CASE ~Cached(k) /\ k \notin Containers -> "exit"
                     [] ~Cached(k) /\ k \in Containers /\ PoolOverrun -> "overrun"
                     [] OTHER -> IF got + 1 = Len(req.ids) THEN "decode" ELSE "fetch"
  /\ got' = IF spc' = "fetch" THEN got + 1 ELSE 0
  /\ UNCHANGED <<sessVars, tail, batch, req, dec, bidx, restoreBuf>>
  /\ UNCHANGED <<chan, ready, retrVars, mq, done, writeVars>>

\* What the bytes in containerArray decode to: a chunk when its slot holds
\* its container and, for a delta, when the base entry is its own base and
\* that slot holds the base's container.
Decoded(r) ==
  LET b == BaseOf[r.chunk]
      e == req.bases[bidx + 1]
  IN  IF /\ r.chunk \in Chunks
         /\ arr[r.slot] = ContainerOf[r.chunk]
         /\ b # NoChunk => /\ bidx < Len(req.bases)
                           /\ e.chunk = b
                           /\ arr[e.slot] = ContainerOf[b]
      THEN r.chunk ELSE Garbage

\* Mutant: tmpContainerMap is not cleared with the rest of the request.
ResetKeepsMap == [NoRequest EXCEPT !.map = req.map]

\* The reset after a capped request has been decoded.
Reset == NoRequest

\* Decode one entry of the request; a full buffer, and the last entry of
\* the tail, is sent.
DecodeEntry ==
  /\ spc = "decode"
  /\ LET r    == req.recs[dec + 1]
         buf  == Append(restoreBuf, Decoded(r))
         over == dec + 1 = Len(req.recs)
         fin  == tail /\ over
     IN  /\ IF Len(buf) % SendBatch = 0 \/ fin
              THEN /\ Len(chan) < NetMax
                   /\ chan' = Append(chan, [type |-> IF fin THEN "FINAL" ELSE "CHUNK", data |-> buf])
                   /\ restoreBuf' = <<>>
              ELSE /\ restoreBuf' = buf
                   /\ UNCHANGED chan
         /\ dec' = IF over THEN 0 ELSE dec + 1
         /\ bidx' = IF over THEN 0 ELSE IF AddrOf(r.chunk).base = NoChunk THEN bidx ELSE bidx + 1
         /\ req' = IF over /\ ~tail THEN Reset ELSE req
         /\ spc' = IF fin THEN "close" ELSE IF over THEN "scan" ELSE "decode"
  /\ UNCHANGED <<sessVars, tail, batch, got, cacheVars>>
  /\ UNCHANGED <<ready, retrVars, mq, done, writeVars>>

\* ProcRecipeTailBatch: close the last request, or send what is left over.
TailBatch ==
  /\ spc = "tail"
  /\ tail' = TRUE
  /\ IF req.recs # <<>>
       THEN /\ req' = [req EXCEPT !.map = <<>>]
            /\ spc' = "resolve"
            /\ UNCHANGED <<chan, restoreBuf>>
       ELSE /\ Len(chan) < NetMax
            /\ chan' = Append(chan, [type |-> "FINAL", data |-> restoreBuf])
            /\ restoreBuf' = <<>>
            /\ spc' = "close"
            /\ UNCHANGED req
  /\ UNCHANGED <<sessVars, batch, got, dec, bidx, cacheVars>>
  /\ UNCHANGED <<ready, retrVars, mq, done, writeVars>>

\* The thread waits for the client to close the connection.
ClientClosed ==
  /\ spc = "close" /\ cpc \in {"finished", "count", "checked", "exit"}
  /\ spc' = "over"
  /\ UNCHANGED <<sessVars, tail, batch, req, got, dec, bidx, restoreBuf, cacheVars>>
  /\ UNCHANGED <<chan, ready, retrVars, mq, done, writeVars>>

----------------------------------------------------------------------------
(* The client. *)

\* RestoreLogin reads the head; Run then sends CLIENT_RESTORE_READY.
RecvLogin ==
  /\ cpc = "login" /\ chan # <<>>
  /\ total' = IF Head(chan).data = <<FileHead>> THEN Len(recipe) ELSE 0
  /\ chan' = Tail(chan)
  /\ ready' = TRUE
  /\ cpc' = "recv"
  /\ UNCHANGED <<sessVars, decVars, cacheVars, inbox, last, recvNum, mq, done, writeVars>>

RecvMessage ==
  /\ cpc = "recv" /\ chan # <<>>
  /\ inbox' = Head(chan).data
  /\ last' = (Head(chan).type = "FINAL")
  /\ chan' = Tail(chan)
  /\ cpc' = "push"
  /\ UNCHANGED <<sessVars, decVars, cacheVars, ready, total, recvNum, mq, done, writeVars>>

\* ProcessChunkBatch, one chunk; Push spins while the queue is full.
PushChunk ==
  /\ cpc = "push" /\ inbox # <<>>
  /\ Len(mq) < QueueMax
  /\ mq' = Append(mq, Head(inbox))
  /\ inbox' = Tail(inbox)
  /\ recvNum' = recvNum + 1
  /\ UNCHANGED <<sessVars, decVars, cacheVars, chan, ready, cpc, total, last, done, writeVars>>

\* After the last message the connection is finished.
MessageDone ==
  /\ cpc = "push" /\ inbox = <<>>
  /\ cpc' = IF last THEN "finished" ELSE "recv"
  /\ UNCHANGED <<sessVars, decVars, cacheVars, chan, ready, total, inbox, last, recvNum, mq, done, writeVars>>

SetDone ==
  /\ cpc = "finished"
  /\ done' = TRUE
  /\ cpc' = "count"
  /\ UNCHANGED <<sessVars, decVars, cacheVars, chan, ready, total, inbox, last, recvNum, mq, writeVars>>

\* A number of chunks other than the head's ends the client process.
CheckCount ==
  /\ cpc = "count"
  /\ cpc' = IF recvNum = total THEN "checked" ELSE "exit"
  /\ UNCHANGED <<sessVars, decVars, cacheVars, chan, ready, total, inbox, last, recvNum, mq, done, writeVars>>

\* Mutant: the queue is found empty before done_ is read.
WriterCheckSwapped ==
  \/ /\ wpc = "done"
     /\ wpc' = IF mq = <<>> THEN "empty" ELSE "pop"
     /\ UNCHANGED jobDone
  \/ /\ wpc = "empty"
     /\ wpc' = "pop"
     /\ jobDone' = done

\* The writer's test for the end: done_ is read first, then the queue.
WriterCheck ==
  \/ /\ wpc = "done"
     /\ wpc' = IF done THEN "empty" ELSE "pop"
     /\ UNCHANGED jobDone
  \/ /\ wpc = "empty"
     /\ wpc' = "pop"
     /\ jobDone' = (mq = <<>>)

WriterTest ==
  /\ cpc # "exit"
  /\ WriterCheck
  /\ UNCHANGED <<sessVars, decVars, cacheVars, chan, ready, retrVars, mq, done, out>>

\* Take a chunk if there is one; leave the loop if the job was found done.
WriterPop ==
  /\ cpc # "exit" /\ wpc = "pop"
  /\ IF mq # <<>>
       THEN out' = Append(out, Head(mq)) /\ mq' = Tail(mq)
       ELSE UNCHANGED <<out, mq>>
  /\ wpc' = IF jobDone THEN "closed" ELSE "done"
  /\ UNCHANGED <<sessVars, decVars, cacheVars, chan, ready, retrVars, done, jobDone>>

----------------------------------------------------------------------------
Decoder ==
  \/ RecvReady \/ ReadBatch \/ QueryFull \/ ParseEntry \/ ResolveBases \/ EndBatch \/ FetchContainer
  \/ DecodeEntry \/ TailBatch \/ ClientClosed

Retriever ==
  \/ RecvLogin \/ RecvMessage \/ PushChunk \/ MessageDone \/ SetDone \/ CheckCount

Writer == WriterTest \/ WriterPop

Next == LoginResponse \/ Decoder \/ Retriever \/ Writer

Spec == Init /\ [][Next]_vars

\* Every thread is scheduled; a thread that spins or blocks goes on once
\* what it waits for is there.
FairSpec ==
  /\ Spec
  /\ WF_vars(LoginResponse) /\ WF_vars(Decoder)
  /\ WF_vars(Retriever) /\ WF_vars(Writer)

----------------------------------------------------------------------------
(* Properties. *)

Slots == 0..ArraySlots - 1
Names == Containers \cup {NoContainer}
Items == Chunks \cup {FileHead}
Entry == [chunk : Items, slot : Slots]
Key   == [name : Names, idx : 0..PoolSize - 1]
Data  == Seq(Items \cup {Garbage})

Request ==
  [ids : Seq(Names), map : UNION {[D -> Slots] : D \in SUBSET Names}, query : Seq(Chunks),
   recs : Seq(Entry), bases : Seq(Entry)]

Message == [type : {"LOGIN", "CHUNK", "FINAL"}, data : Data]

\* Types: every slot an entry carries is a buffer of containerArray and
\* every cache index a buffer of containerPool_.
TypeOK ==
  /\ recipe \in Recipes /\ rpos \in 0..Len(recipe) + 1
  /\ hpc \in {"respond", "join"} /\ end \in BOOLEAN /\ tail \in BOOLEAN
  /\ spc \in {"ready", "read", "scan", "full", "resolve", "fetch", "decode", "tail", "close", "over", "exit",
             "overrun"}
  /\ batch \in Seq(Items) /\ req \in Request
  /\ arr \in [Slots -> Names] /\ got \in 0..ArraySlots /\ dec \in Nat /\ bidx \in Nat
  /\ keys \in Seq(Key) /\ pool \in [0..PoolSize - 1 -> Names] /\ nextIdx \in 0..PoolSize
  /\ restoreBuf \in Data /\ chan \in Seq(Message) /\ ready \in BOOLEAN
  /\ cpc \in {"login", "recv", "push", "finished", "count", "checked", "exit"}
  /\ total \in Nat /\ recvNum \in Nat /\ inbox \in Data /\ last \in BOOLEAN
  /\ mq \in Data /\ done \in BOOLEAN
  /\ wpc \in {"done", "empty", "pop", "closed"} /\ jobDone \in BOOLEAN
  /\ out \in Data

\* Request size: although a delta adds two containers after the capping
\* test, a request names at most one container more than the capping value
\* (the buffers of containerArray suffice; idBuffer is one name short).
RequestBounded ==
  /\ Len(req.ids) <= Cap + 1
  /\ Len(req.query) <= QueryMax
  /\ spc \in {"read", "scan", "full", "tail"} => Len(req.ids) + Len(req.query) < Cap

IsDelta(e) == AddrOf(e.chunk).base # NoChunk

\* Deltas among the first i of a sequence of entries.
DeltasAmong(s, i) == Cardinality({j \in 1..i : IsDelta(s[j])})

\* The bases resolved so far, followed by those still in the query.
BaseNo(r, n) ==
  IF n <= Len(r.bases) THEN r.bases[n].chunk ELSE r.query[n - Len(r.bases)]

\* The k-th delta of a request has its own base at the k-th place, and
\* there are no other bases.
InStep(r) ==
  /\ DeltasAmong(r.recs, Len(r.recs)) = Len(r.bases) + Len(r.query)
  /\ \A i \in DOMAIN r.recs :
       IsDelta(r.recs[i]) => BaseNo(r, DeltasAmong(r.recs, i)) = AddrOf(r.recs[i].chunk).base

\* Deltas and bases run in step, across full queries, recipe batches and
\* resets, and the decoding loop counts along: the base it takes from
\* _baseRecipeBuffer is that of the delta at hand.
BasesInStep ==
  /\ InStep(req)
  /\ spc = "decode" => bidx = DeltasAmong(req.recs, dec)

\* Slots: every entry's slot is that of its container in idBuffer, though
\* the container map forgets what an earlier recipe batch put there, and
\* once fetched the buffer of the slot holds that container.
SlotsRight ==
  \A s \in {req.recs, req.bases} : \A i \in DOMAIN s :
    /\ s[i].slot < Len(req.ids)
    /\ req.ids[s[i].slot + 1] = AddrOf(s[i].chunk).container
    /\ spc = "decode" => arr[s[i].slot] = AddrOf(s[i].chunk).container

\* A name maps to a pool buffer with that container's bytes, and no two
\* names share a buffer.
CacheBytes ==
  /\ \A i \in DOMAIN keys : keys[i].idx < PoolSize /\ pool[keys[i].idx] = keys[i].name
  /\ \A i, j \in DOMAIN keys : i # j => keys[i].name # keys[j].name /\ keys[i].idx # keys[j].idx

\* The pool has not been, and with the next container will not be, indexed
\* past its end.
PoolInBounds == ~PoolOverrun /\ spc # "overrun"

\* Read cache: what a hit returns are the bytes of the container asked for,
\* and a miss finds a buffer.
CacheCoherent == CacheBytes /\ PoolInBounds

\* Conditions on the two sizes, which the code does not compare: the pool
\* has a buffer for every name, the map a name for every buffer.
PoolCoversMap == LruMax <= PoolSize
MapCoversPool == PoolSize <= LruMax
SizesAgree    == PoolSize = LruMax

Promise == INSTANCE RestoredFile
  WITH stored <- recipe, closed <- (wpc = "closed" /\ spc = "over" /\ cpc = "checked")

\* The safety part of the refinement below: what was written is a beginning
\* of the stored file, it grows by one chunk at a time, and the file is
\* closed only when it is whole.
WritesInOrder == Promise!Safety

\* Refinement: a download writes the chunks of the stored file in order,
\* each once, closes the file only when it is whole, and, with every thread
\* scheduled, does so and lets go of the connection.
DownloadFaithful == Promise!Spec
=============================================================================
